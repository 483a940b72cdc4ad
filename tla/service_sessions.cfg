SPECIFICATION Spec
CONSTANTS
    Clients = {c1, c2}
    Pids = {p1, p2, p3}
    NoPid = NoPid
    Ops = {"start", "stop", "restart", "off"}
    Attempts = 1
    Bystanders = {"other"}
    Interruptible = {c1, c2}
    Serial = FALSE
    ExecWindow = FALSE
    Crashes = FALSE
    WriteFails = FALSE
SYMMETRY SessionsAndPids
INVARIANTS KernelsOfTwoSessions
PROPERTY BystandersSafe
