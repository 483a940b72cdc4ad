SPECIFICATION Spec
CONSTANTS
    Clients = {c1, c2}
    Pids = {p1, p2, p3}
    NoPid = NoPid
    Ops = {"start", "stop", "restart", "active", "on", "off"}
    Attempts = 2
    Bystanders = {"other", "probe"}
    Interruptible = {c1, c2}
    Serial = TRUE
    ExecWindow = FALSE
    Crashes = TRUE
    WriteFails = FALSE
SYMMETRY SessionsAndPids
INVARIANTS TypeOK AtMostOneKernel StopLeavesNone InactiveIsTrue FailedStartLeavesNone
