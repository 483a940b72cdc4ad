SPECIFICATION Spec
CONSTANTS
    Clients = {c1, c2}
    Pids = {p1, p2}
    NoPid = NoPid
    Ops = {"on", "stop"}
    Attempts = 1
    Bystanders = {}
    Interruptible = {c1, c2}
    Serial = FALSE
    ExecWindow = FALSE
    Crashes = FALSE
    WriteFails = FALSE
PROPERTY OnlyKernelsSignalled
