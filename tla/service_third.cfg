SPECIFICATION Spec
CONSTANTS
    Clients = {c1}
    Pids = {p1, p2, p3}
    NoPid = NoPid
    Ops = {"tunon"}
    Attempts = 1
    Bystanders = {}
    Interruptible = {}
    Serial = TRUE
    ExecWindow = FALSE
    Crashes = FALSE
    WriteFails = FALSE
INVARIANT NoThirdInstance
