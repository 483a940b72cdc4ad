SPECIFICATION FairSpec
CONSTANTS
    Clients = {c1}
    Pids = {p1, p2}
    NoPid = NoPid
    Ops = {"start", "stop", "restart", "active", "on", "off", "tunon", "tunoff"}
    Attempts = 2
    Bystanders = {"other", "probe"}
    Interruptible = {c1}
    Serial = FALSE
    ExecWindow = TRUE
    Crashes = TRUE
    WriteFails = TRUE
PROPERTIES BystandersSafe CommandsEnd
