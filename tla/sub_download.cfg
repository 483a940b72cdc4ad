SPECIFICATION Spec
CONSTANTS
    Sessions = {c1}
    Urls = {u1, u2}
    NoUrl = NoUrl
    MaxId = 2
    Slots = {k1, k2}
    NoSlot = NoSlot
    Commands = {"add_use", "use"}
    Fetched = {"good"}
    Serial = TRUE
    Interruptible = {}
    Crashes = FALSE
    WriteFails = FALSE
    Converts = FALSE
    HasWget = FALSE
SYMMETRY LinksAndSlots
INVARIANTS FromOwnLink
