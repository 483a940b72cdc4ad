SPECIFICATION Spec
CONSTANTS
    Sessions = {c1}
    Urls = {u1, u2}
    NoUrl = NoUrl
    MaxId = 2
    Slots = {k1, k2}
    NoSlot = NoSlot
    Commands = {"use", "update", "add", "add_use", "del"}
    Fetched = {"good", "bad"}
    Serial = TRUE
    Interruptible = {c1}
    Crashes = TRUE
    WriteFails = TRUE
    Converts = FALSE
    HasWget = TRUE
SYMMETRY LinksAndSlots
INVARIANTS RolledBack InEffect ListedHaveFile UsedIsListed
