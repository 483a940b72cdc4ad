SPECIFICATION Spec
CONSTANTS
    Sessions = {c1}
    Urls = {u1, u2}
    NoUrl = NoUrl
    MaxId = 2
    Slots = {k1, k2}
    NoSlot = NoSlot
    Commands = {"use", "update", "add_use", "del", "mixin"}
    Fetched = {"good", "zero"}
    Serial = TRUE
    Interruptible = {}
    Crashes = FALSE
    WriteFails = FALSE
    Converts = FALSE
    HasWget = TRUE
SYMMETRY LinksAndSlots
INVARIANTS TypeOK RolledBack InEffect KernelRunsRuntime UsedIsBase UpdateKeepsProfile FromOwnLink DeletedIsDown
