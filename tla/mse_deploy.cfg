SPECIFICATION Spec
CONSTANTS
 nvim = nvim
 sqtop = sqtop
 clashctl = clashctl
 Available <- Order
 Clash = clashctl
 Tools = {sqtop}
 FileOf <- Paths
 Cloned = {"nvim"}
 Zshrc = "zshrc"
 Zprofile = "zprofile"
 None = None
 Ours = Ours
 MaxEdits = 2
INVARIANTS TypeOK UpdateKeepsSelection UnwantedStaysOut EntriesMatchPrefs KernelIsCurrent
PROPERTIES UserFilesKept EntriesGoLast
