SPECIFICATION Spec
CONSTANTS
 Shells = {c1,c2}
 Pids = {p1,p2}
 NoPid = NoPid
 Hosts = {h1,h2}
 Ports = {q1}
 NoCmd = NoCmd
 h1 = h1
 h2 = h2
 Candidates <- Cands
 PrefixOf <- Pref
 Initial = {"managed","legacy","theirs","foreign"}
INVARIANTS TypeOK OffLeavesNone OnLeavesOne BystandersSafe
SYMMETRY Syms
