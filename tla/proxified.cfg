SPECIFICATION Spec
CONSTANTS
 Threads = {t1,t2}
 Main = t1
 NoOne = NoOne
 n1 = n1
 n2 = n2
 Names = {n1,n2}
 NoName = NoName
 Length <- Lengths
 MsgMax = 256
 Limit = 2
 Configs <- Files
 RRLoopMax = 1
 MaxHops = 3
INVARIANTS TypeOK StrictIsWhole NoProxyTwice RoundRobinInTurn RightName
PROPERTY PromisedSpec
CHECK_DEADLOCK FALSE
