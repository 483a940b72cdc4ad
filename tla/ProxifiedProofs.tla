-------------------------- MODULE ProxifiedProofs --------------------------
(***************************************************************************)
(* Resolving and connecting together: the name table is still what the     *)
(* threads see, the name a proxy is told is the one that was resolved, and *)
(* a chain that no other overlaps is what its type promises, for every     *)
(* number of threads, names, proxies and every configuration.              *)
(***************************************************************************)
EXTENDS Proxified, DnsThreadProofs, WellFoundedInduction

(***************************************************************************)
(* The invariant.  An answer is true of the table, and stays so because    *)
(* names are only added at its end; 0 is the address of no question.       *)
(***************************************************************************)
TrueAnswer(q, r) ==
    IF q.type = "getip"
    THEN r = 0 \/ (r \in DOMAIN table /\ table[r] = q.name)
    ELSE q.ip = 0 \/ r = NoName \/ (q.ip \in DOMAIN table /\ r = table[q.ip])

Truthful ==
    \A c \in Threads :
        /\ at[c] = "wait" /\ resp # <<>> => TrueAnswer(ask[c], Head(resp))
        /\ at[c] \in {"leave", "out"} => TrueAnswer(ask[c], got[c])

Labels == {"idle", "calc", "first", "start", "next", "step", "target", "fail", "done"}
Codes == {"none", "ok", "refused", "timeout"}

ConnectTypes ==
    /\ pc \in [Threads -> Labels]
    /\ rc \in [Threads -> Codes]
    /\ wanted \in [Threads -> Names \cup {NoName}]
    /\ dest \in [Threads -> Addresses]

\* A thread asks when it resolves, and when its last proxy is to be told a name.
Asks(t) ==
    /\ at[t] # "out" => \/ pc[t] = "idle" /\ wanted[t] # NoName
                        \/ pc[t] = "target" /\ ask[t] = GetName(dest[t]) /\ dest[t] # 0
    /\ pc[t] = "idle" => dest[t] = 0 /\ (wanted[t] # NoName => ask[t] = GetIp(wanted[t]))

\* The address it connects to is the one of the name it resolved.
Goes(t) ==
    /\ pc[t] # "idle" =>
        /\ dest[t] = 0 <=> wanted[t] = NoName
        /\ dest[t] # 0 =>
            /\ dest[t] \in DOMAIN table /\ table[dest[t]] = wanted[t]
            /\ ask[t] \in {GetIp(wanted[t]), GetName(dest[t])}

ConnectInv ==
    /\ ConnectTypes /\ Truthful /\ RightName
    /\ \A t \in Threads : Asks(t) /\ Goes(t)

-----------------------------------------------------------------------------
(***************************************************************************)
(* What the steps of a chain do to the rest.                               *)
(***************************************************************************)
LEMMA ChainMoves ==
    ASSUME ConnectTypes, NEW t \in Threads, Chain!Step(t)
    PROVE  /\ pc[t] \notin {"idle", "target", "done"}
           /\ \/ /\ \E l \in Labels \ {"idle", "done"} : pc' = [pc EXCEPT ![t] = l]
                 /\ rc' = rc
              \/ pc' = [pc EXCEPT ![t] = "done"] /\ rc' = [rc EXCEPT ![t] = "timeout"]
<1> DEFINE Moves(l) == pc' = [pc EXCEPT ![t] = l]
<1>0. {"calc", "first", "start", "next", "step", "target", "fail"} = Labels \ {"idle", "done"}
  BY DEF Labels
<1>1. CASE Chain!CalcAlive(t)
  <2>1. pc[t] = "calc" /\ rc' = rc /\ (Moves("fail") \/ Moves("first"))
    BY <1>1 DEF Chain!CalcAlive, Chain!Go
  <2> QED
    BY <1>0, <2>1
<1>2. CASE Chain!SelectFirst(t)
  <2>1. pc[t] = "first" /\ rc' = rc /\ Moves("start")
    BY <1>2 DEF Chain!SelectFirst, Chain!Select, Chain!Go
  <2> QED
    BY <1>0, <2>1
<1>3. CASE Chain!NoFirst(t)
  <2>1. pc[t] = "first" /\ rc' = rc /\ (Moves("fail") \/ pc' = pc)
    BY <1>3 DEF Chain!NoFirst, Chain!Go
  <2>2. pc[t] = "first" /\ rc' = rc /\ (Moves("fail") \/ Moves("first"))
    BY <2>1 DEF ConnectTypes
  <2> QED
    BY <1>0, <2>2
<1>4. CASE Chain!StartChain(t)
  <2>1. pc[t] = "start" /\ rc' = rc /\ (Moves("next") \/ Moves("fail") \/ Moves("first"))
    BY <1>4 DEF Chain!StartChain, Chain!Go
  <2> QED
    BY <1>0, <2>1
<1>5. CASE Chain!SelectNext(t)
  <2>1. pc[t] = "next" /\ rc' = rc /\ Moves("step")
    BY <1>5 DEF Chain!SelectNext, Chain!Select, Chain!Go
  <2> QED
    BY <1>0, <2>1
<1>6. CASE Chain!NoNext(t)
  <2>1. pc[t] = "next" /\ rc' = rc /\ (Moves("fail") \/ Moves("target") \/ pc' = pc)
    BY <1>6 DEF Chain!NoNext, Chain!Go
  <2>2. pc[t] = "next" /\ rc' = rc /\ (Moves("fail") \/ Moves("target") \/ Moves("next"))
    BY <2>1 DEF ConnectTypes
  <2> QED
    BY <1>0, <2>2
<1>7. CASE Chain!Filled(t)
  <2>1. pc[t] = "next" /\ rc' = rc /\ Moves("target")
    BY <1>7 DEF Chain!Filled, Chain!Go
  <2> QED
    BY <1>0, <2>1
<1>8. CASE Chain!ChainStep(t)
  <2>1. pc[t] = "step" /\ rc' = rc /\ (Moves("next") \/ Moves("fail") \/ Moves("calc"))
    BY <1>8 DEF Chain!ChainStep, Chain!Go
  <2> QED
    BY <1>0, <2>1
<1>9. CASE Chain!Fail(t)
  <2>1. pc[t] = "fail" /\ Moves("done") /\ rc' = [rc EXCEPT ![t] = "timeout"]
    BY <1>9 DEF Chain!Fail, Chain!Go
  <2> QED
    BY <1>0, <2>1
<1> QED
  BY <1>1, <1>2, <1>3, <1>4, <1>5, <1>6, <1>7, <1>8, <1>9 DEF Chain!Step

-----------------------------------------------------------------------------
(***************************************************************************)
(* The table only grows, and what it answers is true of it.                *)
(***************************************************************************)
LEMMA AddressesAreKnown ==
    ASSUME DnsInv
    PROVE  /\ \A a \in DOMAIN table : a \in Addresses /\ a # 0 /\ table[a] \in Names
           /\ 0 \in Addresses /\ 0 \notin DOMAIN table
  BY LimitAssumption DEF DnsInv, DnsTypeOK, Fitting, Addresses, LimitAssumption

Grows == \A a \in DOMAIN table : a \in DOMAIN table' /\ table'[a] = table[a]

LEMMA Served ==
    ASSUME DnsInv, Serve, ~ServeAborts
    PROVE  /\ Grows
           /\ UNCHANGED <<at, ask, got>>
           /\ \E c \in Threads, r \in Answers :
                /\ at[c] = "wait" /\ \A d \in Threads \ {c} : at[d] \in {"out", "enter"}
                /\ resp' = <<r>> /\ TrueAnswer(ask[c], r)'
<1>1. req # <<>> /\ UNCHANGED <<at, ask, got>>
  BY DEF Serve, ServeKnown, ServeNew, ServeNone, ServeName, Serving
<1>2. PICK c \in Threads : /\ at[c] = "wait" /\ req = <<ask[c]>> /\ resp = <<>>
                          /\ ask[c] \in Questions
                          /\ \A d \in Threads \ {c} : at[d] \in {"out", "enter"}
  BY <1>1, ServedOne
<1>3. table \in Seq(Names)
  BY DEF DnsInv, DnsTypeOK
<1>4. \E r \in Answers : Reply(r) /\ Grows /\ TrueAnswer(ask[c], r)'
  <2>1. CASE ServeNew
    <3>1. ask[c].type = "getip" /\ ask[c].name \in Names
      BY <1>2, <2>1 DEF ServeNew, Serving, Questions
    <3>2. /\ Grows
          /\ Len(table) + 1 \in DOMAIN table' /\ table'[Len(table) + 1] = ask[c].name
      BY <1>2, <1>3, <2>1, <3>1 DEF ServeNew, Grows
    <3>3. Len(table) + 1 \in Answers
      BY <1>3, <2>1, LimitAssumption DEF ServeNew, Answers, Addresses, LimitAssumption
    <3> QED
      BY <1>1, <2>1, <3>1, <3>2, <3>3 DEF ServeNew, TrueAnswer
  <2>2. CASE ServeKnown
    BY <1>1, <1>2, <2>2, AddressesAreKnown
    DEF ServeKnown, Serving, TrueAnswer, Grows, Answers
  <2>3. CASE ServeNone
    BY <1>1, <1>2, <2>3, AddressesAreKnown
    DEF ServeNone, Serving, TrueAnswer, Grows, Answers
  <2>4. CASE ServeName
    <3>1. ask[c].type = "getname" /\ table' = table
      BY <1>2, <2>4 DEF ServeName, Serving
    <3>2. PICK r : Reply(r) /\ r = IF ask[c].ip \in DOMAIN table THEN table[ask[c].ip] ELSE NoName
      BY <1>2, <2>4 DEF ServeName
    <3>3. r \in Answers
      BY <3>2, AddressesAreKnown DEF Answers
    <3> QED
      BY <1>1, <3>1, <3>2, <3>3 DEF TrueAnswer, Grows
  <2> QED
    BY <2>1, <2>2, <2>3, <2>4 DEF Serve
<1>5. \A r : Reply(r) => resp' = <<r>>
  BY <1>2 DEF Reply
<1> QED
  BY <1>1, <1>2, <1>4, <1>5

LEMMA TableGrows == DnsInv /\ [DnsNext]_dns => Grows
<1> SUFFICES ASSUME DnsInv, [DnsNext]_dns PROVE Grows
  OBVIOUS
<1>1. CASE Serve /\ ~ServeAborts
  BY <1>1, Served
<1>2. CASE table' = table
  BY <1>2 DEF Grows
<1> QED
  BY <1>1, <1>2 DEF DnsNext, dns, ServeAborts, ClientStep, Enter, Acquire, Send, Refuse,
                    SendAborts, Receive, Release, Exits

LEMMA TruthStays ==
    ASSUME DnsInv, Truthful, [DnsNext]_dns
    PROVE  Truthful'
<1>1. Grows
  BY TableGrows
<1> USE DEF Truthful, TrueAnswer
<1>2. ASSUME NEW c \in Threads, NEW q \in Questions, Enter(c, q) PROVE Truthful'
  BY <1>2 DEF Enter, Move, DnsInv, DnsTypeOK
<1>3. ASSUME NEW c \in Threads, ClientStep(c) PROVE Truthful'
  <2>1. CASE Acquire(c)
    BY <2>1 DEF Acquire, Move, DnsInv, DnsTypeOK
  <2>2. CASE Send(c)
    <3>1. resp = <<>>
      BY <2>2, NothingUnderWay DEF Send, Move
    <3> QED
      BY <2>2, <3>1 DEF Send, Move, DnsInv, DnsTypeOK
  <2>3. CASE Refuse(c)
    BY <2>3 DEF Refuse, Move, TooLong, DnsInv, DnsTypeOK
  <2>4. CASE SendAborts(c)
    BY <2>4 DEF SendAborts
  <2>5. CASE Receive(c)
    <3>1. \A d \in Threads \ {c} : at[d] \in {"out", "enter"}
      BY <2>5 DEF Receive, Move, DnsInv, DnsTypeOK, Mutex
    <3> QED
      BY <2>5, <3>1 DEF Receive, Move, DnsInv, DnsTypeOK
  <2>6. CASE Release(c)
    BY <2>6 DEF Release, Move, DnsInv, DnsTypeOK
  <2> QED
    BY <1>3, <2>1, <2>2, <2>3, <2>4, <2>5, <2>6 DEF ClientStep
<1>4. CASE Serve /\ ~ServeAborts
  <2>1. UNCHANGED <<at, ask, got>>
    BY <1>4, Served
  <2>2. PICK c \in Threads, r \in Answers :
            /\ at[c] = "wait" /\ \A d \in Threads \ {c} : at[d] \in {"out", "enter"}
            /\ resp' = <<r>> /\ TrueAnswer(ask[c], r)'
    BY <1>4, Served
  <2>3. Head(resp') = r
    BY <2>2
  <2>4. ASSUME NEW d \in Threads, at[d] = "wait" PROVE TrueAnswer(ask[d], Head(resp))'
    BY <2>1, <2>2, <2>3, <2>4
  <2>5. ASSUME NEW d \in Threads, at[d] = "out" PROVE TrueAnswer(ask[d], got[d])'
    BY <1>1, <2>1, <2>5 DEF Grows
  <2> QED
    BY <2>1, <2>2, <2>4, <2>5
<1>5. CASE ServeAborts \/ (\E p \in Procs : Exits(p)) \/ UNCHANGED dns
  BY <1>5 DEF ServeAborts, Exits, dns
<1> QED
  BY <1>2, <1>3, <1>4, <1>5 DEF DnsNext

-----------------------------------------------------------------------------
(***************************************************************************)
(* Every step is one of the allocator's, or none, except the return of a   *)
(* connect, which gives up the question and answer it held.                *)
(***************************************************************************)
LEMMA DnsSteps ==
    ASSUME DnsInv, ConnectInv, [Next]_vars, \A t \in Threads : ~Return(t)
    PROVE  [DnsNext]_dns
<1>1. ASSUME NEW t \in Threads, NEW n \in Names, Resolve(t, n) PROVE DnsNext
  BY <1>1 DEF Resolve, GetIp, Questions, DnsNext
<1>2. ASSUME NEW t \in Threads, AskName(t) PROVE DnsNext
  BY <1>2 DEF AskName, GetName, Questions, DnsNext, ConnectInv, ConnectTypes
<1>3. ASSUME NEW t \in Threads, NotResolved(t) \/ Connect(t) \/ Reach(t) PROVE UNCHANGED dns
  BY <1>3 DEF NotResolved, Connect, Reach
<1> QED
  BY <1>1, <1>2, <1>3 DEF Next, vars, DnsNext

LEMMA ReturnForgets ==
    ASSUME DnsInv, ConnectInv, NEW t \in Threads, Return(t)
    PROVE  DnsInv' /\ Truthful' /\ UNCHANGED Promised!vars
<1>1. at[t] = "out"
  BY DEF Return, Chain!Return, ConnectInv, Asks
<1>2. /\ ask' = [ask EXCEPT ![t] = GetName(0)] /\ got' = [got EXCEPT ![t] = 0]
      /\ UNCHANGED <<table, lock, req, resp, at, home, gone>>
  BY DEF Return, Chain!Return
<1>3. GetName(0) \in Questions /\ 0 \in Answers
  BY AddressesAreKnown DEF GetName, Questions, Answers
<1>4. DnsInv'
  <2>1. DnsTypeOK' /\ Mutex' /\ Fitting'
    BY <1>2, <1>3 DEF DnsInv, DnsTypeOK, Mutex, Fitting
  <2>2. Messages'
    BY <1>1, <1>2 DEF DnsInv, DnsTypeOK, Messages, UnderWay, TooLong
  <2> QED
    BY <2>1, <2>2 DEF DnsInv
<1>5. Truthful'
  BY <1>1, <1>2 DEF ConnectInv, Truthful, TrueAnswer, DnsInv, DnsTypeOK, GetName
<1>6. \A c \in Threads : Call(c)' = Call(c)
  BY <1>1, <1>2 DEF Call, DnsInv, DnsTypeOK
<1> QED
  BY <1>2, <1>4, <1>5, <1>6 DEF Promised!vars

-----------------------------------------------------------------------------
(***************************************************************************)
(* Every step keeps the invariant.                                         *)
(***************************************************************************)
\* The threads that do not move.
LEMMA OthersStay ==
    ASSUME DnsInv, ConnectInv, NEW u \in Threads, Grows,
           UNCHANGED <<pc[u], at[u], ask[u], wanted[u], dest[u]>>
    PROVE  Asks(u)' /\ Goes(u)'
  BY DEF ConnectInv, Asks, Goes, Grows

Local == ConnectTypes /\ RightName /\ \A t \in Threads : Asks(t) /\ Goes(t)

LEMMA ResolveStep ==
    ASSUME DnsInv, ConnectInv, NEW t \in Threads, NEW n \in Names, Resolve(t, n), Grows
    PROVE  Local'
<1> USE DEF Resolve, Idle, Enter, Move, chain
<1>1. ConnectTypes' /\ RightName'
  BY NamesAssumption DEF ConnectInv, ConnectTypes, RightName, DnsInv, DnsTypeOK
<1>2. Asks(t)' /\ Goes(t)'
  BY NamesAssumption DEF ConnectInv, ConnectTypes, Asks, Goes, DnsInv, DnsTypeOK, NamesAssumption
<1>3. ASSUME NEW u \in Threads \ {t} PROVE Asks(u)' /\ Goes(u)'
  BY OthersStay DEF ConnectInv, ConnectTypes, DnsInv, DnsTypeOK
<1> QED
  BY <1>1, <1>2, <1>3 DEF Local

LEMMA NotResolvedStep ==
    ASSUME DnsInv, ConnectInv, NEW t \in Threads, NotResolved(t), Grows
    PROVE  Local'
<1> USE DEF NotResolved, Idle, dns, chain
<1>1. ConnectTypes' /\ RightName'
  BY DEF ConnectInv, ConnectTypes, RightName
<1>2. Asks(t)' /\ Goes(t)'
  BY DEF ConnectInv, ConnectTypes, Asks, Goes
<1>3. ASSUME NEW u \in Threads \ {t} PROVE Asks(u)' /\ Goes(u)'
  BY OthersStay DEF ConnectInv, ConnectTypes
<1> QED
  BY <1>1, <1>2, <1>3 DEF Local

LEMMA ConnectStep ==
    ASSUME DnsInv, ConnectInv, NEW t \in Threads, Connect(t), Grows
    PROVE  Local'
<1>1. /\ at[t] = "out" /\ pc[t] = "idle" /\ pc' = [pc EXCEPT ![t] = "calc"]
      /\ wanted[t] # NoName => got[t] # 0
      /\ dest' = [dest EXCEPT ![t] = IF wanted[t] = NoName THEN 0 ELSE got[t]]
      /\ UNCHANGED <<rc, wanted, at, ask, got, table>>
  BY DEF Connect, Idle, Chain!Connect, Chain!Go, dns
<1>2. wanted[t] # NoName =>
        ask[t] = GetIp(wanted[t]) /\ got[t] \in DOMAIN table /\ table[got[t]] = wanted[t]
  BY <1>1 DEF ConnectInv, Truthful, TrueAnswer, Asks, GetIp
<1>3. ConnectTypes' /\ RightName'
  BY <1>1, <1>2, AddressesAreKnown DEF ConnectInv, ConnectTypes, RightName, Labels
<1>4. Asks(t)' /\ Goes(t)'
  BY <1>1, <1>2 DEF ConnectInv, ConnectTypes, Asks, Goes
<1>5. ASSUME NEW u \in Threads \ {t} PROVE Asks(u)' /\ Goes(u)'
  BY <1>1, OthersStay DEF ConnectInv, ConnectTypes
<1> QED
  BY <1>3, <1>4, <1>5 DEF Local

LEMMA AskNameStep ==
    ASSUME DnsInv, ConnectInv, NEW t \in Threads, AskName(t), Grows
    PROVE  Local'
<1> USE DEF AskName, Enter, Move, chain
<1>1. ConnectTypes' /\ RightName'
  BY DEF ConnectInv, ConnectTypes, RightName
<1>2. Asks(t)' /\ Goes(t)'
  BY DEF ConnectInv, ConnectTypes, Asks, Goes, DnsInv, DnsTypeOK
<1>3. ASSUME NEW u \in Threads \ {t} PROVE Asks(u)' /\ Goes(u)'
  BY OthersStay DEF ConnectInv, ConnectTypes, DnsInv, DnsTypeOK
<1> QED
  BY <1>1, <1>2, <1>3 DEF Local

LEMMA ReachStep ==
    ASSUME DnsInv, ConnectInv, NEW t \in Threads, Reach(t), Grows
    PROVE  Local'
<1>1. PICK ok \in BOOLEAN :
        /\ pc[t] = "target" /\ pc' = [pc EXCEPT ![t] = "done"]
        /\ rc' = [rc EXCEPT ![t] = IF ok THEN "ok" ELSE "refused"]
        /\ ok => dest[t] = 0 \/ got[t] # NoName
        /\ Known(t)
        /\ UNCHANGED <<wanted, dest, at, ask, got, table>>
  BY DEF Reach, Chain!Target, Chain!Go, dns
<1>2. at[t] = "out"
  BY <1>1 DEF ConnectInv, Asks, Known
<1>3. ok /\ wanted[t] # NoName => got[t] = wanted[t]
  <2> SUFFICES ASSUME ok, wanted[t] # NoName PROVE got[t] = wanted[t]
    OBVIOUS
  <2>1. dest[t] # 0 /\ table[dest[t]] = wanted[t] /\ ask[t] = GetName(dest[t]) /\ got[t] # NoName
    BY <1>1 DEF ConnectInv, Goes, Known, GetIp, GetName
  <2> QED
    BY <1>2, <2>1 DEF ConnectInv, Truthful, TrueAnswer, GetName
<1>4. ConnectTypes' /\ RightName'
  BY <1>1, <1>3 DEF ConnectInv, ConnectTypes, RightName, Labels, Codes
<1>5. Asks(t)' /\ Goes(t)'
  BY <1>1, <1>2 DEF ConnectInv, ConnectTypes, Asks, Goes
<1>6. ASSUME NEW u \in Threads \ {t} PROVE Asks(u)' /\ Goes(u)'
  BY <1>1, OthersStay DEF ConnectInv, ConnectTypes
<1> QED
  BY <1>4, <1>5, <1>6 DEF Local

LEMMA ReturnStep ==
    ASSUME DnsInv, ConnectInv, NEW t \in Threads, Return(t)
    PROVE  Local'
<1>1. /\ pc[t] = "done" /\ pc' = [pc EXCEPT ![t] = "idle"] /\ rc' = [rc EXCEPT ![t] = "none"]
      /\ wanted' = [wanted EXCEPT ![t] = NoName] /\ dest' = [dest EXCEPT ![t] = 0]
      /\ ask' = [ask EXCEPT ![t] = GetName(0)] /\ got' = [got EXCEPT ![t] = 0]
      /\ UNCHANGED <<table, at>>
  BY DEF Return, Chain!Return, Chain!Go
<1>2. ConnectTypes' /\ RightName'
  BY <1>1, AddressesAreKnown
  DEF ConnectInv, ConnectTypes, RightName, Labels, Codes, DnsInv, DnsTypeOK
<1>3. Asks(t)' /\ Goes(t)'
  BY <1>1 DEF ConnectInv, ConnectTypes, Asks, Goes
<1>4. ASSUME NEW u \in Threads \ {t} PROVE Asks(u)' /\ Goes(u)'
  <2>1. Grows
    BY <1>1 DEF Grows
  <2> QED
    BY <1>1, <2>1, OthersStay DEF ConnectInv, ConnectTypes, DnsInv, DnsTypeOK
<1> QED
  BY <1>2, <1>3, <1>4 DEF Local

LEMMA ClientsStep ==
    ASSUME DnsInv, ConnectInv, NEW t \in Threads, ClientStep(t),
           UNCHANGED <<chain, wanted, dest>>, Grows
    PROVE  Local'
<1>1. /\ UNCHANGED <<pc, rc, wanted, dest, ask, table>>
      /\ at[t] # "out"
      /\ \A u \in Threads \ {t} : at'[u] = at[u] /\ got'[u] = got[u]
  BY DEF ClientStep, Acquire, Send, Refuse, SendAborts, Receive, Release, Move, chain,
         DnsInv, DnsTypeOK
<1>2. pc[t] # "done"
  BY <1>1 DEF ConnectInv, Asks
<1>3. ConnectTypes' /\ RightName'
  BY <1>1, <1>2 DEF ConnectInv, ConnectTypes, RightName
<1>4. Asks(t)' /\ Goes(t)'
  BY <1>1 DEF ConnectInv, Asks, Goes
<1>5. ASSUME NEW u \in Threads \ {t} PROVE Asks(u)' /\ Goes(u)'
  BY <1>1, OthersStay
<1> QED
  BY <1>3, <1>4, <1>5 DEF Local

LEMMA ChainsStep ==
    ASSUME DnsInv, ConnectInv, NEW t \in Threads, Chain!Step(t),
           UNCHANGED <<dns, wanted, dest>>, Grows
    PROVE  Local'
<1>1. /\ pc[t] \notin {"idle", "target", "done"}
      /\ \/ /\ \E l \in Labels \ {"idle", "done"} : pc' = [pc EXCEPT ![t] = l]
            /\ rc' = rc
         \/ pc' = [pc EXCEPT ![t] = "done"] /\ rc' = [rc EXCEPT ![t] = "timeout"]
  BY ChainMoves DEF ConnectInv
<1>2. at[t] = "out"
  BY <1>1 DEF ConnectInv, Asks
<1>3. ConnectTypes' /\ RightName'
  BY <1>1 DEF ConnectInv, ConnectTypes, RightName, Labels, Codes, dns
<1>4. Asks(t)' /\ Goes(t)'
  BY <1>1, <1>2 DEF ConnectInv, ConnectTypes, Asks, Goes, dns
<1>5. ASSUME NEW u \in Threads \ {t} PROVE Asks(u)' /\ Goes(u)'
  BY <1>1, OthersStay DEF ConnectInv, ConnectTypes, dns
<1> QED
  BY <1>3, <1>4, <1>5 DEF Local

LEMMA RestStep ==
    ASSUME DnsInv, ConnectInv, UNCHANGED <<pc, rc, wanted, dest, at, ask, got>>, Grows
    PROVE  Local'
<1>1. ConnectTypes' /\ RightName'
  BY DEF ConnectInv, ConnectTypes, RightName
<1> QED
  BY <1>1, OthersStay DEF Local

LEMMA ConnectInvStays == DnsInv /\ ConnectInv /\ [Next]_vars => (DnsInv /\ ConnectInv)'
<1> SUFFICES ASSUME DnsInv, ConnectInv, [Next]_vars PROVE (DnsInv /\ ConnectInv)'
  OBVIOUS
<1>1. ASSUME NEW t \in Threads, Return(t) PROVE (DnsInv /\ ConnectInv)'
  BY <1>1, ReturnForgets, ReturnStep DEF Local, ConnectInv
<1> SUFFICES ASSUME \A t \in Threads : ~Return(t) PROVE (DnsInv /\ ConnectInv)'
  BY <1>1
<1>2. [DnsNext]_dns
  BY DnsSteps
<1>3. DnsInv' /\ Grows /\ Truthful'
  BY <1>2, Step, TableGrows, TruthStays DEF ConnectInv
<1>4. Local'
  <2>1. CASE Serve /\ UNCHANGED <<chain, wanted, dest>>
    <3>1. UNCHANGED <<at, ask, got>>
      BY <2>1 DEF Serve, ServeKnown, ServeNew, ServeNone, ServeName, ServeAborts
    <3> QED
      BY <1>3, <2>1, <3>1, RestStep DEF chain
  <2>2. ASSUME NEW p \in Procs, Exits(p), UNCHANGED <<chain, wanted, dest>> PROVE Local'
    BY <1>3, <2>2, RestStep DEF Exits, chain
  <2>3. CASE UNCHANGED vars
    BY <1>3, <2>3, RestStep DEF vars, dns, chain
  <2> QED
    BY <1>3, <2>1, <2>2, <2>3, ResolveStep, NotResolvedStep, ConnectStep, AskNameStep, ReachStep,
       ClientsStep, ChainsStep DEF Next
<1> QED
  BY <1>3, <1>4 DEF Local, ConnectInv

LEMMA Inductive == Spec => [](DnsInv /\ ConnectInv)
<1>1. Init => DnsInv /\ ConnectInv
  <2> SUFFICES ASSUME Init PROVE DnsInv /\ ConnectInv
    OBVIOUS
  <2>1. DnsInv
    BY Initially DEF Init
  <2>2. ConnectTypes /\ RightName
    BY <2>1, AddressesAreKnown
    DEF Init, Chain!Init, ConnectTypes, Labels, Codes, RightName
  <2>3. Truthful
    BY DEF Init, DnsInit, Truthful, TrueAnswer, GetName
  <2>4. \A t \in Threads : Asks(t) /\ Goes(t)
    BY DEF Init, DnsInit, Chain!Init, Asks, Goes
  <2> QED
    BY <2>1, <2>2, <2>3, <2>4 DEF ConnectInv
<1> QED
  BY <1>1, ConnectInvStays, PTL DEF Spec

-----------------------------------------------------------------------------
(***************************************************************************)
(* What the chain does to its variables.                                   *)
(***************************************************************************)
Walking == {"first", "start", "next", "step"}

Counters(t) ==
    /\ pc[t] \in {"start", "next", "step"} => offset[t] < Chain!Count
    /\ pc[t] \notin {"fail", "done"} => looped[t] <= RRLoopMax

ChainTypes == Chain!TypeOK /\ \A t \in Threads : Counters(t)

LEMMA FileRead ==
    ASSUME conf \in Configs
    PROVE  /\ Chain!Count \in Nat \ {0} /\ conf.max \in Nat \ {0} /\ conf.ct \in Chain!Types
           /\ Chain!Proxies = 0..Chain!Count - 1 /\ 0 \in Chain!Proxies
<1>1. [ct |-> conf.ct, count |-> conf.count, max |-> conf.max]
        \in [ct : Chain!Types, count : Nat \ {0}, max : Nat \ {0}]
  BY ConfigsAssumption DEF ConfigsAssumption, Chain!ConfigType
<1> QED
  BY <1>1 DEF Chain!Count, Chain!Proxies

\* First finds the least of any numbers.
LEMMA FirstIsLeast ==
    ASSUME NEW S \in SUBSET Nat, S # {}
    PROVE  Chain!First(S) \in S /\ \A j \in S : Chain!First(S) <= j
<1> DEFINE Less == {ss \in Nat \X Nat : ss[1] < ss[2]}
<1>1. IsWellFoundedOn(Less, Nat)
  BY NatLessThanWellFounded DEF OpToRel
<1>2. PICK i \in S : \A j \in S : <<j, i>> \notin Less
  <2> HIDE DEF Less
  <2> QED
    BY <1>1, WFMin
<1>3. ASSUME NEW j \in S PROVE i <= j
  <2>1. i \in Nat /\ j \in Nat /\ <<j, i>> \notin Less
    BY <1>2
  <2>2. ~(j < i)
    BY <2>1 DEF Less
  <2> QED
    BY <2>1, <2>2
<1> QED
  BY <1>3 DEF Chain!First

\* The first of the list found by going round, when none from the offset on is in play.
LEMMA Selected ==
    ASSUME ChainTypes, NEW t \in Threads, NEW l, Chain!Select(t, l)
    PROVE  \E i \in Chain!Playing(t), o \in 0..Chain!Count - 1 :
             /\ i \in Chain!Proxies
             /\ cur' = [cur EXCEPT ![t] = i]
             /\ offset' = [offset EXCEPT ![t] = o]
             /\ pc' = [pc EXCEPT ![t] = l]
             /\ conf.ct # "random" =>
                  \/ i = o /\ offset[t] <= o /\ \A j \in Chain!Playing(t) : offset[t] <= j => i <= j
                  \/ i = 0 /\ o = offset[t] /\ \A j \in Chain!Playing(t) : j < offset[t]
<1>1. PICK i \in Chain!Proxies, o \in 0..Chain!Count - 1 :
        /\ IF conf.ct = "random" THEN i \in Chain!Playing(t) /\ o = offset[t]
                                 ELSE Chain!Fifo(t, i, o)
        /\ cur' = [cur EXCEPT ![t] = i]
        /\ offset' = [offset EXCEPT ![t] = o]
        /\ pc' = [pc EXCEPT ![t] = l]
  BY DEF Chain!Select, Chain!Go
<1>2. CASE conf.ct = "random"
  BY <1>1, <1>2
<1>3. CASE conf.ct # "random" /\ Chain!FromOffset(t) # {}
  <2>1. Chain!FromOffset(t) \in SUBSET Nat /\ offset[t] \in Nat
    BY FileRead DEF Chain!FromOffset, Chain!Playing, ChainTypes, Chain!TypeOK
  <2>2. i = Chain!First(Chain!FromOffset(t)) /\ o = i
    BY <1>1, <1>3 DEF Chain!Fifo
  <2>3. i \in Chain!FromOffset(t) /\ \A j \in Chain!FromOffset(t) : i <= j
    BY <1>3, <2>1, <2>2, FirstIsLeast
  <2> QED
    BY <1>1, <1>3, <2>1, <2>2, <2>3 DEF Chain!FromOffset
<1>4. CASE conf.ct # "random" /\ Chain!FromOffset(t) = {}
  <2>1. i = 0 /\ o = offset[t] /\ Chain!State(t)[0] = "play"
    BY <1>1, <1>4 DEF Chain!Fifo
  <2>2. i \in Chain!Playing(t)
    BY <2>1, <1>1 DEF Chain!Playing
  <2>3. \A j \in Chain!Playing(t) : j < offset[t]
    <3>1. \A j \in Chain!Playing(t) : j \in Nat /\ ~(j >= offset[t])
      BY <1>4, FileRead DEF Chain!FromOffset, Chain!Playing, ChainTypes, Chain!TypeOK
    <3>2. offset[t] \in Nat
      BY FileRead DEF ChainTypes, Chain!TypeOK
    <3> QED
      BY <3>1, <3>2
  <2> QED
    BY <1>1, <2>1, <2>2, <2>3
<1> QED
  BY <1>2, <1>3, <1>4

\* What stays as it is for the threads that do not move, and for the other process.
Elsewhere(t) ==
    /\ conf' = conf /\ home' = home
    /\ \A u \in Threads \ {t} :
        UNCHANGED <<pc[u], offset[u], cur[u], hops[u], looped[u], alone[u]>>
    /\ \A p \in Procs \ {home[t]} : ps'[p] = ps[p] /\ rr'[p] = rr[p]

LEMMA StepElsewhere ==
    ASSUME ChainTypes, NEW t \in Threads, Chain!Step(t)
    PROVE  Elsewhere(t) /\ alone' = alone /\ pc[t] # "idle"
<1> USE DEF Elsewhere, ChainTypes, Chain!TypeOK, Chain!Procs, Procs, Chain!Go, Chain!Mark, Chain!lists,
            Chain!walk
<1>1. CASE Chain!CalcAlive(t)
  BY <1>1 DEF Chain!CalcAlive
<1>2. CASE Chain!SelectFirst(t) \/ Chain!SelectNext(t)
  BY <1>2, Selected DEF Chain!SelectFirst, Chain!SelectNext
<1>3. CASE Chain!NoFirst(t)
  BY <1>3 DEF Chain!NoFirst
<1>4. CASE Chain!StartChain(t)
  BY <1>4 DEF Chain!StartChain
<1>5. CASE Chain!NoNext(t)
  BY <1>5 DEF Chain!NoNext
<1>6. CASE Chain!Filled(t)
  BY <1>6 DEF Chain!Filled
<1>7. CASE Chain!ChainStep(t)
  BY <1>7 DEF Chain!ChainStep
<1>8. CASE Chain!Fail(t)
  BY <1>8 DEF Chain!Fail
<1> QED
  BY <1>1, <1>2, <1>3, <1>4, <1>5, <1>6, <1>7, <1>8 DEF Chain!Step

-----------------------------------------------------------------------------
(***************************************************************************)
(* Types.                                                                  *)
(***************************************************************************)
LEMMA ReleasedTypes ==
    ASSUME ChainTypes, NEW t \in Threads
    PROVE  /\ Chain!Released(t) \in [Chain!Proxies -> Chain!States]
           /\ \A i \in Chain!Proxies :
                Chain!Released(t)[i] = IF Chain!State(t)[i] = "busy" THEN "play" ELSE Chain!State(t)[i]
  BY DEF ChainTypes, Chain!TypeOK, Chain!Released, Chain!State, Chain!States

\* An action gives the variables of its thread, and the offset of its process, new values.
Changes(t, l, o, c, h, n, r) ==
    /\ pc' = [pc EXCEPT ![t] = l]
    /\ offset' = [offset EXCEPT ![t] = o]
    /\ cur' = [cur EXCEPT ![t] = c]
    /\ hops' = [hops EXCEPT ![t] = h]
    /\ looped' = [looped EXCEPT ![t] = n]
    /\ rr' = [rr EXCEPT ![home[t]] = r]

PsType == [Chain!Procs -> [Chain!Proxies -> Chain!States]]
AllPlay == [i \in Chain!Proxies |-> "play"]

LEMMA ChangedTypes ==
    ASSUME ChainTypes, NEW t \in Threads,
           NEW l \in Labels, NEW o \in 0..Chain!Count, NEW c \in Chain!Proxies,
           NEW h \in Seq(Chain!Proxies), NEW n \in 0..RRLoopMax + 1, NEW r \in 0..Chain!Count,
           Changes(t, l, o, c, h, n, r),
           l \in {"start", "next", "step"} => o < Chain!Count,
           l \notin {"fail", "done"} => n <= RRLoopMax,
           conf' = conf, home' = home, ps' \in PsType,
           rc' \in [Threads -> {"none", "ok", "refused", "timeout"}],
           alone' \in [Threads -> BOOLEAN]
    PROVE  ChainTypes'
<1>1. Chain!Proxies' = Chain!Proxies /\ Chain!Count' = Chain!Count
  BY DEF Chain!Proxies, Chain!Count
<1>2. Chain!TypeOK'
  <2>1. /\ pc' \in [Threads -> Labels] /\ offset' \in [Threads -> 0..Chain!Count]
        /\ cur' \in [Threads -> Chain!Proxies] /\ hops' \in [Threads -> Seq(Chain!Proxies)]
    BY DEF ChainTypes, Chain!TypeOK, Changes, Labels
  <2>2. /\ looped' \in [Threads -> 0..RRLoopMax + 1]
        /\ rr' \in [Chain!Procs -> 0..Chain!Count]
    BY DEF ChainTypes, Chain!TypeOK, Changes
  <2> QED
    BY <1>1, <2>1, <2>2 DEF ChainTypes, Chain!TypeOK, Labels, PsType
<1>3. ASSUME NEW u \in Threads PROVE Counters(u)'
  <2>1. CASE u = t
    BY <1>1, <2>1 DEF ChainTypes, Chain!TypeOK, Changes, Counters
  <2>2. CASE u # t
    <3>1. UNCHANGED <<pc[u], offset[u], looped[u]>> /\ Counters(u)
      BY <2>2 DEF ChainTypes, Chain!TypeOK, Changes
    <3> QED
      BY <1>1, <3>1 DEF Counters
  <2> QED
    BY <2>1, <2>2
<1> QED
  BY <1>2, <1>3 DEF ChainTypes

LEMMA StepTypes ==
    ASSUME ChainTypes, NEW t \in Threads, Chain!Step(t)
    PROVE  ChainTypes'
<1> USE DEF Chain!Go, Chain!Mark, Chain!lists, Chain!walk
<1>1. conf' = conf /\ home' = home /\ alone' = alone
  BY StepElsewhere DEF Elsewhere
<1>2. home[t] \in Chain!Procs /\ cur[t] \in Chain!Proxies /\ hops[t] \in Seq(Chain!Proxies)
  BY DEF ChainTypes, Chain!TypeOK
<1>3. Chain!Count \in Nat \ {0} /\ RRLoopMax \in Nat
  BY FileRead, BoundsAssumption DEF BoundsAssumption, ChainTypes, Chain!TypeOK
<1>4. /\ ps \in PsType /\ rr[home[t]] \in 0..Chain!Count
      /\ rc \in [Threads -> {"none", "ok", "refused", "timeout"}] /\ alone \in [Threads -> BOOLEAN]
  BY DEF ChainTypes, Chain!TypeOK, PsType
<1>5. offset[t] \in 0..Chain!Count /\ looped[t] \in 0..RRLoopMax + 1
  BY DEF ChainTypes, Chain!TypeOK
<1>6. /\ pc[t] \in {"start", "next", "step"} => offset[t] < Chain!Count
      /\ pc[t] \notin {"fail", "done"} => looped[t] <= RRLoopMax
  BY DEF ChainTypes, Counters
<1>7. /\ pc = [pc EXCEPT ![t] = pc[t]] /\ offset = [offset EXCEPT ![t] = offset[t]]
      /\ cur = [cur EXCEPT ![t] = cur[t]] /\ hops = [hops EXCEPT ![t] = hops[t]]
      /\ looped = [looped EXCEPT ![t] = looped[t]] /\ rr = [rr EXCEPT ![home[t]] = rr[home[t]]]
  BY DEF ChainTypes, Chain!TypeOK
<1>8. /\ \A s \in Chain!States : [ps EXCEPT ![home[t]][cur[t]] = s] \in PsType
      /\ [ps EXCEPT ![home[t]] = AllPlay] \in PsType
  BY <1>2, <1>4 DEF Chain!States, PsType, AllPlay
\* One of the new values, under the conditions of ChangedTypes.
<1> DEFINE Fits(l, o, c, h, n, r) ==
             /\ l \in Labels /\ o \in 0..Chain!Count /\ c \in Chain!Proxies
             /\ h \in Seq(Chain!Proxies) /\ n \in 0..RRLoopMax + 1 /\ r \in 0..Chain!Count
             /\ Changes(t, l, o, c, h, n, r)
             /\ l \in {"start", "next", "step"} => o < Chain!Count
             /\ l \notin {"fail", "done"} => n <= RRLoopMax
<1>9. ASSUME NEW l, NEW o, NEW c, NEW h, NEW n, NEW r, Fits(l, o, c, h, n, r), ps' \in PsType, rc' = rc
      PROVE  ChainTypes'
  BY <1>1, <1>4, <1>9, ChangedTypes
<1>10. CASE Chain!CalcAlive(t)
  <2>1. ps' \in PsType
    BY <1>2, <1>4, <1>10, ReleasedTypes DEF Chain!CalcAlive, PsType
  <2>2. PICK l \in {"fail", "first"}, o \in {0, rr[home[t]]} :
          pc' = [pc EXCEPT ![t] = l] /\ offset' = [offset EXCEPT ![t] = o]
    BY <1>10 DEF Chain!CalcAlive
  <2>3. /\ pc[t] = "calc" /\ hops' = [hops EXCEPT ![t] = <<>>]
        /\ UNCHANGED <<rr, cur, looped, rc>>
    BY <1>10 DEF Chain!CalcAlive
  <2>4. Fits(l, o, cur[t], <<>>, looped[t], rr[home[t]])
    BY <1>2, <1>3, <1>4, <1>5, <1>6, <1>7, <2>2, <2>3 DEF Changes, Labels
  <2> QED
    BY <1>9, <2>1, <2>3, <2>4
<1>11. CASE Chain!SelectFirst(t) \/ Chain!SelectNext(t)
  <2>1. PICK l \in {"start", "step"} : Chain!Select(t, l)
    BY <1>11 DEF Chain!SelectFirst, Chain!SelectNext
  <2>2. pc[t] \in {"first", "next"} /\ UNCHANGED <<ps, rr, hops, looped, rc>>
    BY <1>11 DEF Chain!SelectFirst, Chain!SelectNext
  <2>3. PICK i \in Chain!Proxies, o \in 0..Chain!Count - 1 :
          /\ cur' = [cur EXCEPT ![t] = i] /\ offset' = [offset EXCEPT ![t] = o]
          /\ pc' = [pc EXCEPT ![t] = l]
    BY <2>1, Selected
  <2>4. Fits(l, o, i, hops[t], looped[t], rr[home[t]])
    BY <1>2, <1>3, <1>4, <1>5, <1>6, <1>7, <2>2, <2>3 DEF Changes, Labels
  <2> QED
    BY <1>4, <1>9, <2>2, <2>4
<1>12. CASE Chain!NoFirst(t)
  <2>1. ps' \in PsType /\ rc' = rc
    BY <1>4, <1>8, <1>12 DEF Chain!NoFirst, AllPlay
  <2>2. CASE conf.ct # "round_robin"
    <3>1. Fits("fail", offset[t], cur[t], hops[t], looped[t], rr[home[t]])
      BY <1>2, <1>4, <1>5, <1>7, <1>12, <2>2 DEF Chain!NoFirst, Changes, Labels
    <3> QED
      BY <1>9, <2>1, <3>1
  <2>3. CASE conf.ct = "round_robin" /\ looped[t] + 1 > RRLoopMax
    <3>1. Fits("fail", 0, cur[t], hops[t], looped[t] + 1, 0)
      BY <1>2, <1>3, <1>4, <1>5, <1>6, <1>7, <1>12, <2>3 DEF Chain!NoFirst, Changes, Labels
    <3> QED
      BY <1>9, <2>1, <3>1
  <2>4. CASE conf.ct = "round_robin" /\ ~(looped[t] + 1 > RRLoopMax)
    <3>1. Fits("first", 0, cur[t], hops[t], looped[t] + 1, rr[home[t]])
      BY <1>2, <1>3, <1>4, <1>5, <1>6, <1>7, <1>12, <2>4 DEF Chain!NoFirst, Changes, Labels
    <3> QED
      BY <1>9, <2>1, <3>1
  <2> QED
    BY <2>2, <2>3, <2>4
<1>13. CASE Chain!StartChain(t)
  <2>1. ps' \in PsType
    BY <1>4, <1>8, <1>13 DEF Chain!StartChain, Chain!States
  <2>2. PICK l \in {"next", "fail", "first"}, h \in {hops[t], <<cur[t]>>} :
          pc' = [pc EXCEPT ![t] = l] /\ hops' = [hops EXCEPT ![t] = h]
    BY <1>7, <1>13 DEF Chain!StartChain
  <2>3. pc[t] = "start" /\ UNCHANGED <<rr, offset, cur, looped, rc>>
    BY <1>13 DEF Chain!StartChain
  <2>4. h \in Seq(Chain!Proxies)
    <3>1. <<cur[t]>> \in Seq(Chain!Proxies)
      BY <1>2
    <3> QED
      BY <1>2, <2>2, <3>1
  <2>5. Fits(l, offset[t], cur[t], h, looped[t], rr[home[t]])
    BY <1>2, <1>3, <1>4, <1>5, <1>6, <1>7, <2>2, <2>3, <2>4 DEF Changes, Labels
  <2> QED
    BY <1>9, <2>1, <2>3, <2>5
<1>14. CASE Chain!NoNext(t)
  <2>1. pc[t] = "next" /\ UNCHANGED <<ps, rr, cur, hops, looped, rc>>
    BY <1>14 DEF Chain!NoNext
  <2>2. PICK l \in {"next", "fail", "target"}, o \in {0, offset[t]} :
          pc' = [pc EXCEPT ![t] = l] /\ offset' = [offset EXCEPT ![t] = o]
    BY <1>7, <1>14, <2>1 DEF Chain!NoNext
  <2>3. Fits(l, o, cur[t], hops[t], looped[t], rr[home[t]])
    BY <1>2, <1>3, <1>4, <1>5, <1>6, <1>7, <2>1, <2>2 DEF Changes, Labels
  <2> QED
    BY <1>4, <1>9, <2>1, <2>3
<1>15. CASE Chain!Filled(t)
  <2>1. pc[t] = "next" /\ pc' = [pc EXCEPT ![t] = "target"]
        /\ UNCHANGED <<ps, offset, cur, hops, looped, rc>>
    BY <1>15 DEF Chain!Filled
  <2>2. PICK r \in {offset[t] + 1, rr[home[t]]} : rr' = [rr EXCEPT ![home[t]] = r]
    BY <1>7, <1>15 DEF Chain!Filled
  <2>3. Fits("target", offset[t], cur[t], hops[t], looped[t], r)
    BY <1>2, <1>3, <1>4, <1>5, <1>6, <1>7, <2>1, <2>2 DEF Changes, Labels
  <2> QED
    BY <1>4, <1>9, <2>1, <2>3
<1>16. CASE Chain!ChainStep(t)
  <2>1. ps' \in PsType
    BY <1>4, <1>8, <1>16 DEF Chain!ChainStep, Chain!States
  <2>2. PICK l \in {"next", "fail", "calc"}, h \in {hops[t], Append(hops[t], cur[t])} :
          pc' = [pc EXCEPT ![t] = l] /\ hops' = [hops EXCEPT ![t] = h]
    BY <1>7, <1>16 DEF Chain!ChainStep
  <2>3. h \in Seq(Chain!Proxies)
    BY <1>2, <2>2
  <2>4. Fits(l, offset[t], cur[t], h, looped[t], rr[home[t]])
    BY <1>2, <1>3, <1>4, <1>5, <1>6, <1>7, <1>16, <2>2, <2>3 DEF Chain!ChainStep, Changes, Labels
  <2> QED
    BY <1>9, <1>16, <2>1, <2>4 DEF Chain!ChainStep
<1>17. CASE Chain!Fail(t)
  <2>1. /\ ps' \in PsType
        /\ rc' \in [Threads -> {"none", "ok", "refused", "timeout"}]
    BY <1>4, <1>8, <1>17 DEF Chain!Fail, AllPlay
  <2>2. Fits("done", offset[t], cur[t], hops[t], looped[t], rr[home[t]])
    BY <1>2, <1>3, <1>4, <1>5, <1>7, <1>17 DEF Chain!Fail, Changes, Labels
  <2> QED
    BY <1>1, <1>4, <2>1, <2>2, ChangedTypes
<1> QED
  BY <1>10, <1>11, <1>12, <1>13, <1>14, <1>15, <1>16, <1>17 DEF Chain!Step

LEMMA EndTypes ==
    ASSUME ChainTypes, NEW t \in Threads, Chain!Connect(t) \/ Chain!Return(t)
                                          \/ \E ok \in BOOLEAN : Chain!Target(t, ok)
    PROVE  ChainTypes' /\ conf' = conf /\ home' = home
<1> USE DEF Chain!Go, Chain!lists, Chain!walk
<1>1. conf' = conf /\ home' = home /\ UNCHANGED <<ps, rr>>
  BY DEF Chain!Connect, Chain!Return, Chain!Target
<1>2. /\ ps \in PsType /\ rr[home[t]] \in 0..Chain!Count /\ cur[t] \in Chain!Proxies
      /\ hops[t] \in Seq(Chain!Proxies)
      /\ rc \in [Threads -> {"none", "ok", "refused", "timeout"}] /\ alone \in [Threads -> BOOLEAN]
      /\ offset[t] \in 0..Chain!Count /\ looped[t] \in 0..RRLoopMax + 1
      /\ Counters(t)
  BY DEF ChainTypes, Chain!TypeOK, PsType
<1>3. 0 \in 0..Chain!Count /\ 0 \in 0..RRLoopMax + 1 /\ 0 \in Chain!Proxies /\ 0 <= RRLoopMax
  BY FileRead, BoundsAssumption DEF BoundsAssumption, ChainTypes, Chain!TypeOK
<1>4. /\ offset = [offset EXCEPT ![t] = offset[t]]
      /\ cur = [cur EXCEPT ![t] = cur[t]] /\ hops = [hops EXCEPT ![t] = hops[t]]
      /\ looped = [looped EXCEPT ![t] = looped[t]] /\ rr = [rr EXCEPT ![home[t]] = rr[home[t]]]
  BY DEF ChainTypes, Chain!TypeOK
<1>5. CASE Chain!Connect(t)
  <2>1. alone' \in [Threads -> BOOLEAN]
    BY <1>5 DEF Chain!Connect
  <2>2. pc[t] = "idle" /\ pc' = [pc EXCEPT ![t] = "calc"]
        /\ UNCHANGED <<offset, cur, hops, looped, rc>>
    BY <1>5 DEF Chain!Connect
  <2>3. Changes(t, "calc", offset[t], cur[t], hops[t], looped[t], rr[home[t]])
    BY <1>1, <1>4, <2>2 DEF Changes
  <2> QED
    BY <1>1, <1>2, <2>1, <2>2, <2>3, ChangedTypes DEF Labels, Counters
<1>6. CASE Chain!Return(t)
  <2>1. Changes(t, "idle", 0, 0, <<>>, 0, rr[home[t]])
    BY <1>1, <1>4, <1>6 DEF Chain!Return, Changes
  <2>2. /\ rc' \in [Threads -> {"none", "ok", "refused", "timeout"}]
        /\ alone' \in [Threads -> BOOLEAN]
    BY <1>2, <1>6 DEF Chain!Return
  <2>3. "idle" \in Labels /\ <<>> \in Seq(Chain!Proxies)
    BY DEF Labels
  <2> QED
    BY <1>1, <1>2, <1>3, <2>1, <2>2, <2>3, ChangedTypes
<1>7. CASE \E ok \in BOOLEAN : Chain!Target(t, ok)
  <2>1. pc[t] = "target" /\ pc' = [pc EXCEPT ![t] = "done"]
        /\ UNCHANGED <<offset, cur, hops, looped, alone>>
    BY <1>7 DEF Chain!Target
  <2>2. rc' \in [Threads -> {"none", "ok", "refused", "timeout"}]
    BY <1>2, <1>7 DEF Chain!Target
  <2>3. Changes(t, "done", offset[t], cur[t], hops[t], looped[t], rr[home[t]])
    BY <1>1, <1>4, <2>1 DEF Changes
  <2> QED
    BY <1>1, <1>2, <2>1, <2>2, <2>3, ChangedTypes DEF Labels
<1> QED
  BY <1>1, <1>5, <1>6, <1>7

\* Every step of the whole is one of the chain, or none of its business.
LEMMA ChainSteps ==
    ASSUME [Next]_vars
    PROVE  \/ \E t \in Threads : Chain!Step(t) \/ Chain!Connect(t) \/ Chain!Return(t)
                                 \/ \E ok \in BOOLEAN : Chain!Target(t, ok)
           \/ UNCHANGED <<home, chain>>
<1>1. ASSUME NEW t \in Threads, ClientStep(t) PROVE home' = home
  BY <1>1 DEF ClientStep, Acquire, Send, Refuse, SendAborts, Receive, Release
<1>2. ASSUME Serve \/ \E p \in Procs : Exits(p) PROVE home' = home
  BY <1>2 DEF Serve, ServeKnown, ServeNew, ServeNone, ServeName, ServeAborts, Exits
<1>3. ASSUME NEW t \in Threads, (\E n \in Names : Resolve(t, n)) \/ NotResolved(t) \/ AskName(t)
      PROVE  UNCHANGED <<home, chain>>
  BY <1>3 DEF Resolve, NotResolved, AskName, Enter, dns
<1> QED
  BY <1>1, <1>2, <1>3 DEF Next, vars, dns, Connect, Reach, Return

LEMMA TypesStay == ChainTypes /\ [Next]_vars => ChainTypes'
<1> SUFFICES ASSUME ChainTypes, [Next]_vars PROVE ChainTypes'
  OBVIOUS
<1>1. CASE UNCHANGED <<home, chain>>
  BY <1>1 DEF chain, ChainTypes, Chain!TypeOK, Counters, Chain!Proxies, Chain!Count
<1> QED
  BY <1>1, ChainSteps, StepTypes, EndTypes

-----------------------------------------------------------------------------
(***************************************************************************)
(* Lone chains.                                                            *)
(***************************************************************************)
\* A strict chain that met a proxy that is down gives up, and puts all in play again.
StrictMends ==
    conf.ct = "strict" =>
        \A p \in Procs : \/ \E t \in Threads : home[t] = p /\ pc[t] = "fail"
                         \/ \A i \in Chain!Proxies : ps[p][i] \in {"play", "busy"}

Sole(t) == pc[t] # "idle" /\ \A u \in Threads \ {t} : home[u] = home[t] => pc[u] = "idle"

InHops(t, i) == \E j \in DOMAIN hops[t] : hops[t][j] = i

HopsAreBusy(t) ==
    /\ pc[t] \in {"first", "start"} => hops[t] = <<>>
    /\ pc[t] \in Walking =>
        \A i \in Chain!Proxies : Chain!State(t)[i] = "busy" <=> InHops(t, i)
    /\ pc[t] \in {"start", "step"} => cur[t] \in Chain!Playing(t)
    /\ pc[t] \in {"next", "step", "target"} =>
        \A i, j \in DOMAIN hops[t] : i < j => hops[t][i] # hops[t][j]

\* Dynamic and strict chains go forward in the list.
InOrder(t) ==
    /\ pc[t] \in Walking => \A i \in Chain!Playing(t) : offset[t] <= i
    /\ pc[t] \in {"start", "step"} => cur[t] = offset[t]
    /\ pc[t] \in {"next", "step"} => \A j \in DOMAIN hops[t] : hops[t][j] <= offset[t]
    /\ pc[t] \in {"next", "step", "target"} =>
        \A i, j \in DOMAIN hops[t] : i < j => hops[t][i] < hops[t][j]

\* A strict chain leaves no proxy out.
Gapless(t) ==
    /\ pc[t] \in {"next", "step", "target"} => \A j \in DOMAIN hops[t] : hops[t][j] = j - 1
    /\ pc[t] = "start" => cur[t] = 0
    /\ pc[t] = "step" => cur[t] = Len(hops[t])
    /\ pc[t] = "target" => Len(hops[t]) = Chain!Count

\* A round robin chain goes round the list from some place on: no proxy in play lies between
\* that place and the offset, or the proxy it selected.
OnTheWay(t, a) ==
    /\ Chain!InTurn(t, a)
    /\ \A i \in Chain!Playing(t) : Chain!Ahead(a, offset[t]) <= Chain!Ahead(a, i)
    /\ pc[t] \in {"start", "step"} =>
        \A i \in Chain!Playing(t) : Chain!Ahead(a, cur[t]) <= Chain!Ahead(a, i)

GoesRound(t) ==
    /\ pc[t] \in Walking => \E a \in Chain!Starts(t) : OnTheWay(t, a)
    /\ pc[t] = "next" => Len(hops[t]) <= conf.max
    /\ pc[t] = "step" => Len(hops[t]) < conf.max
    /\ pc[t] = "target" => Len(hops[t]) = conf.max

Own(t) ==
    /\ HopsAreBusy(t)
    /\ conf.ct \in {"dynamic", "strict"} => InOrder(t)
    /\ conf.ct = "strict" => Gapless(t)
    /\ conf.ct = "round_robin" => GoesRound(t)

LoneInv == \A t \in Threads : alone[t] => Sole(t) /\ Own(t)

ChainInv == ChainTypes /\ StrictMends /\ LoneInv

-----------------------------------------------------------------------------
\* Nothing is down where a strict chain is alone.
LEMMA NoneDown ==
    ASSUME ChainInv, NEW t \in Threads, Sole(t), pc[t] # "fail", conf.ct = "strict"
    PROVE  \A i \in Chain!Proxies : Chain!State(t)[i] \in {"play", "busy"}
<1>1. home[t] \in Procs
  BY DEF ChainInv, ChainTypes, Chain!TypeOK, Chain!Procs, Procs
<1>2. \A u \in Threads : home[u] = home[t] => pc[u] # "fail"
  BY DEF Sole
<1> QED
  BY <1>1, <1>2 DEF ChainInv, StrictMends, Chain!State

LEMMA CalcAliveOwn ==
    ASSUME ChainInv, NEW t \in Threads, Chain!CalcAlive(t)
    PROVE  Own(t)'
<1>1. /\ pc'[t] \in {"fail", "first"} /\ hops'[t] = <<>> /\ conf' = conf /\ home' = home
      /\ conf.ct # "round_robin" => offset'[t] = 0
      /\ ps' = [ps EXCEPT ![home[t]] = Chain!Released(t)]
  BY DEF Chain!CalcAlive, Chain!Go, ChainInv, ChainTypes, Chain!TypeOK
<1>2. Chain!State(t)' = Chain!Released(t) /\ Chain!Proxies' = Chain!Proxies
  BY <1>1 DEF Chain!State, ChainInv, ChainTypes, Chain!TypeOK, Chain!Proxies, Chain!Count
<1>3. \A i \in Chain!Proxies : Chain!State(t)'[i] # "busy"
  BY <1>2, ReleasedTypes DEF ChainInv
<1>4. HopsAreBusy(t)'
  BY <1>1, <1>2, <1>3 DEF HopsAreBusy, InHops
<1>5. conf.ct # "round_robin" => InOrder(t)'
  BY <1>1, <1>2, FileRead DEF InOrder, Chain!Playing, ChainInv, ChainTypes, Chain!TypeOK
<1>6. ASSUME conf.ct = "round_robin" PROVE GoesRound(t)'
  <2>1. PICK a : a = rr[home[t]]
    OBVIOUS
  <2>2. rr' = rr /\ offset'[t] = a /\ home[t] \in Procs
    BY <1>6, <2>1 DEF Chain!CalcAlive, ChainInv, ChainTypes, Chain!TypeOK, Chain!Procs, Procs
  <2>3. a \in Chain!Starts(t)'
    BY <1>1, <2>1, <2>2 DEF Chain!Starts
  <2>4. a \in 0..Chain!Count' /\ Chain!Count' \in Nat /\ \A i \in Chain!Playing(t)' : i \in 0..Chain!Count' - 1
    BY <1>1, <2>1, <2>2, FileRead
    DEF ChainInv, ChainTypes, Chain!TypeOK, Chain!Playing, Chain!Proxies, Chain!Count, Chain!Procs, Procs
  <2>5. OnTheWay(t, a)'
    BY <1>1, <2>2, <2>4 DEF OnTheWay, Chain!InTurn, Chain!Ahead
  <2> QED
    BY <1>1, <2>3, <2>5 DEF GoesRound
<1> QED
  BY <1>1, <1>4, <1>5, <1>6 DEF Own, Gapless

\* What select_proxy takes is the next one round the list.
LEMMA NextRound ==
    ASSUME NEW n \in Nat \ {0}, NEW a \in 0..n, NEW S \in SUBSET (0..n - 1), NEW f \in 0..n,
           NEW i \in S, NEW o \in 0..n - 1, Chain!Count = n,
           \A j \in S : Chain!Ahead(a, f) <= Chain!Ahead(a, j),
           \/ i = o /\ f <= o /\ \A j \in S : f <= j => i <= j
           \/ i = 0 /\ o = f /\ \A j \in S : j < f,
           NEW j \in S
    PROVE  Chain!Ahead(a, i) <= Chain!Ahead(a, j) /\ Chain!Ahead(a, o) <= Chain!Ahead(a, j)
<1>1. Chain!Ahead(a, f) <= Chain!Ahead(a, j) /\ Chain!Ahead(a, f) <= Chain!Ahead(a, i)
  OBVIOUS
<1>2. i \in 0..n - 1 /\ j \in 0..n - 1
  OBVIOUS
<1>3. CASE i = o /\ f <= o /\ (f <= j => i <= j)
  BY <1>1, <1>2, <1>3 DEF Chain!Ahead
<1>4. CASE i = 0 /\ o = f /\ j < f /\ i < f
  BY <1>1, <1>2, <1>4 DEF Chain!Ahead
<1> QED
  BY <1>3, <1>4

\* Where nothing is in play from the offset on, the start of the list is next.
LEMMA BackToStart ==
    ASSUME NEW n \in Nat \ {0}, NEW a \in 0..n, NEW f \in 0..n, NEW j \in 0..n - 1, j < f,
           Chain!Count = n, Chain!Ahead(a, f) <= Chain!Ahead(a, j)
    PROVE  Chain!Ahead(a, 0) <= Chain!Ahead(a, j)
BY DEF Chain!Ahead

LEMMA StartsAreInList ==
    ASSUME ChainTypes, NEW t \in Threads
    PROVE  Chain!Starts(t) \subseteq 0..Chain!Count
BY FileRead DEF Chain!Starts, ChainTypes, Chain!TypeOK

\* Either selection, once what it needs of the hops holds.
LEMMA SelectOwn ==
    ASSUME ChainInv, NEW t \in Threads, Sole(t), Own(t),
           Chain!SelectFirst(t) \/ (Chain!SelectNext(t) /\ (conf.ct = "round_robin" => ~Chain!Full(t)))
    PROVE  Own(t)'
<1>1. PICK l \in {"start", "step"} :
        /\ Chain!Select(t, l)
        /\ l = "start" <=> pc[t] = "first"
        /\ pc[t] \in {"first", "next"}
        /\ UNCHANGED <<home, conf, ps, rr, hops>>
  BY DEF Chain!SelectFirst, Chain!SelectNext, Chain!lists
<1>2. ChainTypes
  BY DEF ChainInv
<1>3. PICK i \in Chain!Playing(t), o \in 0..Chain!Count - 1 :
        /\ i \in Chain!Proxies
        /\ cur' = [cur EXCEPT ![t] = i]
        /\ offset' = [offset EXCEPT ![t] = o]
        /\ pc' = [pc EXCEPT ![t] = l]
        /\ conf.ct # "random" =>
             \/ i = o /\ offset[t] <= o /\ \A j \in Chain!Playing(t) : offset[t] <= j => i <= j
             \/ i = 0 /\ o = offset[t] /\ \A j \in Chain!Playing(t) : j < offset[t]
  BY <1>1, <1>2, Selected
<1>4. cur'[t] = i /\ offset'[t] = o /\ pc'[t] = l
  BY <1>2, <1>3 DEF ChainTypes, Chain!TypeOK
<1>5. /\ Chain!State(t)' = Chain!State(t) /\ Chain!Proxies' = Chain!Proxies
      /\ Chain!Playing(t)' = Chain!Playing(t)
      /\ \A x : InHops(t, x)' = InHops(t, x)
      /\ Chain!Full(t)' = Chain!Full(t)
  BY <1>1 DEF Chain!State, Chain!Playing, Chain!Proxies, Chain!Count, InHops, Chain!Full
<1>6. /\ Chain!Count \in Nat \ {0} /\ Chain!Proxies = 0..Chain!Count - 1
      /\ offset[t] \in 0..Chain!Count /\ i \in Nat /\ o \in Nat
      /\ \A j \in Chain!Playing(t) : j \in Chain!Proxies /\ j \in Nat
      /\ hops[t] \in Seq(Chain!Proxies)
  BY <1>2, <1>3, FileRead DEF ChainTypes, Chain!TypeOK, Chain!Playing
<1>7. HopsAreBusy(t)'
  BY <1>1, <1>3, <1>4, <1>5 DEF Own, HopsAreBusy, Walking
<1>8. conf.ct \in {"dynamic", "strict"} =>
        i = o /\ offset[t] <= o /\ \A j \in Chain!Playing(t) : i <= j
  BY <1>1, <1>3, <1>6 DEF Own, InOrder, Walking
<1>9. conf.ct \in {"dynamic", "strict"} => InOrder(t)'
  <2> SUFFICES ASSUME conf.ct \in {"dynamic", "strict"} PROVE InOrder(t)'
    OBVIOUS
  <2>1. \A j \in DOMAIN hops[t] : hops[t][j] \in Nat
    BY <1>6
  <2>2. \A j \in DOMAIN hops[t] : hops[t][j] <= o
    <3>1. CASE pc[t] = "first"
      BY <3>1 DEF Own, HopsAreBusy
    <3>2. CASE pc[t] = "next"
      BY <1>6, <1>8, <2>1, <3>2 DEF Own, InOrder
    <3> QED
      BY <1>1, <3>1, <3>2
  <2>3. l = "step" => pc[t] = "next"
    BY <1>1
  <2> QED
    BY <1>1, <1>4, <1>5, <1>8, <2>2, <2>3 DEF Own, InOrder, Walking
<1>10. conf.ct = "strict" => Gapless(t)'
  <2> SUFFICES ASSUME conf.ct = "strict" PROVE Gapless(t)'
    OBVIOUS
  <2>1. \A x \in Chain!Proxies : Chain!State(t)[x] = "play" \/ InHops(t, x)
    BY <1>1, NoneDown DEF Own, HopsAreBusy, Walking
  <2>2. ~InHops(t, i)
    BY <1>1, <1>3 DEF Own, HopsAreBusy, Walking, Chain!Playing
  <2>3. CASE pc[t] = "first"
    <3>1. 0 \in Chain!Playing(t)
      BY <1>6, <2>1, <2>3 DEF Own, HopsAreBusy, InHops, Chain!Playing
    <3>2. i = 0
      BY <1>6, <1>8, <3>1
    <3> QED
      BY <1>1, <1>4, <2>3, <3>2 DEF Gapless
  <2>4. CASE pc[t] = "next"
    <3>1. \A j \in 1..Len(hops[t]) : hops[t][j] = j - 1
      BY <1>6, <2>4 DEF Own, Gapless
    <3>2. i >= Len(hops[t])
      <4> SUFFICES ASSUME i < Len(hops[t]) PROVE FALSE
        BY <1>6
      <4>1. i + 1 \in 1..Len(hops[t]) /\ i + 1 \in DOMAIN hops[t]
        BY <1>6
      <4>2. hops[t][i + 1] = i
        BY <1>6, <3>1, <4>1
      <4> QED
        BY <2>2, <4>1, <4>2 DEF InHops
    <3>3. ~InHops(t, Len(hops[t]))
      <4> SUFFICES ASSUME NEW j \in DOMAIN hops[t], hops[t][j] = Len(hops[t]) PROVE FALSE
        BY DEF InHops
      <4>1. j \in 1..Len(hops[t]) /\ Len(hops[t]) \in Nat
        BY <1>6
      <4>2. j - 1 = Len(hops[t])
        BY <3>1, <4>1
      <4> QED
        BY <4>1, <4>2
    <3>4. Len(hops[t]) \in Chain!Playing(t)
      <4>1. Len(hops[t]) \in Chain!Proxies
        BY <1>3, <1>6, <3>2
      <4> QED
        BY <2>1, <3>3, <4>1 DEF Chain!Playing
    <3>5. i = Len(hops[t])
      BY <1>6, <1>8, <3>2, <3>4
    <3> QED
      BY <1>1, <1>4, <2>4, <3>5 DEF Own, Gapless
  <2> QED
    BY <1>1, <2>3, <2>4
<1>11. ASSUME conf.ct = "round_robin" PROVE GoesRound(t)'
  <2>1. PICK a \in Chain!Starts(t) : OnTheWay(t, a)
    BY <1>1, <1>11 DEF Own, GoesRound, Walking
  <2>2. a \in 0..Chain!Count
    BY <1>2, <2>1, StartsAreInList
  <2>3. a \in Chain!Starts(t)' /\ \A x : Chain!Ahead(a, x)' = Chain!Ahead(a, x)
    BY <1>1, <2>1 DEF Chain!SelectFirst, Chain!SelectNext, Chain!Starts, Chain!Ahead, Chain!Count
  <2>4. \A j \in Chain!Playing(t) :
          Chain!Ahead(a, i) <= Chain!Ahead(a, j) /\ Chain!Ahead(a, o) <= Chain!Ahead(a, j)
    <3>1. Chain!Playing(t) \in SUBSET (0..Chain!Count - 1)
      BY <1>6
    <3>2. \A j \in Chain!Playing(t) : Chain!Ahead(a, offset[t]) <= Chain!Ahead(a, j)
      BY <2>1 DEF OnTheWay
    <3>3. \/ i = o /\ offset[t] <= o /\ \A j \in Chain!Playing(t) : offset[t] <= j => i <= j
          \/ i = 0 /\ o = offset[t] /\ \A j \in Chain!Playing(t) : j < offset[t]
      BY <1>3, <1>11
    <3> QED
      BY <1>6, <2>2, <3>1, <3>2, <3>3, NextRound
  <2>5. OnTheWay(t, a)'
    BY <1>1, <1>4, <1>5, <2>1, <2>3, <2>4 DEF OnTheWay, Chain!InTurn
  <2>6. l = "step" => Len(hops'[t]) < conf'.max
    BY <1>1, <1>6, <1>11, FileRead, <1>2 DEF Own, Chain!Full, Chain!SelectFirst, ChainTypes, Chain!TypeOK
  <2> QED
    BY <1>1, <1>4, <2>3, <2>5, <2>6 DEF GoesRound
<1> QED
  BY <1>1, <1>7, <1>9, <1>10, <1>11 DEF Own

LEMMA NoFirstOwn ==
    ASSUME ChainInv, NEW t \in Threads, Own(t), Chain!NoFirst(t)
    PROVE  Own(t)'
<1>1. /\ pc[t] = "first" /\ UNCHANGED <<home, conf, hops>>
      /\ \/ pc' = [pc EXCEPT ![t] = "fail"]
         \/ /\ conf.ct = "round_robin" /\ pc' = pc
            /\ ps' = [ps EXCEPT ![home[t]] = [i \in Chain!Proxies |-> "play"]]
  BY DEF Chain!NoFirst, Chain!Go
<1>2. CASE pc' = [pc EXCEPT ![t] = "fail"]
  <2>1. pc'[t] = "fail"
    BY <1>2 DEF ChainInv, ChainTypes, Chain!TypeOK
  <2> QED
    BY <2>1 DEF Own, HopsAreBusy, InOrder, Gapless, GoesRound, Walking
<1>3. CASE conf.ct = "round_robin" /\ pc' = pc
           /\ ps' = [ps EXCEPT ![home[t]] = [i \in Chain!Proxies |-> "play"]]
  <2>1. pc'[t] = "first" /\ hops'[t] = <<>> /\ Chain!Proxies' = Chain!Proxies
    BY <1>1, <1>3 DEF Own, HopsAreBusy, Chain!Proxies, Chain!Count
  <2>2. Chain!State(t)' = [i \in Chain!Proxies |-> "play"]
    BY <1>1, <1>3 DEF Chain!State, ChainInv, ChainTypes, Chain!TypeOK
  <2>3. offset'[t] = 0 /\ looped'[t] # 0 /\ conf' = conf
    BY <1>1, <1>3 DEF Chain!NoFirst, ChainInv, ChainTypes, Chain!TypeOK
  <2>4. 0 \in Chain!Starts(t)' /\ OnTheWay(t, 0)'
    <3>1. \A i \in Chain!Playing(t)' : i \in Nat
      BY <1>1, <2>1, FileRead DEF Chain!Playing, ChainInv, ChainTypes, Chain!TypeOK
    <3> QED
      BY <2>1, <2>3, <3>1 DEF Chain!Starts, OnTheWay, Chain!InTurn, Chain!Ahead
  <2>5. GoesRound(t)'
    BY <2>1, <2>4 DEF GoesRound
  <2> QED
    BY <1>1, <1>3, <2>1, <2>2, <2>5 DEF Own, HopsAreBusy, InHops
<1> QED
  BY <1>1, <1>2, <1>3

\* A proxy that was in play is in use.
LEMMA MarkedBusy ==
    ASSUME ChainInv, NEW t \in Threads, HopsAreBusy(t), pc[t] \in {"start", "step"},
           conf' = conf, home' = home, Chain!Mark(t, cur[t], "busy")
    PROVE  /\ cur[t] \in Chain!Proxies /\ Chain!Proxies' = Chain!Proxies
           /\ ~InHops(t, cur[t])
           /\ Chain!Playing(t)' = Chain!Playing(t) \ {cur[t]}
           /\ \A i \in Chain!Proxies :
                Chain!State(t)'[i] = "busy" <=> i = cur[t] \/ InHops(t, i)
<1>1. cur[t] \in Chain!Playing(t) /\ cur[t] \in Chain!Proxies
  BY DEF HopsAreBusy, Chain!Playing
<1>2. Chain!Proxies' = Chain!Proxies
  BY DEF Chain!Proxies, Chain!Count
<1>3. \A i \in Chain!Proxies :
        Chain!State(t)'[i] = IF i = cur[t] THEN "busy" ELSE Chain!State(t)[i]
  BY <1>1 DEF Chain!Mark, Chain!State, ChainInv, ChainTypes, Chain!TypeOK
<1>4. \A i \in Chain!Proxies : Chain!State(t)[i] = "busy" <=> InHops(t, i)
  BY DEF HopsAreBusy, Walking
<1>5. Chain!State(t)[cur[t]] = "play"
  BY <1>1 DEF Chain!Playing
<1> QED
  BY <1>1, <1>2, <1>3, <1>4, <1>5 DEF Chain!Playing

\* The hop that joins a chain, the first one included.
LEMMA JoinOwn ==
    ASSUME ChainInv, NEW t \in Threads, Own(t), pc[t] \in {"start", "step"},
           pc' = [pc EXCEPT ![t] = "next"], hops' = [hops EXCEPT ![t] = Append(@, cur[t])],
           Chain!Mark(t, cur[t], "busy"), UNCHANGED <<home, conf, rr, offset, cur, looped>>
    PROVE  Own(t)'
<1>1. hops[t] \in Seq(Chain!Proxies) /\ offset[t] \in Nat /\ \A i \in Chain!Proxies : i \in Nat
  BY FileRead DEF ChainInv, ChainTypes, Chain!TypeOK
<1>2. /\ cur[t] \in Chain!Proxies /\ Chain!Proxies' = Chain!Proxies
      /\ ~InHops(t, cur[t])
      /\ Chain!Playing(t)' = Chain!Playing(t) \ {cur[t]}
      /\ \A i \in Chain!Proxies : Chain!State(t)'[i] = "busy" <=> i = cur[t] \/ InHops(t, i)
  BY MarkedBusy DEF Own
<1>3. pc'[t] = "next" /\ hops'[t] = Append(hops[t], cur[t])
  BY DEF ChainInv, ChainTypes, Chain!TypeOK
<1> DEFINE k == Len(hops[t])
<1>4. /\ k \in Nat /\ Len(hops'[t]) = k + 1 /\ DOMAIN hops'[t] = 1..k + 1
      /\ DOMAIN hops[t] = 1..k
      /\ hops'[t][k + 1] = cur[t] /\ \A j \in 1..k : hops'[t][j] = hops[t][j]
  BY <1>1, <1>2, <1>3
<1>5. \A i : InHops(t, i)' <=> i = cur[t] \/ InHops(t, i)
  <2>1. ASSUME NEW i PROVE InHops(t, i)' <=> i = cur[t] \/ InHops(t, i)
    <3>1. k + 1 \in DOMAIN hops'[t] /\ \A j \in 1..k + 1 : j = k + 1 \/ j \in 1..k
      BY <1>4
    <3> QED
      BY <1>4, <3>1 DEF InHops
  <2> QED
    BY <2>1
<1>6. \A j \in 1..k : hops[t][j] # cur[t]
  BY <1>2, <1>4 DEF InHops
<1>7. ASSUME NEW i \in 1..k + 1, NEW j \in 1..k + 1, i < j
      PROVE  i \in 1..k /\ (j \in 1..k \/ j = k + 1)
  BY <1>4, <1>7
<1>8. pc[t] = "start" => k = 0
  BY <1>4 DEF Own, HopsAreBusy
<1>9. HopsAreBusy(t)'
  <2>1. \A i, j \in 1..k : i < j => hops[t][i] # hops[t][j]
    BY <1>4, <1>8 DEF Own, HopsAreBusy
  <2>2. \A i, j \in DOMAIN hops'[t] : i < j => hops'[t][i] # hops'[t][j]
    BY <1>4, <1>6, <1>7, <2>1
  <2> QED
    BY <1>2, <1>3, <1>5, <2>2 DEF HopsAreBusy
<1>10. ASSUME conf.ct \in {"dynamic", "strict"} PROVE InOrder(t)'
  <2>1. cur[t] = offset[t]
    BY <1>10 DEF Own, InOrder
  <2>2. \A j \in 1..k : hops[t][j] <= cur[t] /\ hops[t][j] \in Nat
    <3>1. \A j \in 1..k : hops[t][j] \in Nat
      BY <1>1, <1>4
    <3>2. \A j \in 1..k : hops[t][j] <= offset[t]
      BY <1>4, <1>8, <1>10 DEF Own, InOrder
    <3> QED
      BY <2>1, <3>1, <3>2
  <2>3. \A j \in 1..k : hops[t][j] < cur[t]
    BY <1>1, <1>2, <1>6, <2>2
  <2>4. \A i, j \in 1..k : i < j => hops[t][i] < hops[t][j]
    BY <1>4, <1>8, <1>10 DEF Own, InOrder
  <2>5. \A i, j \in DOMAIN hops'[t] : i < j => hops'[t][i] < hops'[t][j]
    BY <1>4, <1>7, <2>3, <2>4
  <2>6. \A j \in DOMAIN hops'[t] : hops'[t][j] <= offset'[t]
    BY <1>1, <1>4, <2>1, <2>2
  <2>7. \A i \in Chain!Playing(t)' : offset'[t] <= i
    BY <1>2, <1>10 DEF Own, InOrder, Walking
  <2> QED
    BY <1>3, <2>5, <2>6, <2>7 DEF InOrder
<1>11. ASSUME conf.ct = "strict" PROVE Gapless(t)'
  <2>1. cur[t] = k
    BY <1>8, <1>11 DEF Own, Gapless
  <2>2. \A j \in 1..k : hops[t][j] = j - 1
    BY <1>4, <1>8, <1>11 DEF Own, Gapless
  <2> QED
    BY <1>3, <1>4, <2>1, <2>2 DEF Gapless
<1>12. ASSUME conf.ct = "round_robin" PROVE GoesRound(t)'
  <2>1. PICK a \in Chain!Starts(t) : OnTheWay(t, a)
    BY <1>12 DEF Own, GoesRound, Walking
  <2>2. a \in 0..Chain!Count /\ cur[t] \in Chain!Playing(t)
    BY <2>1, StartsAreInList DEF ChainInv, Own, HopsAreBusy
  <2>3. /\ Chain!Starts(t)' = Chain!Starts(t)
        /\ \A x : Chain!Ahead(a, x)' = Chain!Ahead(a, x)
    BY DEF Chain!Starts, Chain!Ahead, Chain!Count
  <2>4. \A i \in Chain!Playing(t) \ {cur[t]} : Chain!Ahead(a, cur[t]) < Chain!Ahead(a, i)
    <3>1. /\ \A i \in Chain!Playing(t) : i \in 0..Chain!Count - 1
          /\ Chain!Count \in Nat
      BY FileRead DEF Chain!Playing, ChainInv, ChainTypes, Chain!TypeOK
    <3>2. \A i \in Chain!Playing(t) : Chain!Ahead(a, cur[t]) <= Chain!Ahead(a, i)
      BY <2>1 DEF OnTheWay
    <3> QED
      BY <2>2, <3>1, <3>2 DEF Chain!Ahead
  <2>5. Chain!InTurn(t, a)'
    <3>1. \A j \in 1..k : /\ \A l \in 1..k : j < l => Chain!Ahead(a, hops[t][j]) < Chain!Ahead(a, hops[t][l])
                          /\ \A i \in Chain!Playing(t) : Chain!Ahead(a, hops[t][j]) < Chain!Ahead(a, i)
      BY <1>4, <2>1 DEF OnTheWay, Chain!InTurn
    <3>2. \A j, l \in 1..k + 1 : j < l =>
            Chain!Ahead(a, hops'[t][j]) < Chain!Ahead(a, hops'[t][l])
      BY <1>4, <1>7, <2>2, <3>1
    <3>3. \A j \in 1..k + 1, i \in Chain!Playing(t) \ {cur[t]} :
            Chain!Ahead(a, hops'[t][j]) < Chain!Ahead(a, i)
      <4>1. \A j \in 1..k + 1 : j \in 1..k \/ j = k + 1
        BY <1>4
      <4> QED
        BY <1>4, <2>4, <3>1, <4>1
    <3> QED
      BY <1>2, <1>4, <2>3, <3>2, <3>3 DEF Chain!InTurn
  <2>6. OnTheWay(t, a)'
    BY <1>2, <1>3, <2>1, <2>3, <2>5 DEF OnTheWay
  <2>7. Len(hops'[t]) <= conf'.max
    <3>1. conf.max \in Nat \ {0}
      BY FileRead DEF ChainInv, ChainTypes, Chain!TypeOK
    <3>2. CASE pc[t] = "start"
      BY <1>4, <1>8, <3>1, <3>2
    <3>3. CASE pc[t] = "step"
      BY <1>4, <1>12, <3>1, <3>3 DEF Own, GoesRound
    <3> QED
      BY <3>2, <3>3
  <2> QED
    BY <1>3, <2>1, <2>3, <2>6, <2>7 DEF GoesRound
<1> QED
  BY <1>9, <1>10, <1>11, <1>12 DEF Own

LEMMA StartChainOwn ==
    ASSUME ChainInv, NEW t \in Threads, Own(t), Chain!StartChain(t)
    PROVE  Own(t)'
<1>0. /\ pc[t] = "start" /\ hops[t] = <<>> /\ UNCHANGED <<home, conf, rr, offset, cur, looped>>
      /\ pc \in [Threads -> Labels] /\ hops \in [Threads -> Seq(Chain!Proxies)]
      /\ cur[t] \in Chain!Proxies
  BY DEF Chain!StartChain, Own, HopsAreBusy, ChainInv, ChainTypes, Chain!TypeOK, Labels
<1>1. CASE /\ Chain!Mark(t, cur[t], "busy")
           /\ hops' = [hops EXCEPT ![t] = <<cur[t]>>] /\ pc' = [pc EXCEPT ![t] = "next"]
  <2>1. hops' = [hops EXCEPT ![t] = Append(@, cur[t])]
    BY <1>0, <1>1
  <2> QED
    BY <1>0, <1>1, <2>1, JoinOwn
<1>2. CASE /\ Chain!Mark(t, cur[t], "down") \/ ps' = ps
           /\ hops' = hops /\ conf.ct # "strict" /\ pc' = [pc EXCEPT ![t] = "first"]
  <2>1. pc'[t] = "first" /\ hops'[t] = <<>> /\ Chain!Proxies' = Chain!Proxies
    BY <1>0, <1>2 DEF Chain!Proxies, Chain!Count
  <2>2. \A i \in Chain!Proxies :
          Chain!State(t)'[i] = Chain!State(t)[i] \/ Chain!State(t)'[i] = "down"
    <3>1. home' = home /\ ps \in [Chain!Procs -> [Chain!Proxies -> Chain!States]]
          /\ home[t] \in Chain!Procs
      BY <1>0 DEF ChainInv, ChainTypes, Chain!TypeOK
    <3> QED
      BY <1>2, <3>1 DEF Chain!Mark, Chain!State
  <2>3. Chain!Playing(t)' \subseteq Chain!Playing(t)
    BY <2>1, <2>2 DEF Chain!Playing
  <2>4. \A i \in Chain!Proxies : Chain!State(t)[i] # "busy"
    BY <1>0 DEF Own, HopsAreBusy, Walking, InHops
  <2>5. HopsAreBusy(t)'
    BY <2>1, <2>2, <2>4 DEF HopsAreBusy, InHops
  <2>6. conf.ct \in {"dynamic", "strict"} => InOrder(t)'
    BY <1>0, <2>1, <2>3 DEF Own, InOrder, Walking
  <2>7. ASSUME conf.ct = "round_robin" PROVE GoesRound(t)'
    <3>1. PICK a \in Chain!Starts(t) : OnTheWay(t, a)
      BY <1>0, <2>7 DEF Own, GoesRound, Walking
    <3>2. a \in Chain!Starts(t)' /\ \A x : Chain!Ahead(a, x)' = Chain!Ahead(a, x)
      BY <1>0, <3>1 DEF Chain!Starts, Chain!Ahead, Chain!Count
    <3>3. OnTheWay(t, a)'
      BY <1>0, <2>1, <2>3, <3>1, <3>2 DEF OnTheWay, Chain!InTurn
    <3> QED
      BY <2>1, <3>2, <3>3 DEF GoesRound
  <2> QED
    BY <1>0, <1>2, <2>1, <2>5, <2>6, <2>7 DEF Own
<1>3. CASE pc' = [pc EXCEPT ![t] = "fail"]
  <2>1. pc'[t] = "fail"
    BY <1>0, <1>3
  <2> QED
    BY <2>1 DEF Own, HopsAreBusy, InOrder, Gapless, GoesRound, Walking
<1> QED
  BY <1>1, <1>2, <1>3 DEF Chain!StartChain, Chain!Go

LEMMA ChainStepOwn ==
    ASSUME ChainInv, NEW t \in Threads, Own(t), Chain!ChainStep(t)
    PROVE  Own(t)'
<1>1. CASE /\ Chain!Mark(t, cur[t], "busy")
           /\ hops' = [hops EXCEPT ![t] = Append(@, cur[t])] /\ pc' = [pc EXCEPT ![t] = "next"]
  BY <1>1, JoinOwn DEF Chain!ChainStep
<1>2. CASE \E l \in {"fail", "calc"} : pc' = [pc EXCEPT ![t] = l]
  <2>1. pc'[t] \in {"fail", "calc"}
    BY <1>2 DEF ChainInv, ChainTypes, Chain!TypeOK
  <2> QED
    BY <2>1 DEF Own, HopsAreBusy, InOrder, Gapless, GoesRound, Walking
<1> QED
  BY <1>1, <1>2 DEF Chain!ChainStep, Chain!Go

LEMMA NoNextOwn ==
    ASSUME ChainInv, NEW t \in Threads, Sole(t), Own(t), Chain!NoNext(t)
    PROVE  Own(t)'
<1>1. /\ pc[t] = "next" /\ ~Chain!Full(t) /\ Chain!NoneSelected(t)
      /\ UNCHANGED <<home, conf, ps, rr, cur, hops>>
  BY DEF Chain!NoNext, Chain!lists
<1>2. /\ Chain!State(t)' = Chain!State(t) /\ Chain!Proxies' = Chain!Proxies
      /\ Chain!Playing(t)' = Chain!Playing(t) /\ Chain!Count' = Chain!Count
      /\ \A x : InHops(t, x)' = InHops(t, x)
      /\ Chain!Full(t)' = Chain!Full(t)
  BY <1>1 DEF Chain!State, Chain!Playing, Chain!Proxies, Chain!Count, InHops, Chain!Full
<1>3. /\ pc \in [Threads -> Labels] /\ hops[t] \in Seq(Chain!Proxies)
      /\ offset[t] \in Nat /\ offset[t] < Chain!Count
      /\ Chain!Count \in Nat \ {0} /\ Chain!Proxies = 0..Chain!Count - 1
  BY <1>1, FileRead DEF ChainInv, ChainTypes, Chain!TypeOK, Labels, Counters
<1>4. CASE conf.ct = "round_robin"
  <2>1. pc' = pc /\ offset'[t] = 0 /\ looped' = looped
    BY <1>4 DEF Chain!NoNext, ChainInv, ChainTypes, Chain!TypeOK
  <2>2. PICK a \in Chain!Starts(t) : OnTheWay(t, a)
    BY <1>1, <1>4 DEF Own, GoesRound, Walking
  <2>3. a \in Chain!Starts(t)' /\ \A x : Chain!Ahead(a, x)' = Chain!Ahead(a, x)
    BY <1>1, <2>1, <2>2 DEF Chain!Starts, Chain!Ahead, Chain!Count
  <2>4. \A j \in Chain!Playing(t) : Chain!Ahead(a, 0) <= Chain!Ahead(a, j)
    <3>1. a \in 0..Chain!Count
      BY <2>2, StartsAreInList DEF ChainInv
    <3>2. \A j \in Chain!Playing(t) : j \in 0..Chain!Count - 1 /\ j < offset[t]
      <4>1. \A j \in Chain!Playing(t) : j \in 0..Chain!Count - 1
        BY <1>3 DEF Chain!Playing
      <4>2. Chain!FromOffset(t) = {}
        BY <1>1, <1>3, <1>4 DEF Chain!NoneSelected, Chain!NoFifo
      <4> QED
        BY <1>3, <4>1, <4>2 DEF Chain!FromOffset
    <3>3. \A j \in Chain!Playing(t) : Chain!Ahead(a, offset[t]) <= Chain!Ahead(a, j)
      BY <2>2 DEF OnTheWay
    <3>4. ASSUME NEW j \in Chain!Playing(t) PROVE Chain!Ahead(a, 0) <= Chain!Ahead(a, j)
      <4>1. Chain!Count \in Nat \ {0} /\ offset[t] \in 0..Chain!Count
        BY <1>3
      <4>2. j \in 0..Chain!Count - 1 /\ j < offset[t]
        BY <3>2
      <4>3. Chain!Ahead(a, offset[t]) <= Chain!Ahead(a, j)
        BY <3>3
      <4> QED
        BY <3>1, <4>1, <4>2, <4>3, BackToStart
    <3> QED
      BY <3>4
  <2>5. OnTheWay(t, a)'
    BY <1>1, <1>2, <2>1, <2>2, <2>3, <2>4 DEF OnTheWay, Chain!InTurn
  <2>6. GoesRound(t)'
    BY <1>1, <1>4, <2>1, <2>3, <2>5 DEF Own, GoesRound
  <2> QED
    BY <1>1, <1>2, <1>4, <2>1, <2>6 DEF Own, HopsAreBusy, Walking
<1>5. CASE conf.ct = "random"
  <2>1. pc'[t] = "fail"
    BY <1>3, <1>5 DEF Chain!NoNext, Chain!Go
  <2> QED
    BY <1>1, <1>5, <2>1 DEF Own, HopsAreBusy, Walking
<1>6. CASE conf.ct \in {"dynamic", "strict"}
  <2>1. pc'[t] = "target"
    BY <1>3, <1>6 DEF Chain!NoNext, Chain!Go
  <2>2. HopsAreBusy(t)' /\ InOrder(t)'
    BY <1>1, <1>6, <2>1 DEF Own, HopsAreBusy, InOrder, Walking
  <2>3. ASSUME conf.ct = "strict" PROVE Gapless(t)'
    <3>1. Chain!Playing(t) = {}
      <4>1. Chain!FromOffset(t) = {}
        BY <1>1, <1>3, <1>6 DEF Chain!NoneSelected, Chain!NoFifo
      <4>2. \A i \in Chain!Playing(t) : i \in Nat /\ i >= offset[t]
        BY <1>1, <1>3, <1>6 DEF Own, InOrder, Walking, Chain!Playing
      <4> QED
        BY <4>1, <4>2 DEF Chain!FromOffset
    <3>2. \A x \in Chain!Proxies : InHops(t, x)
      BY <1>1, <2>3, <3>1, NoneDown DEF Own, HopsAreBusy, Walking, Chain!Playing
    <3>3. \A j \in 1..Len(hops[t]) : hops[t][j] = j - 1 /\ hops[t][j] \in Chain!Proxies
      BY <1>1, <1>3, <2>3 DEF Own, Gapless
    <3>4. InHops(t, Chain!Count - 1)
      BY <1>3, <3>2
    <3>5. PICK n \in 1..Len(hops[t]) : hops[t][n] = Chain!Count - 1
      <4>1. DOMAIN hops[t] = 1..Len(hops[t])
        BY <1>3
      <4> QED
        BY <3>4, <4>1 DEF InHops
    <3>6. Len(hops[t]) \in Nat /\ Len(hops[t]) >= Chain!Count
      BY <1>3, <3>3, <3>5
    <3>7. hops[t][Len(hops[t])] = Len(hops[t]) - 1 /\ hops[t][Len(hops[t])] \in Chain!Proxies
      BY <1>3, <3>3, <3>6
    <3>8. Len(hops[t]) = Chain!Count
      BY <1>3, <3>6, <3>7
    <3>9. \A j \in DOMAIN hops[t] : hops[t][j] = j - 1
      BY <1>3, <3>3
    <3> QED
      BY <1>1, <1>2, <2>1, <3>8, <3>9 DEF Gapless
  <2> QED
    BY <1>1, <1>6, <2>2, <2>3 DEF Own
<1> QED
  BY <1>3, <1>4, <1>5, <1>6, FileRead DEF ChainInv, ChainTypes, Chain!TypeOK, Chain!Types

LEMMA FilledOwn ==
    ASSUME ChainInv, NEW t \in Threads, Own(t), Chain!Filled(t)
    PROVE  Own(t)'
<1>1. /\ pc[t] = "next" /\ Chain!Full(t) /\ pc'[t] = "target"
      /\ UNCHANGED <<home, conf, ps, offset, cur, hops>>
  BY DEF Chain!Filled, Chain!Go, Chain!walk, ChainInv, ChainTypes, Chain!TypeOK
<1>2. conf.ct \in {"round_robin", "random"}
  BY <1>1 DEF Chain!Full
<1>4. HopsAreBusy(t)'
  BY <1>1 DEF Own, HopsAreBusy, Walking
<1>5. ASSUME conf.ct = "round_robin" PROVE GoesRound(t)'
  <2>1. Len(hops[t]) \in Nat /\ conf.max \in Nat
    BY FileRead DEF ChainInv, ChainTypes, Chain!TypeOK
  <2>2. Len(hops[t]) = conf.max
    BY <1>1, <1>5, <2>1 DEF Own, GoesRound, Chain!Full
  <2> QED
    BY <1>1, <2>2 DEF GoesRound, Walking
<1> QED
  BY <1>1, <1>2, <1>4, <1>5 DEF Own

-----------------------------------------------------------------------------
(***************************************************************************)
(* Every step keeps the invariant.                                         *)
(***************************************************************************)
LEMMA StepOwn ==
    ASSUME ChainInv, NEW t \in Threads, Sole(t), Own(t), Chain!Step(t)
    PROVE  Own(t)'
<1>1. CASE Chain!SelectNext(t)
  <2>1. ~Chain!Full(t)
    BY <1>1 DEF Chain!SelectNext
  <2> QED
    BY <1>1, <2>1, SelectOwn
<1>2. CASE Chain!Fail(t)
  <2>1. pc'[t] = "done"
    BY <1>2 DEF Chain!Fail, Chain!Go, ChainInv, ChainTypes, Chain!TypeOK
  <2> QED
    BY <2>1 DEF Own, HopsAreBusy, InOrder, Gapless, GoesRound, Walking
<1> QED
  BY <1>1, <1>2, CalcAliveOwn, SelectOwn, NoFirstOwn, StartChainOwn, NoNextOwn, FilledOwn,
     ChainStepOwn DEF Chain!Step

\* What a thread of another process, or an idle one, cannot disturb.
LEMMA OwnStays ==
    ASSUME ChainTypes, NEW u \in Threads, Own(u), UNCHANGED <<home[u], conf>>,
           UNCHANGED <<pc[u], offset[u], cur[u], hops[u], looped[u]>>,
           ps'[home[u]] = ps[home[u]], rr'[home[u]] = rr[home[u]]
    PROVE  Own(u)'
<1>1. /\ Chain!State(u)' = Chain!State(u) /\ Chain!Proxies' = Chain!Proxies
      /\ Chain!Playing(u)' = Chain!Playing(u) /\ Chain!Count' = Chain!Count
      /\ \A x : InHops(u, x)' = InHops(u, x)
      /\ Chain!Starts(u)' = Chain!Starts(u)
      /\ \A a, x : Chain!Ahead(a, x)' = Chain!Ahead(a, x)
  BY DEF Chain!State, Chain!Playing, Chain!Proxies, Chain!Count, InHops, Chain!Starts, Chain!Ahead
<1>2. HopsAreBusy(u)'
  BY <1>1 DEF Own, HopsAreBusy
<1>3. InOrder(u)' = InOrder(u) /\ Gapless(u)' = Gapless(u)
  BY <1>1 DEF InOrder, Gapless
<1>4. GoesRound(u)' = GoesRound(u)
  <2>1. \A a : OnTheWay(u, a)' = OnTheWay(u, a)
    BY <1>1 DEF OnTheWay, Chain!InTurn
  <2> QED
    BY <1>1, <2>1 DEF GoesRound
<1> QED
  BY <1>2, <1>3, <1>4 DEF Own

LEMMA OthersLone ==
    ASSUME ChainInv, NEW t \in Threads, pc[t] # "idle", Elsewhere(t),
           NEW u \in Threads \ {t}, alone[u]
    PROVE  Sole(u)' /\ Own(u)'
<1>1. Sole(u) /\ Own(u)
  BY DEF ChainInv, LoneInv
<1>2. home[u] # home[t] /\ home[u] \in Procs \ {home[t]}
  BY <1>1 DEF Sole, ChainInv, ChainTypes, Chain!TypeOK, Chain!Procs, Procs
<1>3. Sole(u)'
  BY <1>1, <1>2 DEF Sole, Elsewhere
<1> QED
  BY <1>1, <1>2, <1>3, OwnStays DEF Elsewhere, ChainInv

LEMMA StepMends ==
    ASSUME ChainInv, NEW t \in Threads, Chain!Step(t)
    PROVE  StrictMends'
<1>1. Elsewhere(t) /\ ChainTypes
  BY StepElsewhere DEF ChainInv
<1> SUFFICES ASSUME conf.ct = "strict" PROVE StrictMends'
  BY <1>1 DEF StrictMends, Elsewhere
<1>2. Chain!Proxies' = Chain!Proxies /\ home' = home
  BY <1>1 DEF Elsewhere, Chain!Proxies, Chain!Count
<1> SUFFICES ASSUME NEW p \in Procs
             PROVE  \/ \E u \in Threads : home[u] = p /\ pc'[u] = "fail"
                    \/ \A i \in Chain!Proxies : ps'[p][i] \in {"play", "busy"}
  BY <1>2 DEF StrictMends
<1>3. CASE p # home[t]
  <2>1. ps'[p] = ps[p] /\ \A u \in Threads : home[u] = p => pc'[u] = pc[u]
    BY <1>1, <1>3 DEF Elsewhere
  <2> QED
    BY <2>1 DEF ChainInv, StrictMends
<1>4. CASE p = home[t] /\ pc'[t] = "fail"
  BY <1>4
<1>5. CASE p = home[t] /\ pc'[t] # "fail" /\ Chain!Fail(t)
  BY <1>5 DEF Chain!Fail, ChainInv, ChainTypes, Chain!TypeOK
<1>6. CASE p = home[t] /\ pc'[t] # "fail" /\ ~Chain!Fail(t)
  <2>1. pc[t] # "fail"
    BY <1>6 DEF Chain!Step, Chain!CalcAlive, Chain!SelectFirst, Chain!NoFirst, Chain!StartChain,
                Chain!SelectNext, Chain!NoNext, Chain!Filled, Chain!ChainStep
  <2>2. \/ \E u \in Threads \ {t} : home[u] = p /\ pc[u] = "fail"
        \/ \A i \in Chain!Proxies : ps[p][i] \in {"play", "busy"}
    BY <2>1, <1>6 DEF ChainInv, StrictMends
  <2>3. ASSUME \A i \in Chain!Proxies : ps[p][i] \in {"play", "busy"}
        PROVE  \A i \in Chain!Proxies : ps'[p][i] \in {"play", "busy"}
    <3>1. ps[p] \in [Chain!Proxies -> Chain!States] /\ p \in Chain!Procs
      BY <1>1, <1>6 DEF ChainTypes, Chain!TypeOK
    <3>2. CASE Chain!CalcAlive(t)
      <4>1. ps'[p] = Chain!Released(t)
        BY <1>1, <1>6, <3>1, <3>2 DEF Chain!CalcAlive, ChainTypes, Chain!TypeOK
      <4> QED
        BY <1>1, <1>6, <2>3, <4>1, ReleasedTypes DEF Chain!State
    <3>3. CASE ps' = ps
      BY <2>3, <3>3
    <3>4. CASE Chain!Mark(t, cur[t], "busy")
      BY <1>1, <1>6, <2>3, <3>1, <3>4 DEF Chain!Mark, ChainTypes, Chain!TypeOK
    <3>5. CASE pc' = [pc EXCEPT ![t] = "fail"]
      BY <1>1, <1>6, <3>5 DEF ChainTypes, Chain!TypeOK
    <3>6. CASE Chain!StartChain(t) \/ Chain!ChainStep(t)
      BY <3>3, <3>4, <3>5, <3>6 DEF Chain!StartChain, Chain!ChainStep, Chain!Go
    <3>7. CASE Chain!SelectFirst(t) \/ Chain!SelectNext(t) \/ Chain!NoFirst(t)
               \/ Chain!NoNext(t) \/ Chain!Filled(t)
      BY <3>3, <3>7 DEF Chain!SelectFirst, Chain!SelectNext, Chain!NoFirst, Chain!NoNext,
                       Chain!Filled, Chain!lists
    <3> QED
      BY <1>6, <3>2, <3>6, <3>7 DEF Chain!Step
  <2> QED
    BY <1>1, <2>2, <2>3 DEF Elsewhere
<1> QED
  BY <1>3, <1>4, <1>5, <1>6

LEMMA StepKeeps ==
    ASSUME ChainInv, NEW t \in Threads, Chain!Step(t)
    PROVE  ChainInv'
<1>1. Elsewhere(t) /\ alone' = alone /\ pc[t] # "idle" /\ ChainTypes'
  BY StepElsewhere, StepTypes DEF ChainInv
<1>2. ASSUME alone[t] PROVE Sole(t)' /\ Own(t)'
  <2>1. Sole(t) /\ Own(t)
    BY <1>2 DEF ChainInv, LoneInv
  <2>2. pc'[t] # "idle"
    BY DEF Chain!Step, Chain!CalcAlive, Chain!SelectFirst, Chain!NoFirst, Chain!StartChain,
           Chain!SelectNext, Chain!NoNext, Chain!Filled, Chain!ChainStep, Chain!Fail, Chain!Go,
           Chain!Select, ChainInv, ChainTypes, Chain!TypeOK
  <2> QED
    BY <1>1, <2>1, <2>2, StepOwn DEF Sole, Elsewhere
<1>3. LoneInv'
  BY <1>1, <1>2, OthersLone DEF LoneInv
<1> QED
  BY <1>1, <1>3, StepMends DEF ChainInv

LEMMA EndKeeps ==
    ASSUME ChainInv, NEW t \in Threads, Chain!Return(t) \/ \E ok \in BOOLEAN : Chain!Target(t, ok)
    PROVE  ChainInv'
<1>1. /\ Elsewhere(t) /\ pc[t] \in {"done", "target"} /\ pc'[t] \in {"done", "idle"}
      /\ pc'[t] = "idle" => ~alone'[t]
      /\ \A u \in Threads : alone'[u] => alone[u]
      /\ ps' = ps
  <2> USE DEF Chain!Go, Chain!lists, Chain!walk, Elsewhere, ChainInv, ChainTypes, Chain!TypeOK
  <2>1. CASE Chain!Return(t)
    BY <2>1 DEF Chain!Return
  <2>2. CASE \E ok \in BOOLEAN : Chain!Target(t, ok)
    BY <2>2 DEF Chain!Target
  <2> QED
    BY <2>1, <2>2
<1>2. ASSUME alone'[t] PROVE Sole(t)' /\ Own(t)'
  <2>1. Sole(t) /\ pc'[t] = "done"
    BY <1>1, <1>2 DEF ChainInv, LoneInv
  <2>2. Own(t)'
    BY <2>1 DEF Own, HopsAreBusy, InOrder, Gapless, GoesRound, Walking
  <2> QED
    BY <1>1, <2>1, <2>2 DEF Sole, Elsewhere
<1>3. LoneInv'
  BY <1>1, <1>2, OthersLone DEF LoneInv
<1>4. StrictMends'
  <2>1. Chain!Proxies' = Chain!Proxies /\ home' = home /\ conf' = conf
    BY <1>1 DEF Elsewhere, Chain!Proxies, Chain!Count
  <2>2. \A u \in Threads : pc[u] = "fail" => pc'[u] = "fail"
    BY <1>1 DEF Elsewhere
  <2> QED
    BY <1>1, <2>1, <2>2 DEF ChainInv, StrictMends
<1> QED
  BY <1>3, <1>4, EndTypes DEF ChainInv

LEMMA ConnectKeeps ==
    ASSUME ChainInv, NEW t \in Threads, Chain!Connect(t)
    PROVE  ChainInv'
<1>1. /\ pc[t] = "idle" /\ pc' = [pc EXCEPT ![t] = "calc"] /\ pc'[t] = "calc"
      /\ UNCHANGED <<home, conf, ps, rr, offset, cur, hops, looped>>
      /\ \A u \in Threads \ {t} : pc'[u] = pc[u] /\ (alone'[u] => alone[u] /\ home[u] # home[t])
      /\ alone'[t] => \A u \in Threads \ {t} : home[u] = home[t] => pc[u] = "idle"
  BY DEF Chain!Connect, Chain!Go, Chain!lists, Chain!walk, ChainInv, ChainTypes, Chain!TypeOK
<1>2. ASSUME alone'[t] PROVE Sole(t)' /\ Own(t)'
  BY <1>1, <1>2 DEF Sole, Own, HopsAreBusy, InOrder, Gapless, GoesRound, Walking
<1>3. ASSUME NEW u \in Threads \ {t}, alone'[u] PROVE Sole(u)' /\ Own(u)'
  <2>1. Sole(u) /\ Own(u) /\ home[u] # home[t]
    BY <1>1, <1>3 DEF ChainInv, LoneInv
  <2>2. Own(u)'
    BY <1>1, <2>1, OwnStays DEF ChainInv
  <2> QED
    BY <1>1, <2>1, <2>2 DEF Sole
<1>4. StrictMends'
  <2>1. Chain!Proxies' = Chain!Proxies
    BY <1>1 DEF Chain!Proxies, Chain!Count
  <2>2. \A u \in Threads : pc[u] = "fail" => pc'[u] = "fail"
    BY <1>1
  <2> QED
    BY <1>1, <2>1, <2>2 DEF ChainInv, StrictMends
<1> QED
  BY <1>2, <1>3, <1>4, EndTypes DEF ChainInv, LoneInv

LEMMA ChainInvStays == ChainInv /\ [Next]_vars => ChainInv'
<1> SUFFICES ASSUME ChainInv, [Next]_vars PROVE ChainInv'
  OBVIOUS
<1>1. CASE UNCHANGED <<home, chain>>
  <2>1. UNCHANGED <<home, conf, ps, rr, pc, offset, cur, hops, looped, alone>>
    BY <1>1 DEF chain
  <2>2. ChainTypes'
    BY TypesStay DEF ChainInv
  <2>3. StrictMends'
    BY <2>1 DEF ChainInv, StrictMends, Chain!Proxies, Chain!Count
  <2>4. ASSUME NEW u \in Threads, alone[u] PROVE Sole(u)' /\ Own(u)'
    <3>1. Sole(u) /\ Own(u)
      BY <2>4 DEF ChainInv, LoneInv
    <3>2. Own(u)'
      BY <2>1, <3>1, OwnStays DEF ChainInv
    <3> QED
      BY <2>1, <3>1, <3>2 DEF Sole
  <2> QED
    BY <2>1, <2>2, <2>3, <2>4 DEF ChainInv, LoneInv
<1> QED
  BY <1>1, ChainSteps, StepKeeps, EndKeeps, ConnectKeeps

LEMMA ChainInductive == Spec => []ChainInv
<1>1. Init => ChainInv
  <2> SUFFICES ASSUME Init PROVE ChainInv
    OBVIOUS
  <2> USE DEF Init, Chain!Init
  <2>1. ChainTypes
    BY FileRead, BoundsAssumption
    DEF BoundsAssumption, ChainTypes, Chain!TypeOK, Counters, Chain!States
  <2>2. StrictMends
    BY DEF StrictMends, Chain!Procs, Procs
  <2>3. LoneInv
    BY DEF LoneInv
  <2> QED
    BY <2>1, <2>2, <2>3 DEF ChainInv
<1> QED
  BY <1>1, ChainInvStays, PTL DEF Spec

-----------------------------------------------------------------------------
\* Connects and chains, returns that give up their answers, and processes that end leave
\* the name table what it promises to be (src/tools/proxychains-ng/src/libproxychains.c:663-767,
\* src/tools/proxychains-ng/src/allocator_thread.c:267-300).
THEOREM StillPromised == Spec => PromisedSpec
<1>1. Init => Promised!Init
  BY DEF Init, DnsInit, Call, Promised!Init, Promised!Rest
<1>2. DnsInv /\ ConnectInv /\ [Next]_vars => [Promised!Next]_(Promised!vars)
  <2> SUFFICES ASSUME DnsInv, ConnectInv, [Next]_vars PROVE [Promised!Next]_(Promised!vars)
    OBVIOUS
  <2>1. CASE \E t \in Threads : Return(t)
    BY <2>1, ReturnForgets
  <2>2. CASE \A t \in Threads : ~Return(t)
    BY <2>2, DnsSteps, Simulation
  <2> QED
    BY <2>1, <2>2
<1> QED
  BY <1>1, <1>2, Inductive, PTL DEF Spec, PromisedSpec, Promised!Spec

\* The last proxy is told the name the thread resolved (core.c:199-205), whatever other
\* threads and processes resolve in between.
THEOREM NameIsRight == Spec => []RightName
<1>1. ConnectInv => RightName
  BY DEF ConnectInv
<1> QED
  BY <1>1, Inductive, PTL

\* Every variable keeps to the values the code can give it (core.c:571-740).
THEOREM TypeCorrect == Spec => []TypeOK
<1>1. DnsInv /\ ConnectInv /\ ChainInv => TypeOK
  BY DEF DnsInv, ConnectInv, ConnectTypes, ChainInv, ChainTypes, TypeOK, Addresses
<1> QED
  BY <1>1, Inductive, ChainInductive, PTL

\* The walks of the threads, between the resolving and asking they do, are those of
\* connect_proxy_chain alone (core.c:571-740).
THEOREM ChainImplemented == Spec => Chain!Spec
<1>1. Init => Chain!Init
  BY DEF Init
<1>2. [Next]_vars => [Chain!Next]_(Chain!vars)
  <2> SUFFICES ASSUME [Next]_vars PROVE [Chain!Next]_(Chain!vars)
    OBVIOUS
  <2>1. CASE UNCHANGED <<home, chain>>
    BY <2>1 DEF chain, Chain!vars, Chain!lists, Chain!walk
  <2> QED
    BY <2>1, ChainSteps DEF Chain!Next
<1> QED
  BY <1>1, <1>2, PTL DEF Spec, Chain!Spec

\* A strict chain that no other connect of its process overlaps goes through every proxy in
\* the order of the list, however many connects failed before it (core.c:667-693).
THEOREM StrictChainIsWhole == Spec => []StrictIsWhole
<1>1. ChainInv => StrictIsWhole
  <2> SUFFICES ASSUME ChainInv, NEW t \in Threads, conf.ct = "strict", alone[t], pc[t] = "target"
               PROVE  hops[t] = [i \in 1..Chain!Count |-> i - 1]
    BY DEF StrictIsWhole, Chain!StrictIsWhole, Chain!LoneChain
  <2>1. Gapless(t) /\ hops[t] \in Seq(Chain!Proxies)
    BY DEF ChainInv, LoneInv, Own, ChainTypes, Chain!TypeOK
  <2>2. /\ hops[t] = [i \in 1..Len(hops[t]) |-> hops[t][i]] /\ Len(hops[t]) = Chain!Count
        /\ \A i \in 1..Len(hops[t]) : hops[t][i] = i - 1
    BY <2>1 DEF Gapless
  <2> QED
    BY <2>2
<1> QED
  BY <1>1, ChainInductive, PTL

\* A chain that none overlaps goes through no proxy twice, and a dynamic one goes forward in
\* the list, whatever proxies go down while it is built (core.c:593-740).
THEOREM NoChainTurnsBack == Spec => []NoProxyTwice
<1>1. ChainInv => NoProxyTwice
  BY DEF NoProxyTwice, Chain!NoProxyTwice, Chain!LoneChain, ChainInv, LoneInv, Own,
         HopsAreBusy, InOrder
<1> QED
  BY <1>1, ChainInductive, PTL

\* A round robin chain that none overlaps has as many proxies as the file says, and goes
\* round the list from the place the process noted on, or from its start once all proxies
\* were found down, without skipping a proxy in play (core.c:617-666).
THEOREM RoundRobinGoesRound == Spec => []RoundRobinInTurn
<1>1. ChainInv => RoundRobinInTurn
  BY DEF RoundRobinInTurn, Chain!RoundRobinInTurn, ChainInv, LoneInv, Own, GoesRound, OnTheWay,
         Walking
<1> QED
  BY <1>1, ChainInductive, PTL
=============================================================================
