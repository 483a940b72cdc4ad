------------------------- MODULE DnsThreadProofs -------------------------
(***************************************************************************)
(* The allocator thread of proxychains-ng is an implementation of the name *)
(* table, for every number of threads and names, every length of names and *)
(* every size of the subnet.                                               *)
(***************************************************************************)
EXTENDS DnsThread, TLAPS

(***************************************************************************)
(* The invariant.  Only the holder of the mutex is between its question    *)
(* and its answer, so at most one message is under way, and it is the      *)
(* question of the one who waits or its answer.  A name whose request does *)
(* not fit a message is never in the table; that is why refusing it is an  *)
(* answer the table could have given.                                      *)
(***************************************************************************)
Mutex == \A c \in Threads : at[c] \in {"send", "wait", "leave"} => lock = c

UnderWay(c) ==
    \/ req = <<ask[c]>> /\ resp = <<>>
    \/ req = <<>> /\ \E r \in Answers : resp = <<r>>

Messages ==
    /\ (\A c \in Threads : at[c] # "wait") => req = <<>> /\ resp = <<>>
    /\ \A c \in Threads : at[c] = "wait" => UnderWay(c) /\ ~TooLong(ask[c])

Fitting ==
    /\ \A a \in DOMAIN table : Length[table[a]] <= MsgMax
    /\ Len(table) <= Limit

DnsInv == DnsTypeOK /\ Mutex /\ Messages /\ Fitting

LEMMA ZeroIsAnAddress == 0 \in Addresses /\ 0 \in Answers
  BY LimitAssumption DEF Addresses, Answers, LimitAssumption

LEMMA Initially == DnsInit => DnsInv
  BY ZeroIsAnAddress, LimitAssumption
  DEF DnsInit, DnsInv, DnsTypeOK, Mutex, Messages, Fitting, GetName, Questions, Procs,
         LimitAssumption

\* The holder of the mutex is alone between its question and its answer.
LEMMA NothingUnderWay ==
    ASSUME DnsInv, NEW c \in Threads, at[c] \in {"send", "leave"}
    PROVE  /\ \A d \in Threads \ {c} : at[d] \in {"out", "enter"}
           /\ req = <<>> /\ resp = <<>>
<1>1. \A d \in Threads \ {c} : at[d] \in {"out", "enter"}
  BY DEF DnsInv, DnsTypeOK, Mutex
<1> QED
  BY <1>1 DEF DnsInv, Messages

LEMMA SendStep ==
    ASSUME DnsInv, NEW c \in Threads, Send(c)
    PROVE  DnsInv'
<1>1. /\ \A d \in Threads \ {c} : at[d] \in {"out", "enter"}
      /\ req = <<>> /\ resp = <<>>
  BY NothingUnderWay DEF Send, Move
<1>2. req' = <<ask[c]>> /\ ask[c] \in Questions
  BY <1>1 DEF Send, DnsInv, DnsTypeOK
<1>3. DnsTypeOK'
  BY <1>2 DEF Send, Move, DnsInv, DnsTypeOK
<1>4. Mutex'
  BY DEF Send, Move, DnsInv, DnsTypeOK, Mutex
<1>5. Messages'
  BY <1>1, <1>2 DEF Send, Move, DnsInv, DnsTypeOK, Messages, UnderWay, TooLong
<1> QED
  BY <1>3, <1>4, <1>5 DEF Send, DnsInv, Fitting

LEMMA RefuseStep ==
    ASSUME DnsInv, NEW c \in Threads, Refuse(c)
    PROVE  DnsInv'
<1>1. DnsTypeOK'
  BY ZeroIsAnAddress DEF Refuse, Move, DnsInv, DnsTypeOK
<1>2. Mutex'
  BY DEF Refuse, Move, DnsInv, DnsTypeOK, Mutex
<1>3. Messages'
  BY NothingUnderWay DEF Refuse, Move, DnsInv, DnsTypeOK, Messages, UnderWay, TooLong
<1> QED
  BY <1>1, <1>2, <1>3 DEF Refuse, DnsInv, Fitting

(***************************************************************************)
(* One answer of the thread: the message is the question of one waiting    *)
(* client, and its answer takes its place.                                 *)
(***************************************************************************)
LEMMA ServedOne ==
    ASSUME DnsInv, req # <<>>
    PROVE  \E c \in Threads : /\ at[c] = "wait" /\ req = <<ask[c]>> /\ resp = <<>>
                             /\ ~TooLong(ask[c]) /\ ask[c] \in Questions
                             /\ \A d \in Threads \ {c} : at[d] \in {"out", "enter"}
<1>1. PICK c \in Threads : at[c] = "wait"
  BY DEF DnsInv, Messages
<1>2. req = <<ask[c]>> /\ resp = <<>> /\ ~TooLong(ask[c]) /\ ask[c] \in Questions
  BY <1>1 DEF DnsInv, Messages, UnderWay, DnsTypeOK
<1>3. \A d \in Threads \ {c} : at[d] \in {"out", "enter"}
  BY <1>1 DEF DnsInv, DnsTypeOK, Mutex
<1> QED
  BY <1>1, <1>2, <1>3

LEMMA ReplyStep ==
    ASSUME DnsInv, NEW r \in Answers, req # <<>>, Reply(r),
           UNCHANGED <<lock, at, ask, got, home, gone>>, table' \in Seq(Names), Fitting'
    PROVE  DnsInv'
<1>1. PICK c \in Threads : /\ at[c] = "wait" /\ req = <<ask[c]>> /\ resp = <<>>
                          /\ ~TooLong(ask[c])
                          /\ \A d \in Threads \ {c} : at[d] \in {"out", "enter"}
  BY ServedOne
<1>2. req' = <<>> /\ resp' = <<r>>
  BY <1>1 DEF Reply
<1>3. DnsTypeOK'
  BY <1>2 DEF DnsInv, DnsTypeOK
<1>4. Mutex'
  BY DEF DnsInv, Mutex
<1>5. Messages'
  BY <1>1, <1>2 DEF DnsInv, Messages, UnderWay, TooLong
<1> QED
  BY <1>3, <1>4, <1>5 DEF DnsInv

LEMMA ServeStep ==
    ASSUME DnsInv, Serve
    PROVE  DnsInv'
<1>1. CASE ServeAborts
  BY <1>1 DEF ServeAborts, DnsInv, DnsTypeOK, Mutex, Messages, UnderWay, TooLong, Fitting, Procs
<1> SUFFICES ASSUME ~ServeAborts PROVE DnsInv'
  BY <1>1
<1>2. req # <<>> /\ UNCHANGED <<lock, at, ask, got, home, gone>>
  BY DEF Serve, ServeKnown, ServeNew, ServeNone, ServeName, Serving
<1>3. CASE ServeNew
  <2>1. PICK c \in Threads : req = <<ask[c]>> /\ ~TooLong(ask[c]) /\ ask[c] \in Questions
    BY <1>2, ServedOne
  <2>2. ask[c].type = "getip" /\ ask[c].name \in Names /\ Length[ask[c].name] <= MsgMax
    BY <1>3, <2>1, LengthAssumption
    DEF ServeNew, Serving, Questions, TooLong, LengthAssumption
  <2>3. table' = Append(table, ask[c].name) /\ Reply(Len(table) + 1) /\ table \in Seq(Names)
    BY <1>3, <2>1 DEF ServeNew, DnsInv, DnsTypeOK
  <2>4. Len(table) + 1 \in Answers
    BY <1>3, <2>3, LimitAssumption DEF ServeNew, Answers, Addresses, LimitAssumption
  <2>5. table' \in Seq(Names) /\ Fitting'
    <3>1. Len(table) < Limit /\ Limit \in Nat
      BY <1>3, LimitAssumption DEF ServeNew, LimitAssumption
    <3>2. /\ table' \in Seq(Names)
          /\ Len(table') = Len(table) + 1
          /\ \A a \in 1..Len(table) : table'[a] = table[a]
          /\ table'[Len(table) + 1] = ask[c].name
      BY <2>2, <2>3
    <3>3. \A a \in DOMAIN table' : Length[table'[a]] <= MsgMax
      BY <2>2, <2>3, <3>2 DEF DnsInv, Fitting
    <3> QED
      BY <2>3, <3>1, <3>2, <3>3 DEF Fitting
  <2> QED
    BY <1>2, <2>3, <2>4, <2>5, ReplyStep
<1>4. CASE ServeKnown \/ ServeNone \/ ServeName
  <2>1. table' = table /\ table \in Seq(Names) /\ Fitting'
    BY <1>4 DEF ServeKnown, ServeNone, ServeName, DnsInv, DnsTypeOK, Fitting
  <2>2. \E r \in Answers : Reply(r)
    <3>1. \A a \in DOMAIN table : a \in Answers /\ table[a] \in Answers
      BY <2>1, LimitAssumption DEF DnsInv, Fitting, Answers, Addresses, LimitAssumption
    <3>2. NoName \in Answers
      BY DEF Answers
    <3>3. CASE ServeKnown
      BY <3>1, <3>3 DEF ServeKnown
    <3>4. CASE ServeNone
      BY <3>4, ZeroIsAnAddress DEF ServeNone
    <3>5. CASE ServeName
      BY <3>1, <3>2, <3>5 DEF ServeName
    <3> QED
      BY <1>4, <3>3, <3>4, <3>5
  <2> QED
    BY <1>2, <2>1, <2>2, ReplyStep
<1> QED
  BY <1>3, <1>4 DEF Serve

LEMMA Step == DnsInv /\ [DnsNext]_dns => DnsInv'
<1> SUFFICES ASSUME DnsInv, [DnsNext]_dns PROVE DnsInv'
  OBVIOUS
<1>1. ASSUME NEW c \in Threads, NEW q \in Questions, Enter(c, q) PROVE DnsInv'
  BY <1>1 DEF Enter, Move, DnsInv, DnsTypeOK, Mutex, Messages, UnderWay, TooLong, Fitting
<1>2. ASSUME NEW c \in Threads, ClientStep(c) PROVE DnsInv'
  <2>1. CASE Acquire(c)
    BY <2>1, NoOneAssumption
    DEF Acquire, Move, DnsInv, DnsTypeOK, Mutex, Messages, UnderWay, TooLong, Fitting, NoOneAssumption
  <2>2. CASE Send(c)
    BY <2>2, SendStep
  <2>3. CASE Refuse(c)
    BY <2>3, RefuseStep
  <2>4. CASE SendAborts(c)
    BY <2>4 DEF SendAborts, DnsInv, DnsTypeOK, Mutex, Messages, UnderWay, TooLong, Fitting
  <2>5. CASE Receive(c)
    BY <2>5 DEF Receive, Move, DnsInv, DnsTypeOK, Mutex, Messages, UnderWay, TooLong, Fitting
  <2>6. CASE Release(c)
    BY <2>6 DEF Release, Move, DnsInv, DnsTypeOK, Mutex, Messages, UnderWay, TooLong, Fitting
  <2> QED
    BY <1>2, <2>1, <2>2, <2>3, <2>4, <2>5, <2>6 DEF ClientStep
<1>3. CASE Serve
  BY <1>3, ServeStep
<1>4. ASSUME NEW p \in Procs, Exits(p) PROVE DnsInv'
  BY <1>4 DEF Exits, DnsInv, DnsTypeOK, Mutex, Messages, UnderWay, TooLong, Fitting
<1>5. CASE UNCHANGED dns
  BY <1>5 DEF dns, DnsInv, DnsTypeOK, Mutex, Messages, UnderWay, TooLong, Fitting
<1> QED
  BY <1>1, <1>2, <1>3, <1>4, <1>5 DEF DnsNext

LEMMA Invariance == DnsSpec => []DnsInv
  BY Initially, Step, PTL DEF DnsSpec

-----------------------------------------------------------------------------
(***************************************************************************)
(* Each step is one of the name table, or none.                            *)
(***************************************************************************)
LEMMA EnterAsks ==
    ASSUME DnsInv, NEW c \in Threads, NEW q \in Questions, Enter(c, q)
    PROVE  Promised!Ask(c)
  BY DEF Enter, Move, DnsInv, DnsTypeOK, Call, Promised!Ask, Promised!Rest, Promised!Asked,
         Promised!Questions, Promised!Addresses, Questions, Addresses

LEMMA RefuseAnswers ==
    ASSUME DnsInv, NEW c \in Threads, Refuse(c)
    PROVE  Promised!Answer(c)
<1>1. ask[c].type = "getip" /\ \A i \in DOMAIN table : table[i] # ask[c].name
  BY LengthAssumption DEF Refuse, TooLong, DnsInv, DnsTypeOK, Fitting, Questions, LengthAssumption
<1>2. Promised!AddressOf(ask[c].name, 0)
  BY <1>1 DEF Refuse, Promised!AddressOf
<1>3. Call(c).phase = "asked" /\ Call(c).question = ask[c]
  BY DEF Refuse, Move, Call
<1>4. [d \in Threads |-> Call(d)]' =
        [[d \in Threads |-> Call(d)] EXCEPT ![c] = Promised!Told(ask[c], 0)]
  BY DEF Refuse, Move, DnsInv, DnsTypeOK, Call, Promised!Told
<1> QED
  BY <1>1, <1>2, <1>3, <1>4, ZeroIsAnAddress
  DEF Promised!Answer, Promised!Answers, Promised!Addresses, Answers, Addresses

LEMMA ReplyAnswers ==
    ASSUME DnsInv, Serve, ~ServeAborts
    PROVE  \E c \in Threads : Promised!Answer(c)
<1>1. req # <<>> /\ UNCHANGED <<lock, at, ask, got, home, gone>>
  BY DEF Serve, ServeKnown, ServeNew, ServeNone, ServeName, Serving
<1>2. PICK c \in Threads : /\ at[c] = "wait" /\ req = <<ask[c]>> /\ resp = <<>>
                          /\ ask[c] \in Questions
                          /\ \A d \in Threads \ {c} : at[d] \in {"out", "enter"}
  BY <1>1, ServedOne
<1>3. PICK r \in Answers :
        /\ Reply(r)
        /\ IF ask[c].type = "getip" THEN Promised!AddressOf(ask[c].name, r)
                                    ELSE Promised!NameOf(ask[c].ip, r)
  <2>1. CASE ServeKnown
    <3>1. PICK a \in DOMAIN table : table[a] = ask[c].name /\ Reply(a)
      BY <1>2, <2>1 DEF ServeKnown
    <3>2. a \in Answers /\ ask[c].type = "getip" /\ UNCHANGED table
      BY <1>2, <2>1, LimitAssumption
      DEF ServeKnown, Serving, DnsInv, DnsTypeOK, Fitting, Answers, Addresses, LimitAssumption
    <3> QED
      BY <3>1, <3>2 DEF Promised!AddressOf
  <2>2. CASE ServeNew
    <3>1. Len(table) + 1 \in Answers
      BY <2>2, LimitAssumption
      DEF ServeNew, DnsInv, DnsTypeOK, Answers, Addresses, LimitAssumption
    <3> QED
      BY <1>2, <2>2, <3>1 DEF ServeNew, Serving, New, Promised!AddressOf
  <2>3. CASE ServeNone
    BY <1>2, <2>3, ZeroIsAnAddress DEF ServeNone, Serving, New, Promised!AddressOf
  <2>4. CASE ServeName
    <3>1. \A a \in DOMAIN table : table[a] \in Answers
      BY DEF DnsInv, DnsTypeOK, Answers
    <3>2. ask[c].type = "getname" /\ NoName \in Answers
      BY <1>2, <2>4 DEF ServeName, Serving, Answers
    <3> QED
      BY <1>2, <2>4, <3>1, <3>2 DEF ServeName, Promised!NameOf
  <2> QED
    BY <2>1, <2>2, <2>3, <2>4 DEF Serve
<1>4. resp' = <<r>>
  BY <1>2, <1>3 DEF Reply
<1>5. Call(c).phase = "asked" /\ Call(c).question = ask[c]
  BY <1>2 DEF Call
<1>6. [d \in Threads |-> Call(d)]' =
        [[d \in Threads |-> Call(d)] EXCEPT ![c] = Promised!Told(ask[c], r)]
  <2>1. \A d \in Threads \ {c} : Call(d)' = Call(d)
    BY <1>1, <1>2 DEF Call
  <2>2. Call(c)' = Promised!Told(ask[c], r)
    BY <1>1, <1>2, <1>4 DEF Call, Promised!Told
  <2> QED
    BY <2>1, <2>2
<1> QED
  BY <1>3, <1>5, <1>6
  DEF Promised!Answer, Promised!Answers, Promised!Addresses, Answers, Addresses

LEMMA Simulation == DnsInv /\ [DnsNext]_dns => [Promised!Next]_(Promised!vars)
<1> SUFFICES ASSUME DnsInv, [DnsNext]_dns PROVE [Promised!Next]_(Promised!vars)
  OBVIOUS
<1> USE DEF Promised!Next, Promised!vars
<1>1. ASSUME NEW c \in Threads, NEW q \in Questions, Enter(c, q)
      PROVE  Promised!Next
  BY <1>1, EnterAsks
<1>2. ASSUME NEW c \in Threads, ClientStep(c) PROVE [Promised!Next]_(Promised!vars)
  <2>1. CASE Acquire(c)
    BY <2>1 DEF Acquire, Move, DnsInv, DnsTypeOK, Call
  <2>2. CASE Send(c)
    <3>1. resp = <<>> /\ \A d \in Threads \ {c} : at[d] \in {"out", "enter"}
      BY <2>2, NothingUnderWay DEF Send, Move
    <3> QED
      BY <2>2, <3>1 DEF Send, Move, DnsInv, DnsTypeOK, Call
  <2>3. CASE Refuse(c)
    BY <2>3, RefuseAnswers
  <2>4. CASE SendAborts(c)
    BY <2>4 DEF SendAborts, Call
  <2>5. CASE Receive(c)
    <3>1. \A d \in Threads \ {c} : at[d] \in {"out", "enter"}
      BY <2>5 DEF Receive, Move, DnsInv, DnsTypeOK, Mutex
    <3>2. \A d \in Threads \ {c} : Call(d)' = Call(d)
      BY <2>5, <3>1 DEF Receive, Move, DnsInv, DnsTypeOK, Call
    <3>3. Call(c)' = Call(c)
      BY <2>5 DEF Receive, Move, DnsInv, DnsTypeOK, Call
    <3> QED
      BY <2>5, <3>2, <3>3 DEF Receive
  <2>6. CASE Release(c)
    BY <2>6 DEF Release, Move, DnsInv, DnsTypeOK, Call, Promised!Return, Promised!Rest
  <2> QED
    BY <1>2, <2>1, <2>2, <2>3, <2>4, <2>5, <2>6 DEF ClientStep
<1>3. CASE ServeAborts
  BY <1>3 DEF ServeAborts, Call
<1>4. CASE Serve /\ ~ServeAborts
  BY <1>4, ReplyAnswers
<1>5. ASSUME NEW p \in Procs, Exits(p) PROVE UNCHANGED Promised!vars
  BY <1>5 DEF Exits, Call
<1>6. CASE UNCHANGED dns
  BY <1>6 DEF dns, Call
<1> QED
  BY <1>1, <1>2, <1>3, <1>4, <1>5, <1>6 DEF DnsNext

\* The thread, the mutex and the pipes together answer like one table of names, whatever
\* thread or process ends in the middle of a question, and whatever length a name has
\* (src/tools/proxychains-ng/src/allocator_thread.c:267-300).
THEOREM Implements == DnsSpec => PromisedSpec
<1>1. DnsInit => Promised!Init
  BY DEF DnsInit, Call, Promised!Init, Promised!Rest
<1> QED
  BY <1>1, Invariance, Simulation, PTL DEF DnsSpec, PromisedSpec, Promised!Spec
=============================================================================
