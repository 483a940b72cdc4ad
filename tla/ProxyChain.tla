----------------------------- MODULE ProxyChain -----------------------------
(***************************************************************************)
(* connect_proxy_chain of proxychains-ng (src/core.c): a connect of the    *)
(* wrapped program is led through the proxies of the list, chosen by the   *)
(* chain type.  The state of each proxy and the round robin offset belong  *)
(* to the process; its threads share them without a lock.                  *)
(*                                                                         *)
(* One action is one call that reads or writes that state: calc_alive,     *)
(* select_proxy, start_chain, chain_step, release_all.  Whether a proxy    *)
(* answers is up to the network at every attempt.                          *)
(***************************************************************************)
EXTENDS Naturals, Sequences, FiniteSets

CONSTANTS
    Threads,    \* threads that connect
    Configs,    \* configuration files to consider
    RRLoopMax,  \* rr_loop_max
    MaxHops     \* bound: no chain is longer (threads that overlap may repeat proxies)

Types == {"dynamic", "strict", "random", "round_robin"}

\* proxychains_ct, proxychains_proxy_count and proxychains_max_chain
ConfigType == [ct : Types, count : Nat \ {0}, max : Nat \ {0}]

VARIABLES
    home,    \* the process of each thread: a forked child has a list of its own
    conf,    \* what get_chain_data read
    ps,      \* state of each proxy, per process
    rr,      \* proxychains_proxy_offset, per process
    pc,      \* where a thread is in connect_proxy_chain
    offset,  \* its offset
    cur,     \* the proxy it selected last
    hops,    \* the proxies its connection goes through
    looped,  \* its looped
    rc,      \* what its connect returned
    alone    \* history: no other connect of the process has overlapped this one

lists == <<ps, rr>>
walk == <<offset, cur, hops, looped>>
vars == <<home, conf, lists, pc, walk, rc, alone>>

Procs == {"parent", "child"}
Count == conf.count
Proxies == 0..Count - 1
States == {"play", "down", "blocked", "busy"}

\* Every variable has the values the code can give it.
TypeOK ==
    /\ home \in [Threads -> Procs]
    /\ conf \in Configs
    /\ ps \in [Procs -> [Proxies -> States]]
    /\ rr \in [Procs -> 0..Count]
    /\ pc \in [Threads -> {"idle", "calc", "first", "start", "next", "step", "target",
                           "fail", "done"}]
    /\ offset \in [Threads -> 0..Count]
    /\ cur \in [Threads -> Proxies]
    /\ hops \in [Threads -> Seq(Proxies)]
    /\ looped \in [Threads -> 0..RRLoopMax + 1]
    /\ rc \in [Threads -> {"none", "ok", "refused", "timeout"}]
    /\ alone \in [Threads -> BOOLEAN]

Init ==
    /\ home \in [Threads -> Procs]
    /\ conf \in Configs
    /\ ps = [p \in Procs |-> [i \in Proxies |-> "play"]]
    /\ rr = [p \in Procs |-> 0]
    /\ pc = [t \in Threads |-> "idle"]
    /\ offset = [t \in Threads |-> 0]
    /\ cur = [t \in Threads |-> 0]
    /\ hops = [t \in Threads |-> <<>>]
    /\ looped = [t \in Threads |-> 0]
    /\ rc = [t \in Threads |-> "none"]
    /\ alone = [t \in Threads |-> FALSE]

Go(t, l) == pc' = [pc EXCEPT ![t] = l]
State(t) == ps[home[t]]
Mark(t, i, s) == ps' = [ps EXCEPT ![home[t]][i] = s]
Playing(t) == {i \in Proxies : State(t)[i] = "play"}

-----------------------------------------------------------------------------
(***************************************************************************)
(* select_proxy.  FIFOLY takes the first proxy from the offset on that is  *)
(* in play; when there is none it still gives the first of the list if     *)
(* that is in play, and leaves the offset where it was.                    *)
(***************************************************************************)
FromOffset(t) == {i \in Playing(t) : i >= offset[t]}

First(S) == CHOOSE i \in S : \A j \in S : i <= j

\* Mutant of Fifo: proxies in use are taken as well.
FifoBusy(t, i, o) ==
    /\ offset[t] < Count
    /\ i = offset[t] /\ o = offset[t]

Fifo(t, i, o) ==
    /\ offset[t] < Count
    /\ \/ FromOffset(t) # {} /\ i = First(FromOffset(t)) /\ o = i
       \/ FromOffset(t) = {} /\ State(t)[0] = "play" /\ i = 0 /\ o = offset[t]

NoFifo(t) == offset[t] >= Count \/ (FromOffset(t) = {} /\ State(t)[0] # "play")

\* RANDOMLY draws again up to 100 times per proxy: it may give up although one is in play.
NoRandom(t) == Playing(t) # Proxies

Select(t, l) ==
    /\ \E i \in Proxies, o \in 0..Count - 1 :
        /\ IF conf.ct = "random" THEN i \in Playing(t) /\ o = offset[t] ELSE Fifo(t, i, o)
        /\ cur' = [cur EXCEPT ![t] = i]
        /\ offset' = [offset EXCEPT ![t] = o]
    /\ Go(t, l)

NoneSelected(t) == IF conf.ct = "random" THEN NoRandom(t) ELSE NoFifo(t)

-----------------------------------------------------------------------------
Connect(t) ==
    /\ pc[t] = "idle"
    /\ Go(t, "calc")
    /\ alone' = [u \in Threads |->
            IF u = t THEN \A v \in Threads \ {t} : home[v] = home[t] => pc[v] = "idle"
            ELSE alone[u] /\ home[u] # home[t]]
    /\ UNCHANGED <<home, conf, lists, walk, rc>>

\* calc_alive, at `again`: release_busy, and for two of the types a first look at the number.
Released(t) == [i \in Proxies |-> IF State(t)[i] = "busy" THEN "play" ELSE State(t)[i]]

\* Mutant of CalcAlive: every chain starts at the start of the list.
CalcAliveFromStart(t) ==
    /\ pc[t] = "calc"
    /\ ps' = [ps EXCEPT ![home[t]] = Released(t)]
    /\ offset' = [offset EXCEPT ![t] = 0]
    /\ Go(t, IF /\ conf.ct \in {"round_robin", "random"}
                /\ Cardinality({i \in Proxies : Released(t)[i] = "play"}) < conf.max
             THEN "fail" ELSE "first")
    /\ hops' = [hops EXCEPT ![t] = <<>>]
    /\ UNCHANGED <<home, conf, rr, cur, looped, rc, alone>>

CalcAlive(t) ==
    /\ pc[t] = "calc"
    /\ ps' = [ps EXCEPT ![home[t]] = Released(t)]
    /\ offset' = [offset EXCEPT ![t] = IF conf.ct = "round_robin" THEN rr[home[t]] ELSE 0]
    /\ Go(t, IF /\ conf.ct \in {"round_robin", "random"}
                /\ Cardinality({i \in Proxies : Released(t)[i] = "play"}) < conf.max
             THEN "fail" ELSE "first")
    /\ hops' = [hops EXCEPT ![t] = <<>>]
    /\ UNCHANGED <<home, conf, rr, cur, looped, rc, alone>>

SelectFirst(t) ==
    /\ pc[t] = "first"
    /\ Select(t, "start")
    /\ UNCHANGED <<home, conf, lists, hops, looped, rc, alone>>

\* Mutant of NoFirst: round robin goes round without end.
NoFirstEndless(t) ==
    /\ pc[t] = "first"
    /\ NoneSelected(t)
    /\ IF conf.ct = "round_robin"
       THEN /\ offset' = [offset EXCEPT ![t] = 0]
            /\ looped' = [looped EXCEPT ![t] = @ + 1]
            /\ ps' = [ps EXCEPT ![home[t]] = [i \in Proxies |-> "play"]]
            /\ UNCHANGED <<pc, rr>>
       ELSE Go(t, "fail") /\ UNCHANGED <<lists, offset, looped>>
    /\ UNCHANGED <<home, conf, cur, hops, rc, alone>>

\* No first proxy.  Round robin goes to the start of the list, all proxies in play again.
NoFirst(t) ==
    /\ pc[t] = "first"
    /\ NoneSelected(t)
    /\ IF conf.ct = "round_robin"
       THEN /\ offset' = [offset EXCEPT ![t] = 0]
            /\ looped' = [looped EXCEPT ![t] = @ + 1]
            /\ IF looped[t] + 1 > RRLoopMax
               THEN rr' = [rr EXCEPT ![home[t]] = 0] /\ Go(t, "fail") /\ UNCHANGED ps
               ELSE /\ ps' = [ps EXCEPT ![home[t]] = [i \in Proxies |-> "play"]]
                    /\ UNCHANGED <<pc, rr>>
       ELSE Go(t, "fail") /\ UNCHANGED <<lists, offset, looped>>
    /\ UNCHANGED <<home, conf, cur, hops, rc, alone>>

(***************************************************************************)
(* start_chain.  Without a socket the state of the proxy is left alone:    *)
(* three of the types then select it again.  The strict chain gives up.    *)
(***************************************************************************)
StartChain(t) ==
    /\ pc[t] = "start"
    /\ \/ /\ Mark(t, cur[t], "busy")
          /\ hops' = [hops EXCEPT ![t] = <<cur[t]>>]
          /\ Go(t, "next")
       \/ /\ Mark(t, cur[t], "down") \/ UNCHANGED ps
          /\ Go(t, IF conf.ct = "strict" THEN "fail" ELSE "first")
          /\ UNCHANGED hops
    /\ UNCHANGED <<home, conf, rr, offset, cur, looped, rc, alone>>

\* The chain of these two types ends at its length, of the others at the end of the list.
Full(t) == conf.ct \in {"round_robin", "random"} /\ Len(hops[t]) >= conf.max

SelectNext(t) ==
    /\ pc[t] = "next"
    /\ ~Full(t)
    /\ Len(hops[t]) < MaxHops
    /\ Select(t, "step")
    /\ UNCHANGED <<home, conf, lists, hops, looped, rc, alone>>

NoNext(t) ==
    /\ pc[t] = "next"
    /\ ~Full(t)
    /\ NoneSelected(t)
    /\ CASE conf.ct = "round_robin" -> offset' = [offset EXCEPT ![t] = 0] /\ UNCHANGED pc
         [] conf.ct = "random" -> Go(t, "fail") /\ UNCHANGED offset
         [] OTHER -> Go(t, "target") /\ UNCHANGED offset
    /\ UNCHANGED <<home, conf, lists, cur, hops, looped, rc, alone>>

\* The chain is complete; round robin notes where the next one starts.
Filled(t) ==
    /\ pc[t] = "next"
    /\ Full(t)
    /\ rr' = IF conf.ct = "round_robin" THEN [rr EXCEPT ![home[t]] = offset[t] + 1] ELSE rr
    /\ Go(t, "target")
    /\ UNCHANGED <<home, conf, ps, walk, rc, alone>>

\* chain_step to another proxy: a strict chain fails with it, the others start again.
ChainStep(t) ==
    /\ pc[t] = "step"
    /\ \/ /\ Mark(t, cur[t], "busy")
          /\ hops' = [hops EXCEPT ![t] = Append(@, cur[t])]
          /\ Go(t, "next")
       \/ /\ Mark(t, cur[t], "down") \/ Mark(t, cur[t], "blocked")
          /\ Go(t, IF conf.ct = "strict" THEN "fail" ELSE "calc")
          /\ UNCHANGED hops
    /\ UNCHANGED <<home, conf, rr, offset, cur, looped, rc, alone>>

\* chain_step to the target, a proxy_data of the call's own: the list is left as it is.
Target(t, ok) ==
    /\ pc[t] = "target"
    /\ rc' = [rc EXCEPT ![t] = IF ok THEN "ok" ELSE "refused"]
    /\ Go(t, "done")
    /\ UNCHANGED <<home, conf, lists, walk, alone>>

\* Mutant of Fail: the proxies found down stay down.
FailKeepsDown(t) ==
    /\ pc[t] = "fail"
    /\ rc' = [rc EXCEPT ![t] = "timeout"]
    /\ Go(t, "done")
    /\ UNCHANGED <<home, conf, lists, walk, alone>>

\* error_more, error_strict: release_all.
Fail(t) ==
    /\ pc[t] = "fail"
    /\ ps' = [ps EXCEPT ![home[t]] = [i \in Proxies |-> "play"]]
    /\ rc' = [rc EXCEPT ![t] = "timeout"]
    /\ Go(t, "done")
    /\ UNCHANGED <<home, conf, rr, walk, alone>>

\* connect returns to the program.
Return(t) ==
    /\ pc[t] = "done"
    /\ Go(t, "idle")
    /\ offset' = [offset EXCEPT ![t] = 0]
    /\ cur' = [cur EXCEPT ![t] = 0]
    /\ hops' = [hops EXCEPT ![t] = <<>>]
    /\ looped' = [looped EXCEPT ![t] = 0]
    /\ rc' = [rc EXCEPT ![t] = "none"]
    /\ alone' = [alone EXCEPT ![t] = FALSE]
    /\ UNCHANGED <<home, conf, lists>>

Step(t) ==
    \/ CalcAlive(t) \/ SelectFirst(t) \/ NoFirst(t) \/ StartChain(t)
    \/ SelectNext(t) \/ NoNext(t) \/ Filled(t) \/ ChainStep(t) \/ Fail(t)

Next == \E t \in Threads : Connect(t) \/ Step(t) \/ Return(t) \/ \E ok \in BOOLEAN : Target(t, ok)

Spec == Init /\ [][Next]_vars

-----------------------------------------------------------------------------
\* A connect about to reach its target that no other connect of the process overlapped.
LoneChain(t) == alone[t] /\ pc[t] = "target"

\* A lone strict chain that reaches its target goes through every proxy of the list, in
\* the order of the list, whatever earlier connects met (proxychains.conf, "all proxies
\* chained in the order as they appear in the list, all proxies must be online").
StrictIsWhole ==
    \A t \in Threads : conf.ct = "strict" /\ LoneChain(t) =>
        hops[t] = [i \in 1..Count |-> i - 1]

\* A lone chain goes through no proxy twice, and a dynamic one keeps the order of the list
\* ("all proxies chained in the order as they appear in the list, dead proxies are
\* skipped").
NoProxyTwice ==
    \A t \in Threads : LoneChain(t) =>
        \A i, j \in DOMAIN hops[t] : i < j =>
            hops[t][i] # hops[t][j] /\ (conf.ct = "dynamic" => hops[t][i] < hops[t][j])

\* Round robin chains start where the last one noted, or at the start of the list once all
\* proxies were found down; the list goes round.
Starts(t) == {rr[home[t]]} \cup IF looped[t] = 0 THEN {} ELSE {0}
Ahead(a, i) == IF i >= a THEN i - a ELSE i + Count - a

\* From place a on, the chain has taken the proxies in the order of the list, and none that
\* is in play was left out.
InTurn(t, a) ==
    \A j \in DOMAIN hops[t] :
        /\ \A k \in DOMAIN hops[t] : j < k => Ahead(a, hops[t][j]) < Ahead(a, hops[t][k])
        /\ \A i \in Playing(t) : Ahead(a, hops[t][j]) < Ahead(a, i)

\* A lone round robin chain takes chain_len proxies in the order of the list, from the place
\* the process noted, on to the end and round to the start, and skips none that is in play
\* ("all proxies chained in the order as they appear in the list (dead proxies are skipped)
\* ... if the end of the proxy chain is reached ... start at the beginning again").  The
\* noted place is not always the one after the last proxy of the chain before: see README.
RoundRobinInTurn ==
    \A t \in Threads : conf.ct = "round_robin" /\ alone[t] =>
        /\ pc[t] = "next" => \E a \in Starts(t) : InTurn(t, a)
        /\ pc[t] = "target" => Len(hops[t]) = conf.max
=============================================================================
