----------------------------- MODULE Proxified -----------------------------
(***************************************************************************)
(* A program run under proxychains-ng, as proxy.exec does (zsh/zshrc): its *)
(* threads and those of a forked child resolve host names (DnsThread) and  *)
(* connect to what they got (ProxyChain).  The last proxy is told the name *)
(* the address was given to, for which the table is asked again.  Without  *)
(* proxy_dns in the configuration file nobody asks the table.              *)
(***************************************************************************)
EXTENDS DnsThread, FiniteSets

CONSTANTS
    Main,                       \* the first thread of the parent
    Configs, RRLoopMax, MaxHops \* of ProxyChain

ASSUME MainAssumption == Main \in Threads
ASSUME BoundsAssumption == RRLoopMax \in Nat /\ MaxHops \in Nat

VARIABLES
    conf, ps, rr, pc, offset, cur, hops, looped, rc, alone,  \* ProxyChain
    wanted,  \* the name a thread resolved, NoName for an address of its own
    dest     \* the address it connects to; 0 is one outside the subnet

Chain == INSTANCE ProxyChain

ASSUME ConfigsAssumption ==
    \A f \in Configs :
        f.dns \in BOOLEAN /\ [ct |-> f.ct, count |-> f.count, max |-> f.max] \in Chain!ConfigType

chain == <<conf, ps, rr, pc, offset, cur, hops, looped, rc, alone>>
vars == <<dns, chain, wanted, dest>>

\* Every variable has the values the code can give it.
TypeOK ==
    /\ DnsTypeOK
    /\ Chain!TypeOK
    /\ wanted \in [Threads -> Names \cup {NoName}]
    /\ dest \in [Threads -> 0..Limit]

\* The main thread is the parent's.  Processes that do not share a table share nothing.
Init ==
    /\ DnsInit
    /\ Chain!Init
    /\ \A t \in Threads : t = Main \/ ~conf.dns => home[t] = "parent"
    /\ wanted = [t \in Threads |-> NoName]
    /\ dest = [t \in Threads |-> 0]

Idle(t) == home[t] \notin gone /\ at[t] = "out" /\ pc[t] = "idle"

\* getaddrinfo, gethostbyname: proxy_gethostbyname asks for an address.
Resolve(t, n) ==
    /\ Idle(t) /\ wanted[t] = NoName /\ conf.dns
    /\ Enter(t, GetIp(n))
    /\ wanted' = [wanted EXCEPT ![t] = n]
    /\ UNCHANGED <<chain, dest>>

\* IPT4_INVALID is reported as an unknown name.
NotResolved(t) ==
    /\ Idle(t) /\ wanted[t] # NoName /\ got[t] = 0
    /\ wanted' = [wanted EXCEPT ![t] = NoName]
    /\ UNCHANGED <<dns, chain, dest>>

\* connect, to the address that was resolved or to one the program brought along.
Connect(t) ==
    /\ Idle(t) /\ (wanted[t] # NoName => got[t] # 0)
    /\ Chain!Connect(t)
    /\ dest' = [dest EXCEPT ![t] = IF wanted[t] = NoName THEN 0 ELSE got[t]]
    /\ UNCHANGED <<dns, wanted>>

\* tunnel_to: an address of the subnet is turned back into its name.
AskName(t) ==
    /\ pc[t] = "target" /\ dest[t] # 0
    /\ ask[t].type = "getip"
    /\ Enter(t, GetName(dest[t]))
    /\ UNCHANGED <<chain, wanted, dest>>

\* What the last proxy can be told: nothing when the lookup gave nothing.
Known(t) == dest[t] = 0 \/ (ask[t].type = "getname" /\ at[t] = "out")

Reach(t) ==
    /\ Known(t) /\ home[t] \notin gone
    /\ \E ok \in BOOLEAN : Chain!Target(t, ok) /\ (ok => dest[t] = 0 \/ got[t] # NoName)
    /\ UNCHANGED <<dns, wanted, dest>>

Return(t) ==
    /\ home[t] \notin gone
    /\ Chain!Return(t)
    /\ wanted' = [wanted EXCEPT ![t] = NoName]
    /\ dest' = [dest EXCEPT ![t] = 0]
    /\ ask' = [ask EXCEPT ![t] = GetName(0)]
    /\ got' = [got EXCEPT ![t] = 0]
    /\ UNCHANGED <<table, lock, req, resp, at, gone>>

Next ==
    \/ \E t \in Threads :
        \/ \E n \in Names : Resolve(t, n)
        \/ NotResolved(t) \/ Connect(t) \/ AskName(t) \/ Reach(t) \/ Return(t)
        \/ ClientStep(t) /\ UNCHANGED <<chain, wanted, dest>>
        \/ home[t] \notin gone /\ Chain!Step(t) /\ UNCHANGED <<dns, wanted, dest>>
    \/ Serve /\ UNCHANGED <<chain, wanted, dest>>
    \/ \E p \in Procs : conf.dns /\ Exits(p) /\ UNCHANGED <<chain, wanted, dest>>

Spec == Init /\ [][Next]_vars

-----------------------------------------------------------------------------
StrictIsWhole == Chain!StrictIsWhole
NoProxyTwice == Chain!NoProxyTwice
RoundRobinInTurn == Chain!RoundRobinInTurn

\* The name the last proxy is told is the one the thread resolved, whoever else resolved
\* names in between, in this process or in the child (core.c:199-205).
RightName ==
    \A t \in Threads : pc[t] = "done" /\ rc[t] = "ok" /\ wanted[t] # NoName => got[t] = wanted[t]
=============================================================================
