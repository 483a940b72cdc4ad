------------------------- MODULE SlurmTunnelProofs -------------------------
(***************************************************************************)
(* Of SlurmTunnel, for every number of shells, processes, login nodes and  *)
(* ports: no shell signals a process it has not known for a tunnel, what   *)
(* proxy.on and proxy.off promise when they report success, and type       *)
(* correctness.                                                            *)
(***************************************************************************)
EXTENDS SlurmTunnel, FiniteSetTheorems, TLAPS

(***************************************************************************)
(* The invariant.  BystandersSafe looks at a list about to be signalled;   *)
(* what has to be kept is that every pid a shell holds, in a list or as    *)
(* the recorded pid it is about to put into one, belongs to a tunnel or    *)
(* was given away while the shell held it.                                 *)
(***************************************************************************)
PidsOK ==
    /\ kind \in [Pids -> Kinds \cup {"none"}]
    /\ after \in [Pids -> SUBSET Shells]
    /\ seen \in [Shells -> SUBSET Pids]
    /\ val \in [Shells -> Pids \cup {NoPid}]
    /\ have \in [Shells -> Pids \cup {NoPid}]
    /\ pidFile \in Pids \cup {NoPid}

Holds(c, p) == p \in seen[c] \/ val[c] = p

Held ==
    \A c \in Shells : \A p \in Pids :
        Holds(c, p) /\ kind[p] = "foreign" => c \in after[p]

Safe == PidsOK /\ Held

LEMMA Initially == Init => Safe
<1> SUFFICES ASSUME Init PROVE Safe
  OBVIOUS
<1>1. kind \in [Pids -> Kinds \cup {"none"}]
  <2>1. kind \in [Pids -> Initial \cup {"none"}]
    BY DEF Init
  <2>2. Initial \cup {"none"} \subseteq Kinds \cup {"none"}
    BY InitialAssumption DEF InitialAssumption
  <2> QED
    BY <2>1, <2>2
<1>2. /\ after = [p \in Pids |-> {}]
      /\ seen = [c \in Shells |-> {}]
      /\ val = [c \in Shells |-> NoPid]
      /\ have = [c \in Shells |-> NoPid]
      /\ pidFile \in Pids \cup {NoPid}
  BY DEF Init
<1> QED
  BY <1>1, <1>2, PidsAssumption DEF Safe, PidsOK, Held, Holds, PidsAssumption

\* What the looks of stop_all print: listed processes, and the recorded pid read before.
LEMMA TheLook ==
    ASSUME Safe, NEW c \in Shells, Look(c), UNCHANGED <<kind, after, pidFile, have>>
    PROVE  Safe'
  BY PidsAssumption DEF Safe, PidsOK, Held, Holds, Look, Listed, Marked, PidsAssumption

\* Processes end and the shell puts its list down.
LEMMA TheEnd ==
    ASSUME Safe, NEW S \in SUBSET Pids, Ended(S), UNCHANGED <<pidFile, val, have>>,
           seen' = seen \/ \E c \in Shells : seen' = [seen EXCEPT ![c] = {}]
    PROVE  Safe'
  BY PidsAssumption DEF Safe, PidsOK, Held, Holds, Ended, PidsAssumption

\* A process starts: whoever has its pid in hand is noted.
LEMMA TheBirth ==
    ASSUME Safe, NEW p \in Pids, NEW k \in Kinds, NEW m, Born(p, k, m),
           UNCHANGED <<pidFile, val, have, seen>>
    PROVE  Safe'
  BY DEF Safe, PidsOK, Held, Holds, Born, Kinds

\* The signals of Term and Kill go to processes.
LEMMA SignalsGoToPids ==
    ASSUME Safe, NEW c \in Shells
    PROVE  Signalled(c) \subseteq Pids
  BY DEF Safe, PidsOK, Signalled

LEMMA TheForget ==
    ASSUME Safe, NEW c \in Shells, Forget(c)
    PROVE  Safe'
  BY PidsAssumption DEF Safe, PidsOK, Held, Holds, Forget, files, PidsAssumption

LEMMA SafeStep == Safe /\ [Next]_vars => Safe'
<1> SUFFICES ASSUME Safe, [Next]_vars PROVE Safe'
  OBVIOUS
<1>1. ASSUME NEW c \in Shells, NEW o \in {"on", "off"}, Begin(c, o) PROVE Safe'
  BY <1>1 DEF Begin, Safe, PidsOK, Held, Holds, procs, files
<1>2. ASSUME NEW c \in Shells, Step(c) PROVE Safe'
  <2>1. CASE ReadState(c)
    BY <2>1, PidsAssumption
    DEF Safe, PidsOK, Held, Holds, ReadState, StateValid, Marked, procs, files, PidsAssumption
  <2>2. CASE ClearState(c)
    BY <2>2 DEF Safe, PidsOK, Held, Holds, ClearState, ClearFiles, procs, locals
  <2>3. CASE Find(c)
    BY <2>3, PidsAssumption
    DEF Safe, PidsOK, Held, Holds, Find, Found, FoundPids, Tunnels, procs, files, PidsAssumption
  <2>4. CASE List(c)
    BY <2>4, TheLook DEF List, procs, files
  <2>5. CASE Term(c)
    <3>1. PICK hang \in SUBSET (Signalled(c) \cap OwnTunnels) : Ended(Signalled(c) \ hang)
      BY <2>5 DEF Term
    <3>2. Signalled(c) \ hang \in SUBSET Pids
      BY SignalsGoToPids
    <3> QED
      BY <2>5, <3>1, <3>2, TheEnd DEF Term, files
  <2>6. CASE Relist(c)
    BY <2>6, TheLook DEF Relist, procs, files
  <2>7. CASE Kill(c)
    BY <2>7, SignalsGoToPids, TheEnd DEF Kill, files
  <2>8. CASE LastLook(c)
    BY <2>8, PidsAssumption
    DEF Safe, PidsOK, Held, Holds, LastLook, procs, files, PidsAssumption
  <2>9. CASE Unlink(c)
    BY <2>9 DEF Safe, PidsOK, Held, Holds, Unlink, ClearFiles, procs
  <2>10. CASE Spawn(c)
    <3>1. CASE UNCHANGED procs
      BY <2>10, <3>1 DEF Safe, PidsOK, Held, Holds, Spawn, procs, files
    <3>2. ASSUME NEW p \in Pids, Born(p, "managed", <<Candidates[nth[c]], mine[c]>>)
          PROVE  Safe'
      BY <2>10, <3>2, TheBirth DEF Spawn, files, Kinds
    <3> QED
      BY <2>10, <3>1, <3>2 DEF Spawn
  <2>11. CASE Identify(c)
    BY <2>11, PidsAssumption
    DEF Safe, PidsOK, Held, Holds, Identify, Found, FoundPids, Tunnels, procs, files,
        PidsAssumption
  <2>12. CASE RecordCommand(c)
    BY <2>12 DEF Safe, PidsOK, Held, Holds, RecordCommand, NotRecorded, ClearFiles, procs, files
  <2>13. CASE RecordPid(c)
    BY <2>13 DEF Safe, PidsOK, Held, Holds, RecordPid, NotRecorded, ClearFiles, procs
  <2> QED
    BY <1>2, <2>1, <2>2, <2>3, <2>4, <2>5, <2>6, <2>7, <2>8, <2>9, <2>10, <2>11, <2>12, <2>13
    DEF Step
<1>3. ASSUME NEW c \in Shells, Finish(c) \/ Interrupt(c) PROVE Safe'
  BY <1>3, TheForget DEF Finish, Interrupt
<1>4. ASSUME NEW p \in Pids, Dies(p) PROVE Safe'
  BY <1>4, TheEnd DEF Dies, files, shells, locals
<1>5. ASSUME NEW p \in Pids, ForeignStarts(p) PROVE Safe'
  BY <1>5, TheBirth DEF ForeignStarts, files, shells, locals, Kinds
<1>6. CASE UNCHANGED vars
  BY <1>6 DEF Safe, PidsOK, Held, Holds, vars, procs, files, locals
<1> QED
  BY <1>1, <1>2, <1>3, <1>4, <1>5, <1>6 DEF Next

\* A process that is about to be signalled is a tunnel, or got its pid while this shell
\* already held it (stop_all, zshrc:1028-1094): no autossh of anybody else is ever listed.
THEOREM TunnelsOnly == Spec => []BystandersSafe
<1>1. Safe => BystandersSafe
  BY DEF Safe, PidsOK, Held, Holds, BystandersSafe
<1> QED
  BY <1>1, Initially, SafeStep, PTL DEF Spec

-----------------------------------------------------------------------------
(***************************************************************************)
(* What proxy.on and proxy.off promise when they report success.  A        *)
(* command that is `clean` has run alone with complete looks; Alone says   *)
(* what such a command knows of the tunnels at each place.                 *)
(***************************************************************************)
Control ==
    /\ kind \in [Pids -> Kinds \cup {"none"}]
    /\ pc \in [Shells -> Labels]
    /\ then \in [Shells -> {"idle", "find", "identify", "list", "relist", "last"}]
    /\ back \in [Shells -> {"idle", "kept", "fresh", "gaveup", "off"}]
    /\ st \in [Shells -> 0..1]
    /\ op \in [Shells -> {"none", "on", "off"}]
    /\ clean \in [Shells -> BOOLEAN]

\* proxy.off is nothing but one call of stop_all.
OffStops ==
    \A c \in Shells : op[c] = "off" =>
        /\ back[c] = "off"
        /\ pc[c] \in {"state", "clear", "list", "term", "relist", "kill", "last", "unlink",
            "done"}
        /\ pc[c] \in {"state", "clear"} => then[c] \in {"list", "relist", "last"}

NoTunnel == \A p \in Pids : kind[p] \notin {"managed", "legacy"}
OneTunnel == \A p, q \in OwnTunnels : p = q

\* From the start of autossh on, and where a tunnel is recorded.
Chosen(c) ==
    \/ pc[c] \in {"identify", "rec_cmd", "rec_pid"}
    \/ pc[c] \in {"state", "clear"} /\ then[c] = "identify"
    \/ pc[c] = "done" /\ st[c] = 0

Stopping(c) ==
    \/ pc[c] = "unlink" /\ st[c] = 0
    \/ pc[c] = "spawn"
    \/ pc[c] = "done" /\ st[c] = 0 /\ op[c] = "off"

Alone ==
    \A c \in Shells : clean[c] =>
        /\ \A d \in Shells \ {c} : pc[d] = "idle"
        /\ Chosen(c) => OneTunnel
        /\ Stopping(c) => NoTunnel

Sound == Control /\ OffStops /\ Alone

LEMMA ControlStep ==
    ASSUME Sound, NEW c \in Shells, Step(c)
    PROVE  (Control /\ OffStops)'
<1> USE DEF Sound, Control, OffStops, Labels, Go, Status, AskState
<1>1. CASE ReadState(c)
  BY <1>1 DEF ReadState, StateValid, procs, files, locals
<1>2. CASE ClearState(c)
  BY <1>2 DEF ClearState, ClearFiles, procs, files, locals
<1>3. CASE Find(c)
  BY <1>3 DEF Find, Found, StopAll, procs, files, locals
<1>4. CASE List(c)
  BY <1>4 DEF List, Look, Stopped, Returned, procs, files, locals
<1>5. CASE Term(c)
  BY <1>5 DEF Term, Ended, procs, files, locals
<1>6. CASE Relist(c)
  BY <1>6 DEF Relist, Look, Stopped, Returned, procs, files, locals
<1>7. CASE Kill(c)
  BY <1>7 DEF Kill, Ended, procs, files, locals
<1>8. CASE LastLook(c)
  BY <1>8 DEF LastLook, Stopped, Returned, procs, files, locals
<1>9. CASE Unlink(c)
  BY <1>9 DEF Unlink, ClearFiles, Returned, procs, files, locals
<1>10. CASE Spawn(c)
  BY <1>10 DEF Spawn, Born, Returned, Kinds, procs, files, locals
<1>11. CASE Identify(c)
  BY <1>11 DEF Identify, Found, StopAll, procs, files, locals
<1>12. CASE RecordCommand(c)
  BY <1>12 DEF RecordCommand, NotRecorded, StopAll, procs, files, locals
<1>13. CASE RecordPid(c)
  BY <1>13 DEF RecordPid, NotRecorded, StopAll, procs, files, locals
<1> QED
  BY <1>1, <1>2, <1>3, <1>4, <1>5, <1>6, <1>7, <1>8, <1>9, <1>10, <1>11, <1>12, <1>13 DEF Step

\* A complete look that prints nothing: what is left of the user's tunnels is the kept one.
LEMMA NothingListed ==
    ASSUME NEW c \in Shells, {p \in Pids : Listed(p)} \ Keep(c) = {}
    PROVE  OneTunnel /\ (back[c] # "kept" => NoTunnel)
  BY DEF Listed, Marked, Keep, OneTunnel, NoTunnel, OwnTunnels

\* A command that is still clean after a look has a complete one.
LEMMA CompleteLook ==
    ASSUME Control, NEW c \in Shells, NEW there, NEW got,
           clean' = [clean EXCEPT ![c] = @ /\ there \subseteq got]
    PROVE  (clean'[c] => there \subseteq got) /\ \A d \in Shells : clean'[d] => clean[d]
  BY DEF Control

LEMMA EmptyLook ==
    ASSUME Safe, Sound, NEW c \in Shells, Look(c), UNCHANGED kind
    PROVE  /\ \A d \in Shells : clean'[d] => clean[d]
           /\ clean'[c] /\ seen'[c] = {} => OneTunnel' /\ (back[c] # "kept" => NoTunnel')
<1>1. PICK got \in SUBSET ({p \in Pids : Listed(p)} \ Keep(c)) :
        /\ seen' = [seen EXCEPT ![c] = got \cup ({val[c]} \ (Keep(c) \cup {NoPid}))]
        /\ clean' = [clean EXCEPT
                       ![c] = @ /\ {p \in Pids : Listed(p)} \ Keep(c) \subseteq got]
  BY DEF Look
<1>2. \A d \in Shells : clean'[d] => clean[d]
  BY <1>1, CompleteLook DEF Sound
<1>3. ASSUME clean'[c], seen'[c] = {} PROVE {p \in Pids : Listed(p)} \ Keep(c) = {}
  <2>1. {p \in Pids : Listed(p)} \ Keep(c) \subseteq got
    BY <1>1, <1>3, CompleteLook DEF Sound
  <2>2. got = {}
    BY <1>1, <1>3 DEF Safe, PidsOK
  <2> QED
    BY <2>1, <2>2
<1>4. OneTunnel' <=> OneTunnel
  BY DEF OneTunnel, OwnTunnels
<1>5. NoTunnel' <=> NoTunnel
  BY DEF NoTunnel
<1> QED
  BY <1>2, <1>3, <1>4, <1>5, NothingListed

LEMMA AloneStep ==
    ASSUME Safe, Sound, NEW c \in Shells, Step(c)
    PROVE  Alone'
<1> USE DEF Sound, Control, OffStops, Labels, Go, Status, AskState, Alone, Chosen, Stopping,
    NoTunnel, OneTunnel, OwnTunnels
<1>1. CASE ReadState(c)
  BY <1>1 DEF ReadState, StateValid, procs, files, locals
<1>2. CASE ClearState(c)
  BY <1>2 DEF ClearState, ClearFiles, procs, files, locals
<1>3. CASE Find(c)
  BY <1>3 DEF Find, Found, StopAll, procs, files, locals
<1>4. CASE List(c)
  BY <1>4, EmptyLook DEF List, Stopped, Returned, procs, files, locals
<1>5. CASE Term(c)
  BY <1>5 DEF Term, Ended, procs, files, locals
<1>6. CASE Relist(c)
  BY <1>6, EmptyLook DEF Relist, Stopped, Returned, procs, files, locals
<1>7. CASE Kill(c)
  BY <1>7 DEF Kill, Ended, procs, files, locals
<1>8. CASE LastLook(c)
  <2> DEFINE there == {p \in Pids : Listed(p)} \ Keep(c)
             status(got) == IF got \cup ({val[c]} \ (Keep(c) \cup {NoPid})) = {} THEN 0 ELSE 1
  <2>1. PICK got \in SUBSET there :
          /\ Stopped(c, status(got))
          /\ clean' = [clean EXCEPT ![c] = @ /\ there \subseteq got]
    BY <1>8 DEF LastLook
  <2>2. ASSUME clean'[c], status(got) = 0 PROVE OneTunnel /\ (back[c] # "kept" => NoTunnel)
    <3>1. there \subseteq got
      <4> HIDE DEF there
      <4> QED
        BY <2>1, <2>2, CompleteLook
    <3>2. got = {}
      BY <2>2
    <3> QED
      BY <3>1, <3>2, NothingListed
  <2>3. status(got) \in {0, 1} /\ \A d \in Shells : clean'[d] => clean[d]
    BY <2>1
  <2> HIDE DEF status, there
  <2> QED
    BY <1>8, <2>1, <2>2, <2>3 DEF LastLook, Stopped, Returned, procs, files
<1>9. CASE Unlink(c)
  BY <1>9 DEF Unlink, ClearFiles, Returned, procs, files, locals
<1>10. CASE Spawn(c)
  BY <1>10 DEF Spawn, Born, Returned, procs, files, locals
<1>11. CASE Identify(c)
  BY <1>11 DEF Identify, Found, StopAll, procs, files, locals
<1>12. CASE RecordCommand(c)
  BY <1>12 DEF RecordCommand, NotRecorded, StopAll, procs, files, locals
<1>13. CASE RecordPid(c)
  BY <1>13 DEF RecordPid, NotRecorded, StopAll, procs, files, locals
<1> QED
  BY <1>1, <1>2, <1>3, <1>4, <1>5, <1>6, <1>7, <1>8, <1>9, <1>10, <1>11, <1>12, <1>13 DEF Step

LEMMA SoundStep == Safe /\ Sound /\ [Next]_vars => Sound'
<1> SUFFICES ASSUME Safe, Sound, [Next]_vars PROVE Sound'
  OBVIOUS
<1> USE DEF Sound, Control, OffStops, Labels, Go, Status, AskState, Alone, Chosen, Stopping,
            NoTunnel, OneTunnel, OwnTunnels
<1>1. ASSUME NEW c \in Shells, NEW o \in {"on", "off"}, Begin(c, o) PROVE Sound'
  <2>1. (Control /\ OffStops)'
    BY <1>1 DEF Begin, StopAll, procs
  <2>2. \A d \in Shells : clean'[d] => d = c /\ ~Overlap(c)
    BY <1>1 DEF Begin
  <2>3. Alone'
    BY <1>1, <2>2 DEF Begin, StopAll, Overlap, procs
  <2> QED
    BY <2>1, <2>3
<1>2. ASSUME NEW c \in Shells, Step(c) PROVE Sound'
  BY <1>2, ControlStep, AloneStep
<1>3. ASSUME NEW c \in Shells, Finish(c) \/ Interrupt(c) PROVE Sound'
  <2>1. Control' /\ OffStops'
    <3>1. Forget(c)
      BY <1>3 DEF Finish, Interrupt
    <3>2. Control'
      BY <3>1 DEF Forget
    <3>3. OffStops'
      BY <3>1 DEF Forget
    <3> QED
      BY <3>2, <3>3
  <2>2. pc[c] # "idle"
    BY <1>3 DEF Finish, Interrupt
  <2>3. clean' = [clean EXCEPT ![c] = FALSE]
    BY <1>3, Zenon DEF Finish, Interrupt, Forget
  <2>4. \A d \in Shells : ~clean'[d]
    BY <2>2, <2>3
  <2> QED
    BY <2>1, <2>4
<1>4. ASSUME NEW p \in Pids, Dies(p) PROVE Sound'
  BY <1>4 DEF Dies, Ended, shells
<1>5. ASSUME NEW p \in Pids, ForeignStarts(p) PROVE Sound'
  BY <1>5 DEF ForeignStarts, Born, Kinds, shells
<1>6. CASE UNCHANGED vars
  BY <1>6 DEF vars, procs
<1> QED
  BY <1>1, <1>2, <1>3, <1>4, <1>5, <1>6 DEF Next

LEMMA SoundInit == Init => Sound
<1> SUFFICES ASSUME Init PROVE Sound
  OBVIOUS
<1>1. kind \in [Pids -> Kinds \cup {"none"}]
  BY Initially DEF Safe, PidsOK
<1>2. /\ op = [c \in Shells |-> "none"]
      /\ pc = [c \in Shells |-> "idle"]
      /\ then = [c \in Shells |-> "idle"]
      /\ back = [c \in Shells |-> "idle"]
      /\ st = [c \in Shells |-> 0]
      /\ clean = [c \in Shells |-> FALSE]
  BY DEF Init
<1> QED
  BY <1>1, <1>2 DEF Sound, Control, Labels, OffStops, Alone

LEMMA AlwaysSound == Spec => [](Safe /\ Sound)
<1>1. Init => Safe /\ Sound
  BY Initially, SoundInit
<1>2. Safe /\ Sound /\ [Next]_vars => (Safe /\ Sound)'
  BY SafeStep, SoundStep
<1> QED
  BY <1>1, <1>2, PTL DEF Spec

\* proxy.off that ran alone with complete scans and reports success (README.md:561;
\* zshrc:1087) leaves no tunnel of the user, on any number of login nodes and ports.
THEOREM OffLeavesNoTunnel == Spec => []OffLeavesNone
<1>1. Sound => OffLeavesNone
  BY DEF Sound, Alone, Stopping, NoTunnel, OffLeavesNone, Succeeded, OwnTunnels
<1> QED
  BY <1>1, AlwaysSound, PTL

\* proxy.on that ran alone with complete scans and reports success leaves at most one
\* tunnel of the user ("A compute node owns at most one MSE tunnel", zshrc:1028).
THEOREM OnLeavesOneTunnel == Spec => []OnLeavesOne
<1>1. ASSUME OneTunnel PROVE Cardinality(OwnTunnels) <= 1
  <2>1. CASE OwnTunnels = {}
    BY <2>1, FS_EmptySet
  <2>2. ASSUME NEW p \in OwnTunnels PROVE Cardinality(OwnTunnels) <= 1
    <3>1. OwnTunnels = {p}
      BY <1>1 DEF OneTunnel
    <3> QED
      BY <3>1, FS_Singleton
  <2> QED
    BY <2>1, <2>2
<1>2. Sound => OnLeavesOne
  BY <1>1 DEF Sound, Alone, Chosen, OnLeavesOne, Succeeded
<1> QED
  BY <1>2, AlwaysSound, PTL

-----------------------------------------------------------------------------
(***************************************************************************)
(* Type correctness.  A command line is recorded of a process that was     *)
(* found, so the pid of the tunnel to keep or to record is never absent.   *)
(***************************************************************************)
Kept ==
    \A c \in Shells :
        /\ pc[c] = "idle" => back[c] = "idle"
        /\ pc[c] \in {"state", "clear"} => then[c] # "idle"
        /\ pc[c] \in {"rec_cmd", "rec_pid"} => have[c] \in Pids
        /\ back[c] = "kept" /\ pc[c] # "done" => have[c] \in Pids

Lines ==
    /\ cmd \in [Pids -> Commands \cup {NoCmd}]
    /\ cmdFile \in Commands \cup {NoCmd}
    /\ nth \in [Shells -> 1..Len(Candidates)]
    /\ mine \in [Shells -> Ports]

LEMMA CandidatesHosts ==
    /\ Len(Candidates) \in Nat /\ Len(Candidates) >= 1
    /\ \A i \in 1..Len(Candidates) : Candidates[i] \in Hosts
  BY CandidatesAssumption DEF CandidatesAssumption

LEMMA KeptStep ==
    ASSUME PidsOK, Control, Kept, NEW c \in Shells, Step(c)
    PROVE  Kept'
<1> USE DEF PidsOK, Control, Kept, Go, Status, AskState
<1>1. CASE ReadState(c)
  BY <1>1 DEF ReadState, StateValid, procs, files, locals
<1>2. CASE ClearState(c)
  BY <1>2 DEF ClearState, ClearFiles, procs, files, locals
<1>3. CASE Find(c)
  BY <1>3 DEF Find, Found, FoundPids, Tunnels, StopAll, procs, files, locals
<1>4. CASE List(c)
  BY <1>4 DEF List, Look, Stopped, Returned, procs, files, locals
<1>5. CASE Term(c)
  BY <1>5 DEF Term, Ended, procs, files, locals
<1>6. CASE Relist(c)
  BY <1>6 DEF Relist, Look, Stopped, Returned, procs, files, locals
<1>7. CASE Kill(c)
  BY <1>7 DEF Kill, Ended, procs, files, locals
<1>8. CASE LastLook(c)
  BY <1>8 DEF LastLook, Stopped, Returned, procs, files, locals
<1>9. CASE Unlink(c)
  BY <1>9 DEF Unlink, ClearFiles, Returned, procs, files, locals
<1>10. CASE Spawn(c)
  BY <1>10 DEF Spawn, Born, Returned, procs, files, locals
<1>11. CASE Identify(c)
  BY <1>11 DEF Identify, Found, FoundPids, Tunnels, StopAll, procs, files, locals
<1>12. CASE RecordCommand(c)
  BY <1>12 DEF RecordCommand, NotRecorded, StopAll, ClearFiles, procs, files, locals
<1>13. CASE RecordPid(c)
  BY <1>13 DEF RecordPid, NotRecorded, StopAll, ClearFiles, procs, files, locals
<1> QED
  BY <1>1, <1>2, <1>3, <1>4, <1>5, <1>6, <1>7, <1>8, <1>9, <1>10, <1>11, <1>12, <1>13 DEF Step

\* The next candidate is tried only when there is one.
LEMMA NextCandidate ==
    ASSUME nth \in [Shells -> 1..Len(Candidates)], NEW c \in Shells, NEW s, Returned(c, s)
    PROVE  nth' \in [Shells -> 1..Len(Candidates)]
<1>1. CASE nth' = nth
  BY <1>1
<1>2. CASE nth[c] < Len(Candidates) /\ nth' = [nth EXCEPT ![c] = @ + 1]
  BY <1>2, CandidatesHosts
<1> QED
  BY <1>1, <1>2 DEF Returned

LEMMA NthStep ==
    ASSUME nth \in [Shells -> 1..Len(Candidates)], NEW c \in Shells, Step(c)
    PROVE  nth' \in [Shells -> 1..Len(Candidates)]
<1> USE CandidatesHosts DEF Go, Status, AskState
<1>1. CASE ReadState(c)
  BY <1>1 DEF ReadState, StateValid, procs, files, locals
<1>2. CASE ClearState(c)
  BY <1>2 DEF ClearState, ClearFiles, procs, files, locals
<1>3. CASE Find(c)
  BY <1>3 DEF Find, Found, FoundPids, Tunnels, StopAll, procs, files, locals
<1>4. CASE List(c)
  BY <1>4 DEF List, Look, Stopped, Returned, procs, files, locals
<1>5. CASE Term(c)
  BY <1>5 DEF Term, Ended, procs, files, locals
<1>6. CASE Relist(c)
  BY <1>6 DEF Relist, Look, Stopped, Returned, procs, files, locals
<1>7. CASE Kill(c)
  BY <1>7 DEF Kill, Ended, procs, files, locals
<1>8. CASE LastLook(c)
  BY <1>8 DEF LastLook, Stopped, Returned, procs, files, locals
<1>9. CASE Unlink(c)
  BY <1>9, NextCandidate DEF Unlink
<1>10. CASE Spawn(c)
  BY <1>10 DEF Spawn, Born, Returned, procs, files, locals
<1>11. CASE Identify(c)
  BY <1>11 DEF Identify, Found, FoundPids, Tunnels, StopAll, procs, files, locals
<1>12. CASE RecordCommand(c)
  BY <1>12 DEF RecordCommand, NotRecorded, StopAll, ClearFiles, procs, files, locals
<1>13. CASE RecordPid(c)
  BY <1>13 DEF RecordPid, NotRecorded, StopAll, ClearFiles, procs, files, locals
<1> QED
  BY <1>1, <1>2, <1>3, <1>4, <1>5, <1>6, <1>7, <1>8, <1>9, <1>10, <1>11, <1>12, <1>13 DEF Step

LEMMA LinesStep ==
    ASSUME PidsOK, Kept, Lines, NEW c \in Shells, Step(c)
    PROVE  cmd' \in [Pids -> Commands \cup {NoCmd}] /\ cmdFile' \in Commands \cup {NoCmd}
<1> USE DEF PidsOK, Kept, Lines
<1>1. CASE ReadState(c)
  BY <1>1 DEF ReadState, StateValid, procs, files, locals
<1>2. CASE ClearState(c)
  BY <1>2 DEF ClearState, ClearFiles, procs, files, locals
<1>3. CASE Find(c)
  BY <1>3 DEF Find, Found, FoundPids, Tunnels, StopAll, procs, files, locals
<1>4. CASE List(c)
  BY <1>4 DEF List, Look, Stopped, Returned, procs, files, locals
<1>5. CASE Term(c)
  BY <1>5 DEF Term, Ended, procs, files, locals
<1>6. CASE Relist(c)
  BY <1>6 DEF Relist, Look, Stopped, Returned, procs, files, locals
<1>7. CASE Kill(c)
  BY <1>7 DEF Kill, Ended, procs, files, locals
<1>8. CASE LastLook(c)
  BY <1>8 DEF LastLook, Stopped, Returned, procs, files, locals
<1>9. CASE Unlink(c)
  BY <1>9 DEF Unlink, ClearFiles, Returned, procs, files, locals
<1>10. CASE Spawn(c)
  <2>1. CASE UNCHANGED procs
    BY <1>10, <2>1 DEF Spawn, procs, files
  <2>2. ASSUME NEW p \in Pids, Born(p, "managed", <<Candidates[nth[c]], mine[c]>>)
        PROVE  cmd' \in [Pids -> Commands \cup {NoCmd}]
    <3>1. <<Candidates[nth[c]], mine[c]>> \in Commands
      BY CandidatesHosts DEF Commands
    <3> QED
      BY <2>2, <3>1 DEF Born
  <2> QED
    BY <1>10, <2>1, <2>2 DEF Spawn, files
<1>11. CASE Identify(c)
  BY <1>11 DEF Identify, Found, FoundPids, Tunnels, StopAll, procs, files, locals
<1>12. CASE RecordCommand(c)
  BY <1>12 DEF RecordCommand, NotRecorded, StopAll, ClearFiles, procs, files, locals
<1>13. CASE RecordPid(c)
  BY <1>13 DEF RecordPid, NotRecorded, StopAll, ClearFiles, procs, files, locals
<1> QED
  BY <1>1, <1>2, <1>3, <1>4, <1>5, <1>6, <1>7, <1>8, <1>9, <1>10, <1>11, <1>12, <1>13 DEF Step

Typed == Safe /\ Sound /\ Kept /\ Lines

LEMMA TypedStep == Typed /\ [Next]_vars => Typed'
<1> SUFFICES ASSUME Typed, [Next]_vars PROVE Kept' /\ Lines'
  BY SafeStep, SoundStep DEF Typed
<1> USE DEF Typed
<1>1. ASSUME NEW c \in Shells, NEW o \in {"on", "off"}, Begin(c, o) PROVE Kept' /\ Lines'
  BY <1>1 DEF Begin, AskState, StopAll, Go, Kept, Lines, Sound, Control, procs, files
<1>2. ASSUME NEW c \in Shells, Step(c) PROVE Kept' /\ Lines'
  <2>1. Kept'
    BY <1>2, KeptStep DEF Safe, Sound
  <2>2. mine' = mine
    BY <1>2 DEF Step, ReadState, ClearState, Find, List, Term, Relist, Kill, LastLook, Unlink,
                Spawn, Identify, RecordCommand, RecordPid, locals
  <2> QED
    BY <1>2, <2>1, <2>2, NthStep, LinesStep DEF Safe, Lines
<1>3. ASSUME NEW c \in Shells, Finish(c) \/ Interrupt(c) PROVE Kept' /\ Lines'
  <2>1. Forget(c)
    BY <1>3 DEF Finish, Interrupt
  <2>2. Kept'
    BY <2>1 DEF Forget, Go, Kept, Safe, PidsOK, Sound, Control
  <2>3. AnyPort \in Ports
    BY PortsAssumption DEF AnyPort, PortsAssumption
  <2> QED
    BY <2>1, <2>2, <2>3, CandidatesHosts DEF Forget, Lines, files
<1>4. ASSUME NEW p \in Pids, Dies(p) PROVE Kept' /\ Lines'
  BY <1>4 DEF Dies, Ended, Kept, Lines, files, shells, locals
<1>5. ASSUME NEW p \in Pids, ForeignStarts(p) PROVE Kept' /\ Lines'
  BY <1>5 DEF ForeignStarts, Born, Kept, Lines, files, shells, locals
<1>6. CASE UNCHANGED vars
  BY <1>6 DEF vars, procs, files, locals, Kept, Lines
<1> QED
  BY <1>1, <1>2, <1>3, <1>4, <1>5, <1>6 DEF Next

LEMMA TypedInit == Init => Typed
<1> SUFFICES ASSUME Init PROVE Kept /\ Lines
  BY Initially, SoundInit DEF Typed
<1>1. Kept
  BY DEF Init, Kept
<1>2. AnyPort \in Ports
  BY PortsAssumption DEF AnyPort, PortsAssumption
<1>3. cmdFile \in Commands \cup {NoCmd}
  BY DEF Init
<1>4. cmd \in [Pids -> Commands \cup {NoCmd}] /\ nth = [c \in Shells |-> 1]
      /\ mine = [c \in Shells |-> AnyPort]
  BY DEF Init
<1> QED
  BY <1>1, <1>2, <1>3, <1>4, CandidatesHosts DEF Lines

\* Every variable has the values the code can give it: no command line is recorded of an
\* absent process, and no candidate is tried beyond the last (zshrc:944-1094).
THEOREM TypeCorrect == Spec => []TypeOK
<1>1. Typed => TypeOK
  BY DEF Typed, Safe, PidsOK, Sound, Control, Lines, TypeOK
<1> QED
  BY <1>1, TypedInit, TypedStep, PTL DEF Spec
=============================================================================
