-------------------------- MODULE SubOutcomeProofs --------------------------
(***************************************************************************)
(* What the commands of SubSwitch reach when they run in turns (Serial).   *)
(* The invariants follow on TurnsInv of SubSwitchProofs; each needs more   *)
(* than the one before:                                                    *)
(*   KernelsInv   who owns the kernels; after a deletion none runs         *)
(*   UpdatesInv, LinksInv    and no write fails: an update that fails puts *)
(*                the profile back; profiles come from their links         *)
(*   BasisInv, LoadInv       and no command is interrupted: config.yaml is *)
(*                the profile in use, kernels run runtime.yaml             *)
(*   EffectInv    and no kernel crashes: what a successful switch reached  *)
(*   PlainInv     KernelsInv again, with every fault but without mixin:    *)
(*                what switches reach, successful or rolled back           *)
(* A command that is interrupted between two writes, or a write that       *)
(* fails, leaves files out of step; nothing in the code mends them.        *)
(***************************************************************************)
EXTENDS SubSwitchProofs, WellFoundedInduction

(***************************************************************************)
(* A kernel of the user's is the only kernel, and has no TUN device: the   *)
(* only one that forks without looking is service_sudo_start, and where a  *)
(* session comes to it no kernel of the user's runs.                       *)
(***************************************************************************)
Users == {k \in Slots : kern[k].owner = "user"}
NoUser == Users = {}
Sole == \A k \in Users : Running = {k} /\ ~kern[k].tun

Switches(c) ==
    /\ s[c].pc \in {"merge_truncate", "merge_write", "merge_check", "restop"} /\ s[c].mtun => NoUser
    /\ s[c].pc \in {"restop_check", "restart", "restart_tun"} => NoUser
    /\ Inside(c) /\ s[c].tun
         => NoUser \/ (s[c].pc \in {"switched", "commit", "undo"} /\ ~runtime.tun)

Stopped(c) ==
    /\ s[c].pc \in {"del_check", "del_config"} => Running = {}
    /\ s[c].pc \in {"del_entry", "del_profile"} /\ s[c].act => Running = {}
    /\ s[c].pc = "del_profile" /\ s[c].act => runtime = Absent
    /\ Ended(c, {"del"}, 0) /\ s[c].act => Running = {} /\ runtime = Absent

KernelsInv == TurnsInv /\ Sole /\ \A c \in Sessions : Switches(c) /\ Stopped(c)

LEMMA UserIsManaged ==
    ASSUME Sole, NEW k \in Users
    PROVE  Managed = k /\ Running = {k} /\ ~kern[k].tun
<1>1. Running = {k} /\ ~kern[k].tun
  BY DEF Sole
<1>2. CASE pidfile \in Running
  BY <1>1, <1>2 DEF Managed
<1>3. CASE pidfile \notin Running
  <2>1. (CHOOSE j \in Running : TRUE) = k
    BY <1>1
  <2>2. QED
    BY <1>1, <1>3, <2>1 DEF Managed
<1>4. QED
  BY <1>1, <1>2, <1>3

LEMMA TunIsRoots ==
    ASSUME Sole, TunUp
    PROVE  NoUser
BY DEF Sole, TunUp, NoUser

(***************************************************************************)
(* The calls of service.sh, from a state where kernels of the user's are   *)
(* alone.                                                                  *)
(***************************************************************************)
LEMMA SameKernels ==
    ASSUME UNCHANGED kern
    PROVE  Users' = Users /\ Running' = Running /\ (Sole => Sole')
BY DEF Users, Running, Sole

LEMMA FewerKernels ==
    ASSUME ServiceOK, Sole, NEW k \in Slots, kern' = [kern EXCEPT ![k] = NoKernel]
    PROVE  Users' = Users \ {k} /\ Running' = Running \ {k} /\ Sole'
<1>1. \A j \in Slots : kern'[j] = IF j = k THEN NoKernel ELSE kern[j]
  BY DEF ServiceOK
<1>2. NoKernel.owner = "none"
  BY DEF NoKernel
<1>3. Users' = Users \ {k} /\ Running' = Running \ {k}
  BY <1>1, <1>2 DEF Users, Running
<1>4. QED
  BY <1>1, <1>3 DEF Sole, Running

LEMMA StopKernels ==
    ASSUME ServiceOK, Sole, NEW sudo \in BOOLEAN, NEW x \in 0..2, Stop(sudo, x)
    PROVE  /\ Sole' /\ Users' \subseteq Users /\ Running' \subseteq Running
           /\ \A k \in Running' : kern'[k] = kern[k]
           /\ ~sudo => Users' = {}
           /\ ~sudo /\ x = 0 => Running' = {}
<1>1. CASE Look
  <2>1. Users' = Users /\ Running' = Running /\ Sole' /\ kern' = kern
    BY <1>1, SameKernels DEF Look
  <2>2. ASSUME ~sudo, NEW k \in Users PROVE FALSE
    <3>1. Managed = k /\ k # NoSlot /\ kern[k].owner = "user"
      BY <2>2, UserIsManaged, SlotsAssumption DEF Users
    <3>2. QED
      BY <1>1, <2>2, <3>1 DEF Stop, Look
  <2>3. x = 0 => Running = {}
    BY <1>1 DEF Stop, Look
  <2>4. QED
    BY <2>1, <2>2, <2>3
<1>2. CASE Managed # NoSlot /\ (sudo \/ kern[Managed].owner = "user")
           /\ kern' = [kern EXCEPT ![Managed] = NoKernel]
  <2>1. Managed \in Slots
    BY <1>2, ManagedIsSlot
  <2>2. Users' = Users \ {Managed} /\ Running' = Running \ {Managed} /\ Sole'
    BY <1>2, <2>1, FewerKernels
  <2>3. \A k \in Running' : kern'[k] = kern[k]
    BY <1>2, <2>1, <2>2 DEF ServiceOK, Running
  <2>4. ~sudo => Running' = {}
    BY <1>2, <2>1, <2>2, UserIsManaged DEF Users
  <2>5. Users' \subseteq Running'
    BY DEF Users, Running
  <2>6. QED
    BY <2>2, <2>3, <2>4, <2>5
<1>3. QED
  BY <1>1, <1>2 DEF Stop

LEMMA StartKernels ==
    ASSUME Types, Sole, NEW x, Start(x)
    PROVE  /\ Sole'
           /\ \A k \in Users' : \/ k \in Users /\ kern' = kern
                                \/ kern'[k].conf = runtime /\ Valid(runtime)
<1>1. CASE Look
  BY <1>1, SameKernels DEF Look
<1>2. CASE Running = {} /\ Valid(runtime) /\ \E k \in Slots :
             kern' = [kern EXCEPT ![k] = [owner |-> "user", conf |-> runtime, tun |-> FALSE]]
  <2>1. PICK k \in Slots :
             kern' = [kern EXCEPT ![k] = [owner |-> "user", conf |-> runtime, tun |-> FALSE]]
    BY <1>2
  <2>2. /\ kern'[k] = [owner |-> "user", conf |-> runtime, tun |-> FALSE]
        /\ \A j \in Slots \ {k} : kern'[j] = kern[j]
    BY <2>1 DEF Types, ServiceOK
  <2>3. Running' = {k} /\ Users' = {k}
    BY <1>2, <2>2 DEF Running, Users
  <2>4. QED
    BY <1>2, <2>2, <2>3 DEF Sole
<1>3. QED
  BY <1>1, <1>2 DEF Start

LEMMA SudoStartKernels ==
    ASSUME Types, NoUser, NEW x, SudoStart(x)
    PROVE  NoUser' /\ Sole'
<1>1. CASE UNCHANGED kern
  BY <1>1, SameKernels DEF Sole, NoUser
<1>2. CASE \E k \in Slots, t \in {FALSE, TunEnabled} :
             kern' = [kern EXCEPT ![k] = [owner |-> "root", conf |-> runtime, tun |-> t]]
  <2>1. \A j \in Slots : kern'[j].owner \in {kern[j].owner, "root"}
    BY <1>2 DEF Types, ServiceOK
  <2>2. QED
    BY <2>1 DEF NoUser, Users, Sole
<1>3. QED
  BY <1>1, <1>2 DEF SudoStart, service, Running

(***************************************************************************)
(* How a merge moves, its locals included.                                 *)
(***************************************************************************)
\* All but the label, the status, and what a merge or a rollback keeps for itself.
Keeps(c) ==
    /\ s'[c].op = s[c].op /\ s'[c].id = s[c].id /\ s'[c].url = s[c].url
    /\ s'[c].taken = s[c].taken /\ s'[c].snapBase = s[c].snapBase
    /\ s'[c].snapRuntime = s[c].snapRuntime /\ s'[c].snapMeta = s[c].snapMeta
    /\ s'[c].old = s[c].old /\ s'[c].act = s[c].act /\ s'[c].tun = s[c].tun

LEMMA JumpSame ==
    ASSUME s \in [Sessions -> Locals], NEW c \in Sessions, NEW l \in Labels, Jumps(c, l)
    PROVE  s'[c].pc = l /\ Same(c)
BY GoFacts, GoWithFacts DEF Jumps

LEMMA MergeMoves ==
    ASSUME Types, NEW c \in Sessions
    PROVE  /\ Merge(c) => /\ s[c].pc = "merge" /\ s'[c].pc = "merge_truncate"
                          /\ s'[c].mtun = TunUp /\ s'[c].ret = s[c].ret /\ Keeps(c)
           /\ MergeTruncate(c) => s[c].pc = "merge_truncate" /\ s'[c].pc = "merge_write" /\ Same(c)
           /\ MergeWrite(c) => s[c].pc = "merge_write" /\ s'[c].pc = "merge_check" /\ Same(c)
           /\ MergeCheck(c) => /\ s[c].pc = "merge_check" /\ Same(c)
                               /\ IF Valid(runtime) THEN s'[c].pc = "restop"
                                  ELSE s'[c].pc = s[c].ret /\ s'[c].st = 1
<1>a. s \in [Sessions -> Locals] /\ s[c] \in Locals /\ s[c].ret \in Labels
  BY DEF Types, LocalsOK, Locals, Labels
<1>1. ASSUME Merge(c)
      PROVE  /\ s[c].pc = "merge" /\ s'[c].pc = "merge_truncate"
             /\ s'[c].mtun = TunUp /\ s'[c].ret = s[c].ret /\ Keeps(c)
  BY <1>1, <1>a DEF Merge, At, Keeps, Locals
<1>2. ASSUME MergeTruncate(c)
      PROVE  s[c].pc = "merge_truncate" /\ s'[c].pc = "merge_write" /\ Same(c)
  BY <1>2, <1>a, GoFacts DEF MergeTruncate, At, Labels, MergeLabels
<1>3. ASSUME MergeWrite(c)
      PROVE  s[c].pc = "merge_write" /\ s'[c].pc = "merge_check" /\ Same(c)
  BY <1>3, <1>a, GoFacts DEF MergeWrite, At, Labels, MergeLabels
<1>4. ASSUME MergeCheck(c)
      PROVE  /\ s[c].pc = "merge_check" /\ Same(c)
             /\ IF Valid(runtime) THEN s'[c].pc = "restop"
                ELSE s'[c].pc = s[c].ret /\ s'[c].st = 1
  <2>1. CASE Valid(runtime)
    BY <1>4, <1>a, <2>1, GoFacts DEF MergeCheck, At, Labels, MergeLabels
  <2>2. CASE ~Valid(runtime)
    BY <1>4, <1>a, <2>2, GoWithFacts DEF MergeCheck, At
  <2>3. QED
    BY <2>1, <2>2
<1>5. QED
  BY <1>1, <1>2, <1>3, <1>4

LEMMA RestartMoves ==
    ASSUME Types, NEW c \in Sessions
    PROVE  /\ Restop(c) => /\ s[c].pc = "restop" /\ Same(c)
                           /\ s'[c].pc = IF s[c].mtun THEN "restop_check" ELSE "restart"
           /\ RestopCheck(c) => /\ s[c].pc = "restop_check" /\ Same(c)
                                /\ IF ActiveStatus = 0 THEN s'[c].pc = s[c].ret /\ s'[c].st = 1
                                   ELSE s'[c].pc = "restart"
           /\ Restart(c) => /\ s[c].pc = "restart" /\ Same(c)
                            /\ \/ /\ TunEnabled /\ s'[c].pc = "restart_tun"
                                  /\ \E x \in {0, 1} : SudoStart(x)
                               \/ /\ ~TunEnabled /\ s'[c].pc = s[c].ret
                                  /\ s'[c].st \in {0, 1} /\ Start(s'[c].st)
           /\ RestartTun(c) => /\ s[c].pc = "restart_tun" /\ Same(c)
                               /\ s'[c].pc = s[c].ret /\ s'[c].st = IF TunUp THEN 0 ELSE 1
<1>a. s \in [Sessions -> Locals] /\ s[c] \in Locals /\ s[c].ret \in Labels
  BY DEF Types, LocalsOK, Locals, Labels
<1>1. ASSUME Restop(c)
      PROVE  /\ s[c].pc = "restop" /\ Same(c)
             /\ s'[c].pc = IF s[c].mtun THEN "restop_check" ELSE "restart"
  BY <1>1, <1>a, GoFacts DEF Restop, At, Labels, MergeLabels
<1>2. ASSUME RestopCheck(c)
      PROVE  /\ s[c].pc = "restop_check" /\ Same(c)
             /\ IF ActiveStatus = 0 THEN s'[c].pc = s[c].ret /\ s'[c].st = 1
                ELSE s'[c].pc = "restart"
  <2>1. CASE ActiveStatus = 0
    BY <1>2, <1>a, <2>1, GoWithFacts DEF RestopCheck, At
  <2>2. CASE ActiveStatus # 0
    BY <1>2, <1>a, <2>2, GoFacts DEF RestopCheck, At, Labels, MergeLabels
  <2>3. QED
    BY <2>1, <2>2
<1>3. ASSUME Restart(c)
      PROVE  /\ s[c].pc = "restart" /\ Same(c)
             /\ \/ /\ TunEnabled /\ s'[c].pc = "restart_tun"
                   /\ \E x \in {0, 1} : SudoStart(x)
                \/ /\ ~TunEnabled /\ s'[c].pc = s[c].ret
                   /\ s'[c].st \in {0, 1} /\ Start(s'[c].st)
  <2>1. CASE TunEnabled /\ (\E x \in {0, 1} : SudoStart(x)) /\ Go(c, "restart_tun")
    BY <1>3, <1>a, <2>1, GoFacts DEF Restart, At, Labels, MergeLabels
  <2>2. ASSUME ~TunEnabled, NEW x \in {0, 1}, Start(x), GoWith(c, s[c].ret, x)
        PROVE  Same(c) /\ s'[c].pc = s[c].ret /\ s'[c].st = x
    BY <1>a, <2>2, GoWithFacts
  <2>3. QED
    BY <1>3, <2>1, <2>2 DEF Restart, At
<1>4. ASSUME RestartTun(c)
      PROVE  /\ s[c].pc = "restart_tun" /\ Same(c)
             /\ s'[c].pc = s[c].ret /\ s'[c].st = IF TunUp THEN 0 ELSE 1
  BY <1>4, <1>a, GoWithFacts DEF RestartTun, At
<1>5. QED
  BY <1>1, <1>2, <1>3, <1>4

(***************************************************************************)
(* How the other steps move their session.                                 *)
(***************************************************************************)
LEMMA SwitchMoves ==
    ASSUME Types, NEW c \in Sessions
    PROVE  /\ MixinDone(c) => /\ s[c].pc = "mixin_done" /\ s'[c].pc = "done" /\ s'[c].st = s[c].st /\ Same(c)
           /\ Use(c) => /\ s[c].pc = "use" /\ Same(c)
                        /\ IF Listed(s[c].id) THEN s'[c].pc = "snapshot" ELSE s'[c].pc = "used" /\ s'[c].st = 1
           /\ Snapshot(c) => /\ s[c].pc = "snapshot"
                             /\ s'[c].op = s[c].op /\ s'[c].id = s[c].id /\ s'[c].old = s[c].old
                             /\ \/ /\ s'[c].pc = "switch" /\ s'[c].snapBase = base
                                   /\ s'[c].snapRuntime = runtime /\ s'[c].snapMeta = meta
                                   /\ s'[c].act = (ActiveStatus = 0) /\ s'[c].tun = TunUp
                                \/ WriteFails /\ s'[c].pc = "used" /\ s'[c].st = 1 /\ Same(c)
           /\ Switch(c) => /\ s[c].pc = "switch" /\ Keeps(c)
                           /\ \/ s'[c].pc = "merge" /\ s'[c].ret = "switched" /\ base' = prof[s[c].id]
                              \/ s'[c].pc = "undo" /\ (prof[s[c].id] = Absent \/ WriteFails)
           /\ Switched(c) => /\ s[c].pc = "switched" /\ s'[c].st = s[c].st /\ Same(c)
                             /\ s'[c].pc \in {"commit", "undo"}
                             /\ s'[c].pc = "commit" => s[c].st = 0 /\ ActiveStatus = 0
           /\ Commit(c) => /\ s[c].pc = "commit" /\ Same(c)
                           /\ \/ /\ s'[c].pc = "used" /\ s'[c].st = 0
                                 /\ meta' = [meta EXCEPT !.use = s[c].id]
                              \/ /\ s'[c].pc = "undo" /\ UNCHANGED meta
                                 /\ WriteFails \/ ~meta.there
<1>a. s \in [Sessions -> Locals] /\ s[c] \in Locals
  BY DEF Types, LocalsOK
<1> USE <1>a DEF At, Labels, UndoLabels, MergeLabels, DelLabels
<1>1. ASSUME MixinDone(c)
      PROVE  /\ s[c].pc = "mixin_done" /\ s'[c].pc = "done" /\ s'[c].st = s[c].st /\ Same(c)
  BY <1>1, GoFacts DEF MixinDone
<1>2. ASSUME Use(c)
      PROVE  /\ s[c].pc = "use" /\ Same(c)
             /\ IF Listed(s[c].id) THEN s'[c].pc = "snapshot" ELSE s'[c].pc = "used" /\ s'[c].st = 1
  <2>1. CASE Listed(s[c].id)
    BY <1>2, <2>1, GoFacts DEF Use
  <2>2. CASE ~Listed(s[c].id)
    BY <1>2, <2>2, GoWithFacts DEF Use
  <2>3. QED
    BY <2>1, <2>2
<1>3. ASSUME Snapshot(c)
      PROVE  /\ s[c].pc = "snapshot"
             /\ s'[c].op = s[c].op /\ s'[c].id = s[c].id /\ s'[c].old = s[c].old
             /\ \/ /\ s'[c].pc = "switch" /\ s'[c].snapBase = base
                   /\ s'[c].snapRuntime = runtime /\ s'[c].snapMeta = meta
                   /\ s'[c].act = (ActiveStatus = 0) /\ s'[c].tun = TunUp
                \/ WriteFails /\ s'[c].pc = "used" /\ s'[c].st = 1 /\ Same(c)
  <2>1. CASE s' = [s EXCEPT ![c].pc = "switch", ![c].taken = TRUE, ![c].snapBase = base,
                            ![c].snapRuntime = runtime, ![c].snapMeta = meta,
                            ![c].act = (ActiveStatus = 0), ![c].tun = TunUp]
    BY <1>3, <2>1 DEF Snapshot, Locals
  <2>2. CASE WriteFails /\ GoWith(c, "used", 1)
    <3>1. s'[c].pc = "used" /\ s'[c].st = 1 /\ Same(c)
      BY <2>2, GoWithFacts
    <3>2. QED
      BY <1>3, <2>2, <3>1 DEF Snapshot, Same
  <2>3. QED
    BY <1>3, <2>1, <2>2 DEF Snapshot
<1>4. ASSUME Switch(c)
      PROVE  /\ s[c].pc = "switch" /\ Keeps(c)
             /\ \/ s'[c].pc = "merge" /\ s'[c].ret = "switched" /\ base' = prof[s[c].id]
                \/ s'[c].pc = "undo" /\ (prof[s[c].id] = Absent \/ WriteFails)
  <2>1. CASE base' = prof[s[c].id] /\ s' = [s EXCEPT ![c].pc = "merge", ![c].ret = "switched"]
    BY <1>4, <2>1 DEF Switch, Locals, Keeps
  <2>2. CASE (prof[s[c].id] = Absent \/ WriteFails) /\ Go(c, "undo")
    BY <1>4, <2>2, GoFacts DEF Switch, Same, Keeps
  <2>3. QED
    BY <1>4, <2>1, <2>2 DEF Switch
<1>5. ASSUME Switched(c)
      PROVE  /\ s[c].pc = "switched" /\ s'[c].st = s[c].st /\ Same(c)
             /\ s'[c].pc \in {"commit", "undo"}
             /\ s'[c].pc = "commit" => s[c].st = 0 /\ ActiveStatus = 0
  <2>1. CASE s[c].st = 0 /\ ActiveStatus = 0 /\ Go(c, "commit")
    BY <1>5, <2>1, GoFacts DEF Switched
  <2>2. CASE Go(c, "undo")
    BY <1>5, <2>2, GoFacts DEF Switched
  <2>3. QED
    BY <1>5, <2>1, <2>2 DEF Switched
<1>6. ASSUME Commit(c)
      PROVE  /\ s[c].pc = "commit" /\ Same(c)
             /\ \/ /\ s'[c].pc = "used" /\ s'[c].st = 0
                   /\ meta' = [meta EXCEPT !.use = s[c].id]
                \/ /\ s'[c].pc = "undo" /\ UNCHANGED meta
                   /\ WriteFails \/ ~meta.there
  <2>1. CASE meta' = [meta EXCEPT !.use = s[c].id] /\ GoWith(c, "used", 0)
    BY <1>6, <2>1, GoWithFacts DEF Commit
  <2>2. CASE (WriteFails \/ ~meta.there) /\ Go(c, "undo") /\ UNCHANGED meta
    BY <1>6, <2>2, GoFacts DEF Commit
  <2>3. QED
    BY <1>6, <2>1, <2>2 DEF Commit
<1>7. QED
  BY <1>1, <1>2, <1>3, <1>4, <1>5, <1>6

LEMMA UndoMoves ==
    ASSUME Types, NEW c \in Sessions
    PROVE  /\ Undo(c) => /\ s[c].pc = "undo" /\ s'[c].pc = "undo_rm" /\ Keeps(c)
                         /\ s'[c].left = All
           /\ UndoRm(c) => /\ s[c].pc = "undo_rm" /\ s'[c].pc = "undo_cp" /\ Same(c)
           /\ UndoCp(c) => /\ s[c].pc = "undo_cp" /\ Keeps(c)
                           /\ \/ s'[c].pc \in {"undo_rm", "undo_start"} /\ s'[c].left = Tail(s[c].left)
                              \/ WriteFails /\ s'[c].pc = "used" /\ s'[c].st = 2
           /\ UndoStart(c) => /\ s[c].pc = "undo_start" /\ Same(c)
                              /\ \/ ~s[c].act /\ s'[c].pc = "used" /\ s'[c].st = 1 /\ UNCHANGED service
                                 \/ /\ s[c].act
                                    /\ \E x \in {0, 1} : IF s[c].tun THEN SudoStart(x) ELSE Start(x)
                                    /\ s'[c].pc = "undo_ports" \/ (s'[c].pc = "used" /\ s'[c].st = 2)
           /\ UndoPorts(c) => /\ s[c].pc = "undo_ports" /\ s'[c].pc = "used" /\ Same(c)
                              /\ s'[c].st = 2 \/ (s'[c].st = 1 /\ Running # {})
<1>a. s \in [Sessions -> Locals] /\ s[c] \in Locals
  BY DEF Types, LocalsOK
<1> USE <1>a DEF At, Labels, UndoLabels, MergeLabels, DelLabels
<1>1. ASSUME Undo(c)
      PROVE  /\ s[c].pc = "undo" /\ s'[c].pc = "undo_rm" /\ Keeps(c)
             /\ s'[c].left = All
  BY <1>1 DEF Undo, Locals, Keeps, All
<1>2. ASSUME UndoRm(c)
      PROVE  /\ s[c].pc = "undo_rm" /\ s'[c].pc = "undo_cp" /\ Same(c)
  BY <1>2, GoFacts DEF UndoRm
<1>3. ASSUME UndoCp(c)
      PROVE  /\ s[c].pc = "undo_cp" /\ Keeps(c)
             /\ \/ s'[c].pc \in {"undo_rm", "undo_start"} /\ s'[c].left = Tail(s[c].left)
                \/ WriteFails /\ s'[c].pc = "used" /\ s'[c].st = 2
  <2>1. CASE s' = [s EXCEPT ![c].left = Tail(@),
                            ![c].pc = IF Len(s[c].left) > 1 THEN "undo_rm" ELSE "undo_start"]
    BY <1>3, <2>1 DEF UndoCp, Locals, Keeps
  <2>2. CASE WriteFails /\ GoWith(c, "used", 2)
    <3>1. s'[c].pc = "used" /\ s'[c].st = 2 /\ Same(c)
      BY <2>2, GoWithFacts
    <3>2. QED
      BY <1>3, <2>2, <3>1 DEF UndoCp, Same, Keeps
  <2>3. QED
    BY <1>3, <2>1, <2>2 DEF UndoCp
<1>4. ASSUME UndoStart(c)
      PROVE  /\ s[c].pc = "undo_start" /\ Same(c)
             /\ \/ ~s[c].act /\ s'[c].pc = "used" /\ s'[c].st = 1 /\ UNCHANGED service
                \/ /\ s[c].act
                   /\ \E x \in {0, 1} : IF s[c].tun THEN SudoStart(x) ELSE Start(x)
                   /\ s'[c].pc = "undo_ports" \/ (s'[c].pc = "used" /\ s'[c].st = 2)
  <2>1. CASE ~s[c].act /\ GoWith(c, "used", 1) /\ UNCHANGED service
    BY <1>4, <2>1, GoWithFacts DEF UndoStart
  <2>2. ASSUME s[c].act, NEW x \in {0, 1}, IF s[c].tun THEN SudoStart(x) ELSE Start(x),
               IF x = 0 THEN Go(c, "undo_ports") ELSE GoWith(c, "used", 2)
        PROVE  Same(c) /\ (s'[c].pc = "undo_ports" \/ (s'[c].pc = "used" /\ s'[c].st = 2))
    <3>1. CASE x = 0
      BY <2>2, <3>1, GoFacts
    <3>2. CASE x = 1
      BY <2>2, <3>2, GoWithFacts
    <3>3. QED
      BY <2>2, <3>1, <3>2
  <2>3. QED
    BY <1>4, <2>1, <2>2 DEF UndoStart
<1>5. ASSUME UndoPorts(c)
      PROVE  /\ s[c].pc = "undo_ports" /\ s'[c].pc = "used" /\ Same(c)
             /\ s'[c].st = 2 \/ (s'[c].st = 1 /\ Running # {})
  <2>1. CASE Running # {} /\ GoWith(c, "used", 1)
    BY <1>5, <2>1, GoWithFacts DEF UndoPorts
  <2>2. CASE GoWith(c, "used", 2)
    BY <1>5, <2>2, GoWithFacts DEF UndoPorts
  <2>3. QED
    BY <1>5, <2>1, <2>2 DEF UndoPorts
<1>6. QED
  BY <1>1, <1>2, <1>3, <1>4, <1>5

LEMMA AddMoves ==
    ASSUME Types, NEW c \in Sessions
    PROVE  /\ Add(c) => /\ s[c].pc = "add"
                        /\ \/ s'[c].pc = "done" /\ s'[c].st = 1 /\ Same(c)
                           \/ /\ s'[c].pc = "update" /\ s'[c].op = "readd" /\ s'[c].old = s[c].old
                           \/ /\ s'[c].pc = "download" /\ Same(c)
           /\ Update(c) => /\ s[c].pc = "update" /\ s'[c].op = s[c].op /\ s'[c].id = s[c].id
                           /\ s'[c].old = s[c].old
                           /\ \/ s'[c].pc = "done" /\ s'[c].st = 1
                              \/ /\ s'[c].pc = "download" /\ s'[c].url = meta.urls[s[c].id]
           /\ Download(c) => /\ s[c].pc = "download" /\ s'[c].pc = "check" /\ Same(c)
           /\ Check(c) => /\ s[c].pc = "check" /\ Same(c)
                          /\ \/ s'[c].pc = "done" /\ s'[c].st = 1
                             \/ s'[c].pc = "store" /\ Valid(temp)
                             \/ s'[c].pc = "replace" /\ Valid(temp)
           /\ Store(c) => /\ s[c].pc = "store" /\ s'[c].op = s[c].op /\ s'[c].url = s[c].url
                          /\ s'[c].old = s[c].old
                          /\ \/ s'[c].pc = "done" /\ s'[c].st = 1 /\ UNCHANGED prof
                             \/ /\ s'[c].pc = "enter" /\ s'[c].id = NextId /\ NextId \in Ids
                                /\ prof' = [prof EXCEPT ![NextId] = temp]
           /\ Enter(c) => /\ s[c].pc = "enter" /\ Same(c)
                          /\ \/ s'[c].pc = "use"
                             \/ s'[c].pc = "done" /\ s'[c].st = 1
<1>a. s \in [Sessions -> Locals] /\ s[c] \in Locals
  BY DEF Types, LocalsOK
<1> USE <1>a DEF At, Labels, UndoLabels, MergeLabels, DelLabels
<1>1. ASSUME Add(c)
      PROVE  /\ s[c].pc = "add"
             /\ \/ s'[c].pc = "done" /\ s'[c].st = 1 /\ Same(c)
                \/ /\ s'[c].pc = "update" /\ s'[c].op = "readd" /\ s'[c].old = s[c].old
                \/ /\ s'[c].pc = "download" /\ Same(c)
  <2>1. CASE Exit(c, 1)
    <3>1. s'[c].pc = "done" /\ s'[c].st = 1 /\ Same(c)
      BY <2>1, GoWithFacts DEF Exit
    <3>2. QED
      BY <1>1, <3>1 DEF Add
  <2>2. CASE \E i \in Ids : s' = [s EXCEPT ![c].op = "readd", ![c].id = i, ![c].pc = "update"]
    <3>1. s'[c].pc = "update" /\ s'[c].op = "readd" /\ s'[c].old = s[c].old
      BY <2>2 DEF Locals
    <3>2. QED
      BY <1>1, <3>1 DEF Add
  <2>3. CASE Go(c, "download")
    BY <1>1, <2>3, GoFacts DEF Add
  <2>4. QED
    BY <1>1, <2>1, <2>2, <2>3 DEF Add
<1>2. ASSUME Update(c)
      PROVE  /\ s[c].pc = "update" /\ s'[c].op = s[c].op /\ s'[c].id = s[c].id
             /\ s'[c].old = s[c].old
             /\ \/ s'[c].pc = "done" /\ s'[c].st = 1
                \/ /\ s'[c].pc = "download" /\ s'[c].url = meta.urls[s[c].id]
  <2>1. CASE s' = [s EXCEPT ![c].url = meta.urls[s[c].id], ![c].pc = "download"]
    BY <1>2, <2>1 DEF Update, Locals
  <2>2. CASE Exit(c, 1)
    <3>1. s'[c].pc = "done" /\ s'[c].st = 1 /\ Same(c)
      BY <2>2, GoWithFacts DEF Exit
    <3>2. QED
      BY <1>2, <3>1 DEF Update, Same
  <2>3. QED
    BY <1>2, <2>1, <2>2 DEF Update
<1>3. ASSUME Download(c)
      PROVE  /\ s[c].pc = "download" /\ s'[c].pc = "check" /\ Same(c)
  BY <1>3, GoFacts DEF Download
<1>4. ASSUME Check(c)
      PROVE  /\ s[c].pc = "check" /\ Same(c)
             /\ \/ s'[c].pc = "done" /\ s'[c].st = 1
                \/ s'[c].pc = "store" /\ Valid(temp)
                \/ s'[c].pc = "replace" /\ Valid(temp)
  <2>1. CASE Exit(c, 1)
    BY <1>4, <2>1, GoWithFacts DEF Check, Exit
  <2>2. CASE Valid(temp) /\ (Go(c, "store") \/ Go(c, "replace"))
    BY <1>4, <2>2, GoFacts DEF Check
  <2>3. QED
    BY <1>4, <2>1, <2>2 DEF Check
<1>5. ASSUME Store(c)
      PROVE  /\ s[c].pc = "store" /\ s'[c].op = s[c].op /\ s'[c].url = s[c].url
             /\ s'[c].old = s[c].old
             /\ \/ s'[c].pc = "done" /\ s'[c].st = 1 /\ UNCHANGED prof
                \/ /\ s'[c].pc = "enter" /\ s'[c].id = NextId /\ NextId \in Ids
                   /\ prof' = [prof EXCEPT ![NextId] = temp]
  <2>1. CASE Exit(c, 1) /\ UNCHANGED prof
    <3>1. s'[c].pc = "done" /\ s'[c].st = 1 /\ Same(c)
      BY <2>1, GoWithFacts DEF Exit
    <3>2. QED
      BY <1>5, <2>1, <3>1 DEF Store, Same
  <2>2. CASE /\ NextId \in Ids /\ prof' = [prof EXCEPT ![NextId] = temp]
             /\ s' = [s EXCEPT ![c].id = NextId, ![c].pc = "enter"]
    BY <1>5, <2>2 DEF Store, Locals
  <2>3. QED
    BY <1>5, <2>1, <2>2 DEF Store
<1>6. ASSUME Enter(c)
      PROVE  /\ s[c].pc = "enter" /\ Same(c)
             /\ \/ s'[c].pc = "use"
                \/ s'[c].pc = "done" /\ s'[c].st = 1
  <2>1. CASE Go(c, "use")
    BY <1>6, <2>1, GoFacts DEF Enter
  <2>2. CASE Exit(c, 1)
    BY <1>6, <2>2, GoWithFacts DEF Enter, Exit
  <2>3. QED
    BY <1>6, <2>1, <2>2 DEF Enter
<1>7. QED
  BY <1>1, <1>2, <1>3, <1>4, <1>5, <1>6

LEMMA UpdateMoves ==
    ASSUME Types, NEW c \in Sessions
    PROVE  /\ Replace(c) => /\ s[c].pc = "replace" /\ s'[c].op = s[c].op /\ s'[c].id = s[c].id
                            /\ s'[c].url = s[c].url
                            /\ \/ /\ prof' = [prof EXCEPT ![s[c].id] = temp] /\ s'[c].st = 0
                                  /\ meta.use = s[c].id => prof[s[c].id] # Absent
                                  /\ IF meta.use = s[c].id
                                     THEN s'[c].pc = "use" /\ s'[c].old = prof[s[c].id]
                                     ELSE s'[c].pc = "updated" /\ s'[c].old = Absent
                               \/ WriteFails /\ s'[c].pc = "done" /\ s'[c].st = 1
                               \/ /\ s'[c].pc = "done" /\ s'[c].st = 1
                                  /\ s'[c].old = s[c].old /\ UNCHANGED prof
           /\ Used(c) => /\ s[c].pc = "used" /\ s'[c].st = s[c].st /\ Same(c)
                         /\ \/ /\ s[c].old # Absent /\ s[c].st = 0
                               /\ s'[c].pc = "updated" /\ UNCHANGED prof
                            \/ /\ s[c].old # Absent /\ s[c].st # 0 /\ s'[c].pc = "done"
                               /\ \E f \in Written(s[c].old) : prof' = [prof EXCEPT ![s[c].id] = f]
                            \/ s[c].old = Absent /\ s'[c].pc = "done" /\ UNCHANGED prof
           /\ Updated(c) => /\ s[c].pc = "updated" /\ s'[c].op = s[c].op /\ s'[c].id = s[c].id
                            /\ s'[c].taken = s[c].taken
                            /\ \/ /\ s'[c].pc = "use" /\ s'[c].old = Absent /\ meta.use # s[c].id
                               \/ /\ s'[c].pc = "done" /\ s'[c].st = 0 /\ s'[c].old = s[c].old
                                  /\ s[c].op = "readd" => meta.use = s[c].id
<1>a. s \in [Sessions -> Locals] /\ s[c] \in Locals
  BY DEF Types, LocalsOK
<1> USE <1>a DEF At, Labels, UndoLabels, MergeLabels, DelLabels
<1>1. ASSUME Replace(c)
      PROVE  /\ s[c].pc = "replace" /\ s'[c].op = s[c].op /\ s'[c].id = s[c].id
             /\ s'[c].url = s[c].url
             /\ \/ /\ prof' = [prof EXCEPT ![s[c].id] = temp] /\ s'[c].st = 0
                   /\ meta.use = s[c].id => prof[s[c].id] # Absent
                   /\ IF meta.use = s[c].id
                      THEN s'[c].pc = "use" /\ s'[c].old = prof[s[c].id]
                      ELSE s'[c].pc = "updated" /\ s'[c].old = Absent
                \/ WriteFails /\ s'[c].pc = "done" /\ s'[c].st = 1
                \/ /\ s'[c].pc = "done" /\ s'[c].st = 1
                   /\ s'[c].old = s[c].old /\ UNCHANGED prof
  <2>a. s[c].id \in Ids
    BY <1>1 DEF Replace, Types, LocalsOK, Route, Routed, Updating
  <2>1. CASE /\ prof' = [prof EXCEPT ![s[c].id] = temp]
             /\ s' = [s EXCEPT ![c].old = IF meta.use = s[c].id THEN prof[s[c].id] ELSE Absent,
                               ![c].st = 0,
                               ![c].pc = IF meta.use = s[c].id THEN "use" ELSE "updated"]
             /\ meta.use = s[c].id => prof[s[c].id] # Absent
    <3>1. CASE meta.use = s[c].id
      BY <1>1, <2>1, <3>1 DEF Replace, Locals
    <3>2. CASE meta.use # s[c].id
      BY <1>1, <2>1, <3>2 DEF Replace, Locals
    <3>3. QED
      BY <3>1, <3>2
  <2>2. CASE WriteFails /\ s' = [s EXCEPT ![c].old = prof[s[c].id], ![c].st = 1, ![c].pc = "done"]
    BY <1>1, <2>2 DEF Replace, Locals
  <2>3. CASE Exit(c, 1) /\ UNCHANGED prof
    <3>1. s'[c].pc = "done" /\ s'[c].st = 1 /\ Same(c)
      BY <2>3, GoWithFacts DEF Exit
    <3>2. QED
      BY <1>1, <2>3, <3>1 DEF Replace, Same
  <2>4. QED
    BY <1>1, <2>1, <2>2, <2>3 DEF Replace
<1>2. ASSUME Used(c)
      PROVE  /\ s[c].pc = "used" /\ s'[c].st = s[c].st /\ Same(c)
             /\ \/ /\ s[c].old # Absent /\ s[c].st = 0
                   /\ s'[c].pc = "updated" /\ UNCHANGED prof
                \/ /\ s[c].old # Absent /\ s[c].st # 0 /\ s'[c].pc = "done"
                   /\ \E f \in Written(s[c].old) : prof' = [prof EXCEPT ![s[c].id] = f]
                \/ s[c].old = Absent /\ s'[c].pc = "done" /\ UNCHANGED prof
  <2>1. Go(c, "updated") => s'[c].pc = "updated" /\ s'[c].st = s[c].st /\ Same(c)
    BY GoFacts
  <2>2. Go(c, "done") => s'[c].pc = "done" /\ s'[c].st = s[c].st /\ Same(c)
    BY GoFacts
  <2>3. QED
    BY <1>2, <2>1, <2>2 DEF Used
<1>3. ASSUME Updated(c)
      PROVE  /\ s[c].pc = "updated" /\ s'[c].op = s[c].op /\ s'[c].id = s[c].id
             /\ s'[c].taken = s[c].taken
             /\ \/ /\ s'[c].pc = "use" /\ s'[c].old = Absent /\ meta.use # s[c].id
                \/ /\ s'[c].pc = "done" /\ s'[c].st = 0 /\ s'[c].old = s[c].old
                   /\ s[c].op = "readd" => meta.use = s[c].id
  <2>1. CASE meta.use # s[c].id /\ s' = [s EXCEPT ![c].old = Absent, ![c].pc = "use"]
    BY <1>3, <2>1 DEF Updated, Locals
  <2>2. CASE (s[c].op = "readd" => meta.use = s[c].id) /\ Exit(c, 0)
    <3>1. s'[c].pc = "done" /\ s'[c].st = 0 /\ Same(c)
      BY <2>2, GoWithFacts DEF Exit
    <3>2. QED
      BY <1>3, <2>2, <3>1 DEF Updated, Same
  <2>3. QED
    BY <1>3, <2>1, <2>2 DEF Updated
<1>4. QED
  BY <1>1, <1>2, <1>3

LEMMA DelMoves ==
    ASSUME Types, NEW c \in Sessions
    PROVE  /\ Del(c) => /\ s[c].pc = "del" /\ s'[c].op = s[c].op /\ s'[c].id = s[c].id
                        /\ s'[c].old = s[c].old
                        /\ \/ s'[c].pc = "done" /\ s'[c].st = 1
                           \/ /\ s'[c].act = (meta.use = s[c].id)
                              /\ s'[c].pc = IF meta.use = s[c].id THEN "del_stop" ELSE "del_entry"
           /\ DelStop(c) => /\ s[c].pc = "del_stop" /\ Same(c)
                            /\ \/ s'[c].pc = "del_check" /\ Stop(FALSE, 0)
                               \/ /\ s'[c].pc = "done" /\ s'[c].st = 1
                                  /\ \E x \in 0..2 : Stop(FALSE, x)
           /\ DelCheck(c) => /\ s[c].pc = "del_check" /\ Same(c)
                             /\ s'[c].pc = "del_entry" \/ (s'[c].pc = "done" /\ s'[c].st = 1)
           /\ DelEntry(c) => /\ s[c].pc = "del_entry" /\ Same(c)
                             /\ \/ /\ s'[c].pc = IF s[c].act THEN "del_config" ELSE "del_profile"
                                   /\ meta' = [meta EXCEPT !.urls[s[c].id] = NoUrl,
                                                           !.use = IF s[c].act THEN NoId ELSE @]
                                \/ WriteFails /\ s'[c].pc = "done" /\ s'[c].st = 1 /\ UNCHANGED meta
           /\ DelConfig(c) => /\ s[c].pc = "del_config" /\ s'[c].pc = "del_profile" /\ Same(c)
           /\ DelProfile(c) => /\ s[c].pc = "del_profile" /\ s'[c].pc = "done" /\ s'[c].st = 0 /\ Same(c)
<1>a. s \in [Sessions -> Locals] /\ s[c] \in Locals
  BY DEF Types, LocalsOK
<1> USE <1>a DEF At, Labels, UndoLabels, MergeLabels, DelLabels
<1>1. ASSUME Del(c)
      PROVE  /\ s[c].pc = "del" /\ s'[c].op = s[c].op /\ s'[c].id = s[c].id
             /\ s'[c].old = s[c].old
             /\ \/ s'[c].pc = "done" /\ s'[c].st = 1
                \/ /\ s'[c].act = (meta.use = s[c].id)
                   /\ s'[c].pc = IF meta.use = s[c].id THEN "del_stop" ELSE "del_entry"
  <2>1. CASE Exit(c, 1)
    <3>1. s'[c].pc = "done" /\ s'[c].st = 1 /\ Same(c)
      BY <2>1, GoWithFacts DEF Exit
    <3>2. QED
      BY <1>1, <3>1 DEF Del, Same
  <2>2. CASE s' = [s EXCEPT ![c].act = (meta.use = s[c].id),
                            ![c].pc = IF meta.use = s[c].id THEN "del_stop" ELSE "del_entry"]
    BY <1>1, <2>2 DEF Del, Locals
  <2>3. QED
    BY <1>1, <2>1, <2>2 DEF Del
<1>2. ASSUME DelStop(c)
      PROVE  /\ s[c].pc = "del_stop" /\ Same(c)
             /\ \/ s'[c].pc = "del_check" /\ Stop(FALSE, 0)
                \/ /\ s'[c].pc = "done" /\ s'[c].st = 1
                   /\ \E x \in 0..2 : Stop(FALSE, x)
  <2>1. CASE Stop(FALSE, 0) /\ Go(c, "del_check")
    BY <1>2, <2>1, GoFacts DEF DelStop
  <2>2. CASE Exit(c, 1) /\ \E x \in 0..2 : Stop(FALSE, x)
    <3>1. s'[c].pc = "done" /\ s'[c].st = 1 /\ Same(c)
      BY <2>2, GoWithFacts DEF Exit
    <3>2. QED
      BY <1>2, <2>2, <3>1 DEF DelStop
  <2>3. QED
    BY <1>2, <2>1, <2>2 DEF DelStop
<1>3. ASSUME DelCheck(c)
      PROVE  /\ s[c].pc = "del_check" /\ Same(c)
             /\ s'[c].pc = "del_entry" \/ (s'[c].pc = "done" /\ s'[c].st = 1)
  <2>1. CASE Go(c, "del_entry")
    BY <1>3, <2>1, GoFacts DEF DelCheck
  <2>2. CASE Exit(c, 1)
    BY <1>3, <2>2, GoWithFacts DEF DelCheck, Exit
  <2>3. QED
    BY <1>3, <2>1, <2>2 DEF DelCheck
<1>4. ASSUME DelEntry(c)
      PROVE  /\ s[c].pc = "del_entry" /\ Same(c)
             /\ \/ /\ s'[c].pc = IF s[c].act THEN "del_config" ELSE "del_profile"
                   /\ meta' = [meta EXCEPT !.urls[s[c].id] = NoUrl,
                                           !.use = IF s[c].act THEN NoId ELSE @]
                \/ WriteFails /\ s'[c].pc = "done" /\ s'[c].st = 1 /\ UNCHANGED meta
  <2>1. CASE /\ meta' = [meta EXCEPT !.urls[s[c].id] = NoUrl,
                                     !.use = IF s[c].act THEN NoId ELSE @]
             /\ Go(c, IF s[c].act THEN "del_config" ELSE "del_profile")
    <3>1. CASE s[c].act
      BY <1>4, <2>1, <3>1, GoFacts DEF DelEntry
    <3>2. CASE ~s[c].act
      BY <1>4, <2>1, <3>2, GoFacts DEF DelEntry
    <3>3. QED
      BY <3>1, <3>2
  <2>2. CASE WriteFails /\ Exit(c, 1) /\ UNCHANGED meta
    BY <1>4, <2>2, GoWithFacts DEF DelEntry, Exit
  <2>3. QED
    BY <1>4, <2>1, <2>2 DEF DelEntry
<1>5. ASSUME DelConfig(c)
      PROVE  /\ s[c].pc = "del_config" /\ s'[c].pc = "del_profile" /\ Same(c)
  BY <1>5, GoFacts DEF DelConfig
<1>6. ASSUME DelProfile(c)
      PROVE  /\ s[c].pc = "del_profile" /\ s'[c].pc = "done" /\ s'[c].st = 0 /\ Same(c)
  BY <1>6, GoWithFacts DEF DelProfile, Exit
<1>7. QED
  BY <1>1, <1>2, <1>3, <1>4, <1>5, <1>6

(***************************************************************************)
(* Where the clauses on kernels say nothing.                               *)
(***************************************************************************)
SwitchLabels == MergeLabels \cup UndoLabels \cup {"switch", "switched", "commit"}

LEMMA NoSwitch ==
    ASSUME NEW c \in Sessions, s'[c].pc \notin SwitchLabels
    PROVE  Switches(c)'
BY DEF Switches, SwitchLabels, Inside, MergeLabels

LEMMA NoDeletion ==
    ASSUME Types', NEW c \in Sessions, s'[c].op # "del"
    PROVE  Stopped(c)'
BY DEF Types, LocalsOK, Route, Routed, DelLabels, Stopped, Ended, At

LEMMA MergeKernels ==
    ASSUME KernelsInv, NEW c \in Sessions, Merging(c), Types'
    PROVE  Sole' /\ Switches(c)' /\ Stopped(c)'
<1>a. Types /\ ServiceOK /\ Sole /\ Switches(c) /\ s[c].mtun \in BOOLEAN
  BY DEF KernelsInv, TurnsInv, Types, LocalsOK, Locals
<1>b. /\ s[c].pc \in MergeLabels /\ s'[c].op = s[c].op
      /\ s[c].ret \in {"switched", "mixin_done"}
      /\ s[c].op # "del" /\ (s[c].op # "mixin" => Inside(c))
      /\ s[c].op = "mixin" => s[c].ret = "mixin_done"
  BY <1>a, MergingMoves DEF Types, LocalsOK, Route, Routed, Kept, Inside, Switching
<1>c. Stopped(c)'
  BY <1>b, NoDeletion
<1> USE <1>b DEF Inside, MergeLabels, UndoLabels
<1>1. CASE Merge(c)
  <2>1. Sole' /\ Users' = Users
    BY <1>1, <1>a, SameKernels DEF Merge, service
  <2>2. Switches(c)'
    BY <1>1, <1>a, <2>1, MergeMoves, TunIsRoots DEF Switches, NoUser, Keeps
  <2>3. QED
    BY <1>c, <2>1, <2>2
<1>2. CASE MergeTruncate(c) \/ MergeWrite(c) \/ MergeCheck(c)
  <2>1. Sole' /\ Users' = Users
    BY <1>2, <1>a, SameKernels DEF MergeTruncate, MergeWrite, MergeCheck, service
  <2>2. /\ s[c].pc \in {"merge_truncate", "merge_write", "merge_check"} /\ Same(c)
        /\ s'[c].pc \in {"merge_write", "merge_check", "restop", s[c].ret}
    BY <1>2, <1>a, MergeMoves
  <2>3. Switches(c)'
    BY <1>a, <2>1, <2>2 DEF Switches, NoUser, Same
  <2>4. QED
    BY <1>c, <2>1, <2>3
<1>3. CASE Restop(c)
  <2>1. \E x \in 0..2 : Stop(s[c].mtun, x)
    BY <1>3 DEF Restop
  <2>2. /\ s[c].pc = "restop" /\ Same(c)
        /\ s'[c].pc = IF s[c].mtun THEN "restop_check" ELSE "restart"
    BY <1>3, <1>a, RestartMoves
  <2>3. Sole' /\ NoUser'
    BY <1>a, <2>1, <2>2, StopKernels DEF Switches, NoUser
  <2>4. Switches(c)'
    BY <2>2, <2>3 DEF Switches
  <2>5. QED
    BY <1>c, <2>3, <2>4
<1>4. CASE RestopCheck(c) \/ RestartTun(c)
  <2>1. Sole' /\ Users' = Users
    BY <1>4, <1>a, SameKernels DEF RestopCheck, RestartTun, Look, service
  <2>2. s[c].pc \in {"restop_check", "restart_tun"} /\ Same(c) /\ s'[c].pc \in {"restart", s[c].ret}
    BY <1>4, <1>a, RestartMoves
  <2>3. Switches(c)'
    BY <1>a, <2>1, <2>2 DEF Switches, NoUser
  <2>4. QED
    BY <1>c, <2>1, <2>3
<1>5. CASE Restart(c)
  <2>1. /\ s[c].pc = "restart" /\ Same(c) /\ NoUser
        /\ \/ s'[c].pc = "restart_tun" /\ \E x \in {0, 1} : SudoStart(x)
           \/ ~TunEnabled /\ s'[c].pc = s[c].ret /\ Start(s'[c].st)
    BY <1>5, <1>a, RestartMoves DEF Switches
  <2>2. CASE s'[c].pc = "restart_tun" /\ \E x \in {0, 1} : SudoStart(x)
    <3>1. NoUser' /\ Sole'
      BY <1>a, <2>1, <2>2, SudoStartKernels
    <3>2. QED
      BY <1>c, <2>2, <3>1 DEF Switches
  <2>3. CASE ~TunEnabled /\ s'[c].pc = s[c].ret /\ Start(s'[c].st)
    <3>1. Sole' /\ UNCHANGED runtime /\ ~runtime.tun
      BY <1>5, <1>a, <2>3, StartKernels DEF Restart, files, TunEnabled
    <3>2. Switches(c)'
      BY <2>1, <2>3, <3>1 DEF Switches, Same
    <3>3. QED
      BY <1>c, <3>1, <3>2
  <2>4. QED
    BY <2>1, <2>2, <2>3
<1>6. QED
  BY <1>1, <1>2, <1>3, <1>4, <1>5 DEF Merging
LEMMA SwitchKernels ==
    ASSUME KernelsInv, NEW c \in Sessions, Types',
           MixinDone(c) \/ Use(c) \/ Snapshot(c) \/ Switch(c) \/ Switched(c) \/ Commit(c)
    PROVE  Sole' /\ Switches(c)' /\ Stopped(c)'
<1>a. Types /\ ServiceOK /\ Sole /\ Switches(c) /\ Route(c)
  BY DEF KernelsInv, TurnsInv, Types, LocalsOK
<1>b. /\ s[c].pc \in {"mixin_done", "use", "snapshot", "switch", "switched", "commit"}
      /\ s[c].op # "del" /\ (s[c].pc # "mixin_done" => s[c].op # "mixin")
      /\ s'[c].op = s[c].op
  BY <1>a, SwitchMoves DEF Route, Routed, Switching, Same, Keeps
<1>c. Stopped(c)'
  BY <1>b, NoDeletion
<1>1. Sole' /\ Users' = Users
  BY <1>a, SameKernels DEF MixinDone, Use, Snapshot, Switch, Switched, Commit, Look, service
<1>2. CASE MixinDone(c) \/ Use(c)
  <2>1. s'[c].pc \in {"done", "snapshot", "used"}
    BY <1>2, <1>a, SwitchMoves
  <2>2. QED
    BY <1>c, <1>1, <2>1, NoSwitch DEF SwitchLabels, MergeLabels, UndoLabels
<1>3. CASE Snapshot(c)
  <2>1. s'[c].pc = "used" \/ (s'[c].pc = "switch" /\ s'[c].tun = TunUp)
    BY <1>3, <1>a, SwitchMoves
  <2>2. Switches(c)'
    BY <1>a, <1>1, <2>1, TunIsRoots DEF Switches, Inside, MergeLabels, UndoLabels, NoUser
  <2>3. QED
    BY <1>c, <1>1, <2>2
<1>4. CASE Switch(c)
  <2>1. s[c].pc = "switch" /\ s'[c].pc \in {"merge", "undo"} /\ s'[c].tun = s[c].tun
    BY <1>4, <1>a, SwitchMoves DEF Keeps
  <2>2. Switches(c)'
    BY <1>a, <1>b, <1>1, <2>1 DEF Switches, Inside, NoUser
  <2>3. QED
    BY <1>c, <1>1, <2>2
<1>5. CASE Switched(c) \/ Commit(c)
  <2>1. /\ s[c].pc \in {"switched", "commit"} /\ s'[c].pc \in {"commit", "undo", "used"}
        /\ s'[c].tun = s[c].tun /\ UNCHANGED runtime
    BY <1>5, <1>a, SwitchMoves DEF Same, Switched, Commit, files
  <2>2. Switches(c)'
    BY <1>a, <1>b, <1>1, <2>1 DEF Switches, Inside, NoUser, MergeLabels, UndoLabels
  <2>3. QED
    BY <1>c, <1>1, <2>2
<1>6. QED
  BY <1>2, <1>3, <1>4, <1>5

LEMMA UndoKernels ==
    ASSUME KernelsInv, NEW c \in Sessions, Types',
           Undo(c) \/ UndoRm(c) \/ UndoCp(c) \/ UndoStart(c) \/ UndoPorts(c)
    PROVE  Sole' /\ Switches(c)' /\ Stopped(c)'
<1>a. Types /\ ServiceOK /\ Sole /\ Switches(c) /\ Route(c) /\ runtime \in Files
  BY DEF KernelsInv, TurnsInv, Types, LocalsOK, FilesOK
<1>b. /\ s[c].pc \in UndoLabels /\ s'[c].pc \in UndoLabels \cup {"used"}
      /\ s'[c].pc # "undo"
      /\ s'[c].op = s[c].op /\ s'[c].tun = s[c].tun
  BY <1>a, UndoMoves DEF UndoLabels, Same, Keeps
<1>c. Inside(c) /\ s[c].op # "del"
  BY <1>a, <1>b DEF Inside, Route, Routed, Switching
<1>d. Stopped(c)'
  BY <1>b, <1>c, NoDeletion
<1>e. ASSUME s[c].tun => NoUser' PROVE Switches(c)'
  BY <1>b, <1>e DEF Switches, UndoLabels
<1>1. CASE Undo(c)
  <2>1. TunEnabled = runtime.tun /\ TunEnabled \in BOOLEAN /\ s[c].pc = "undo"
    BY <1>1, <1>a DEF TunEnabled, Files, Undo, At
  <2>2. \E x \in 0..2 : Stop(TunEnabled, x)
    BY <1>1 DEF Undo
  <2>3. Sole' /\ Users' \subseteq Users /\ (~TunEnabled => Users' = {})
    BY <1>a, <2>1, <2>2, StopKernels
  <2>4. s[c].tun => NoUser'
    BY <1>a, <1>c, <2>1, <2>3 DEF Switches, NoUser
  <2>5. QED
    BY <1>d, <1>e, <2>3, <2>4
<1>2. CASE UndoRm(c) \/ UndoCp(c) \/ UndoPorts(c)
  <2>1. Sole' /\ Users' = Users
    BY <1>2, <1>a, SameKernels DEF UndoRm, UndoCp, UndoPorts, Look, service
  <2>2. s[c].pc \in {"undo_rm", "undo_cp", "undo_ports"}
    BY <1>2 DEF UndoRm, UndoCp, UndoPorts, At
  <2>3. s[c].tun => NoUser'
    BY <1>a, <1>c, <2>1, <2>2 DEF Switches, NoUser
  <2>4. QED
    BY <1>d, <1>e, <2>1, <2>3
<1>3. CASE UndoStart(c)
  <2>1. s[c].pc = "undo_start" /\ (s[c].tun => NoUser)
    BY <1>3, <1>a, <1>c DEF UndoStart, At, Switches
  <2>2. \/ UNCHANGED kern
        \/ \E x \in {0, 1} : IF s[c].tun THEN SudoStart(x) ELSE Start(x)
    BY <1>3 DEF UndoStart, service
  <2>3. CASE UNCHANGED kern
    BY <1>a, <1>d, <1>e, <2>1, <2>3, SameKernels DEF NoUser
  <2>4. CASE s[c].tun /\ \E x \in {0, 1} : SudoStart(x)
    BY <1>a, <1>d, <1>e, <2>1, <2>4, SudoStartKernels
  <2>5. CASE ~s[c].tun /\ \E x \in {0, 1} : Start(x)
    BY <1>a, <1>d, <1>e, <2>5, StartKernels
  <2>6. QED
    BY <2>2, <2>3, <2>4, <2>5
<1>4. QED
  BY <1>1, <1>2, <1>3

LEMMA FileKernels ==
    ASSUME KernelsInv, NEW c \in Sessions, Types',
           \/ Add(c) \/ Update(c) \/ Download(c) \/ Check(c) \/ Store(c) \/ Enter(c)
           \/ Replace(c) \/ Used(c) \/ Updated(c) \/ Finish(c)
    PROVE  Sole' /\ Switches(c)' /\ Stopped(c)'
<1>a. Types /\ Sole /\ Route(c) /\ s \in [Sessions -> Locals]
  BY DEF KernelsInv, TurnsInv, Types, LocalsOK
<1>1. UNCHANGED kern
  BY DEF Add, Update, Download, Check, Store, Enter, Replace, Used, Updated, Finish, service
<1>2. CASE Finish(c)
  <2>1. s'[c].pc = "idle" /\ s'[c].op = "none"
    BY <1>2, <1>a DEF Finish, NoSession
  <2>2. QED
    BY <1>a, <1>1, <2>1, NoSwitch, NoDeletion, SameKernels
       DEF SwitchLabels, MergeLabels, UndoLabels
<1>3. CASE ~Finish(c)
  <2>1. s'[c].op \in {s[c].op, "readd"} /\ s[c].op # "del"
    BY <1>a, <1>3, AddMoves, UpdateMoves DEF Route, Routed, Same, Adding, Updating, Switching
  <2>2. s'[c].pc \in {"done", "update", "download", "check", "store", "replace", "enter",
                      "use", "updated"}
    BY <1>a, <1>3, AddMoves, UpdateMoves
  <2>3. QED
    BY <1>a, <1>1, <2>1, <2>2, NoSwitch, NoDeletion, SameKernels
       DEF SwitchLabels, MergeLabels, UndoLabels
<1>4. QED
  BY <1>2, <1>3

LEMMA DelKernels ==
    ASSUME KernelsInv, NEW c \in Sessions,
           Del(c) \/ DelStop(c) \/ DelCheck(c) \/ DelEntry(c) \/ DelConfig(c) \/ DelProfile(c)
    PROVE  Sole' /\ Switches(c)' /\ Stopped(c)'
<1>a. Types /\ ServiceOK /\ Sole /\ Stopped(c)
  BY DEF KernelsInv, TurnsInv, Types
<1>b. Switches(c)'
  <2>1. s'[c].pc \in {"done", "del_stop", "del_entry", "del_check", "del_config", "del_profile"}
    BY <1>a, DelMoves
  <2>2. QED
    BY <2>1, NoSwitch DEF SwitchLabels, MergeLabels, UndoLabels
<1> USE DEF Ended, At
<1>1. CASE Del(c)
  <2>1. Sole' /\ Running' = Running
    BY <1>1, <1>a, SameKernels DEF Del, service
  <2>2. \/ s'[c].pc = "done" /\ s'[c].st = 1
        \/ s'[c].pc = "del_stop"
        \/ s'[c].pc = "del_entry" /\ ~s'[c].act
    BY <1>1, <1>a, DelMoves
  <2>3. Stopped(c)'
    BY <2>2 DEF Stopped
  <2>4. QED
    BY <1>b, <2>1, <2>3
<1>2. CASE DelStop(c)
  <2>1. \/ s'[c].pc = "del_check" /\ Stop(FALSE, 0)
        \/ s'[c].pc = "done" /\ s'[c].st = 1 /\ \E x \in 0..2 : Stop(FALSE, x)
    BY <1>2, <1>a, DelMoves
  <2>2. CASE s'[c].pc = "del_check" /\ Stop(FALSE, 0)
    <3>1. Sole' /\ Running' = {}
      <4>1. FALSE \in BOOLEAN /\ 0 \in 0..2
        OBVIOUS
      <4>2. QED
        BY <1>a, <2>2, <4>1, StopKernels
    <3>2. QED
      BY <1>b, <2>2, <3>1 DEF Stopped
  <2>3. CASE s'[c].pc = "done" /\ s'[c].st = 1 /\ \E x \in 0..2 : Stop(FALSE, x)
    <3>1. Sole'
      BY <1>a, <2>3, StopKernels
    <3>2. QED
      BY <1>b, <2>3, <3>1 DEF Stopped
  <2>4. QED
    BY <2>1, <2>2, <2>3
<1>3. CASE DelCheck(c)
  <2>1. Sole' /\ Running' = Running
    BY <1>3, <1>a, SameKernels DEF DelCheck, Look
  <2>2. /\ s[c].pc = "del_check"
        /\ s'[c].pc = "del_entry" \/ (s'[c].pc = "done" /\ s'[c].st = 1)
    BY <1>3, <1>a, DelMoves
  <2>3. Stopped(c)'
    BY <1>a, <2>1, <2>2 DEF Stopped
  <2>4. QED
    BY <1>b, <2>1, <2>3
<1>4. CASE DelEntry(c)
  <2>1. Sole' /\ Running' = Running
    BY <1>4, <1>a, SameKernels DEF DelEntry, service
  <2>2. /\ s[c].pc = "del_entry" /\ s'[c].act = s[c].act
        /\ \/ s'[c].pc = IF s[c].act THEN "del_config" ELSE "del_profile"
           \/ s'[c].pc = "done" /\ s'[c].st = 1
    BY <1>4, <1>a, DelMoves DEF Same
  <2>3. Stopped(c)'
    BY <1>a, <2>1, <2>2 DEF Stopped
  <2>4. QED
    BY <1>b, <2>1, <2>3
<1>5. CASE DelConfig(c)
  <2>1. Sole' /\ Running' = Running /\ runtime' = Absent
    BY <1>5, <1>a, SameKernels DEF DelConfig, service
  <2>2. Stopped(c)'
    BY <1>5, <1>a, <2>1, DelMoves DEF Stopped
  <2>3. QED
    BY <1>b, <2>1, <2>2
<1>6. CASE DelProfile(c)
  <2>1. Sole' /\ Running' = Running /\ runtime' = runtime
    BY <1>6, <1>a, SameKernels DEF DelProfile, service
  <2>2. Stopped(c)'
    BY <1>6, <1>a, <2>1, DelMoves DEF Stopped, Same
  <2>3. QED
    BY <1>b, <2>1, <2>2
<1>7. QED
  BY <1>1, <1>2, <1>3, <1>4, <1>5, <1>6

(***************************************************************************)
(* The steps there are while commands run in turns.                        *)
(***************************************************************************)
Moves(c) == Step(c) \/ Interrupt(c) \/ \E o \in Commands : Begin(c, o)

LEMMA Turns ==
    ASSUME Serial, TurnsInv, [Next]_vars
    PROVE  /\ TurnsInv'
           /\ \/ UNCHANGED vars
              \/ \E k \in Slots : Die(k)
              \/ \E c \in Sessions :
                   Moves(c) /\ \A d \in Sessions \ {c} : s[d].pc = "idle" /\ s'[d].pc = "idle"
<1>1. TurnsInv'
  BY TurnsStep
<1>2. ASSUME NEW c \in Sessions, Moves(c), NEW d \in Sessions \ {c}
      PROVE  s[d].pc = "idle" /\ s'[d].pc = "idle"
  <2>1. s'[d] = s[d]
    BY <1>2, OthersStay DEF Moves, TurnsInv
  <2>2. CASE \E o \in Commands : Begin(c, o)
    BY <2>1, <2>2 DEF Begin, At
  <2>3. CASE Interrupt(c)
    BY <2>1, <2>3, <1>2 DEF Interrupt, TurnsInv, OneAtWork, At
  <2>4. CASE Step(c)
    BY <2>1, <2>4, <1>2, StepNotIdle DEF TurnsInv, OneAtWork, At
  <2>5. QED
    BY <1>2, <2>2, <2>3, <2>4 DEF Moves
<1>3. QED
  BY <1>1, <1>2 DEF Next, Moves

LEMMA BeginMoves ==
    ASSUME Types, NEW c \in Sessions, NEW o \in Commands, Begin(c, o)
    PROVE  /\ s[c].pc = "idle" /\ s'[c].pc \in {"use", "update", "del", "add", "merge"}
           /\ s'[c].tun = s[c].tun /\ s'[c].mtun = s[c].mtun /\ s'[c].old = s[c].old
           /\ s'[c].op = "mixin" \/ s'[c].pc # "merge"
           /\ UNCHANGED <<base, runtime, temp, meta, prof, service>>
<1>a. s \in [Sessions -> Locals] /\ s[c] \in Locals
  BY DEF Types, LocalsOK
<1>1. CASE o \in {"use", "update", "del"}
  <2>1. PICK i \in Ids : s' = [s EXCEPT ![c].op = o, ![c].pc = o, ![c].id = i]
    BY <1>1 DEF Begin
  <2>2. QED
    BY <1>a, <1>1, <2>1 DEF Begin, At, Locals
<1>2. CASE o \in {"add", "add_use"}
  <2>1. PICK u \in Urls : s' = [s EXCEPT ![c].op = o, ![c].pc = "add", ![c].url = u]
    BY <1>2 DEF Begin
  <2>2. QED
    BY <1>a, <2>1 DEF Begin, At, Locals
<1>3. CASE o = "mixin"
  <2>1. s' = [s EXCEPT ![c].op = o, ![c].pc = "merge", ![c].ret = "mixin_done"]
    BY <1>3 DEF Begin
  <2>2. QED
    BY <1>a, <1>3, <2>1 DEF Begin, At, Locals
<1>4. QED
  BY <1>1, <1>2, <1>3 DEF Begin

LEMMA InterruptMoves ==
    ASSUME Types, NEW c \in Sessions, Interrupt(c) \/ Finish(c)
    PROVE  s'[c].pc = "idle" /\ UNCHANGED <<files, service>>
BY DEF Interrupt, Finish, NoSession, Types, LocalsOK

\* A command goes on until it is done.
LEMMA StepOn ==
    ASSUME Types, NEW c \in Sessions, Step(c), ~Finish(c)
    PROVE  s'[c].pc # "idle"
<1>1. CASE Merging(c)
  BY <1>1, MergingMoves DEF MergeLabels, Types, LocalsOK, Route, Routed
<1>2. CASE ~Merging(c)
  BY <1>2, SwitchMoves, UndoMoves, AddMoves, UpdateMoves, DelMoves DEF Step, Merging
<1>3. QED
  BY <1>1, <1>2

LEMMA InitKernels == Init => KernelsInv
<1> SUFFICES ASSUME Init PROVE KernelsInv
  OBVIOUS
<1>1. TurnsInv /\ \A c \in Sessions : s[c].pc = "idle"
  BY InitTurns DEF Init, NoSession
<1>2. \A c \in Sessions : Switches(c) /\ Stopped(c)
  BY <1>1 DEF Switches, Stopped, Inside, MergeLabels, UndoLabels, Ended, At
<1>3. Sole
  <2>1. CASE kern = [k \in Slots |-> NoKernel]
    BY <2>1 DEF Sole, Users, NoKernel
  <2>2. CASE \E k \in Slots : kern = [j \in Slots |-> IF j # k THEN NoKernel
                               ELSE [owner |-> "user", conf |-> runtime, tun |-> FALSE]]
    BY <2>2 DEF Sole, Users, Running, NoKernel
  <2>3. QED
    BY <2>1, <2>2 DEF Init
<1>4. QED
  BY <1>1, <1>2, <1>3 DEF KernelsInv

LEMMA MovesKernels ==
    ASSUME KernelsInv, NEW c \in Sessions, Moves(c), Types'
    PROVE  Sole' /\ Switches(c)' /\ Stopped(c)'
<1>a. Types /\ Sole
  BY DEF KernelsInv, TurnsInv
<1>1. CASE Step(c)
  BY <1>1, MergeKernels, SwitchKernels, UndoKernels, FileKernels, DelKernels DEF Step, Merging
<1>2. CASE Interrupt(c)
  <2>1. s'[c].pc = "idle" /\ UNCHANGED kern
    BY <1>2, <1>a, InterruptMoves DEF service
  <2>2. QED
    BY <1>a, <2>1, SameKernels DEF Switches, Stopped, Inside, MergeLabels, UndoLabels, Ended, At
<1>3. CASE \E o \in Commands : Begin(c, o)
  <2>1. /\ s'[c].pc \in {"use", "update", "del", "add", "merge"} /\ UNCHANGED kern
        /\ s'[c].op = "mixin" \/ s'[c].pc # "merge"
    BY <1>3, <1>a, BeginMoves DEF service
  <2>2. QED
    BY <1>a, <2>1, SameKernels DEF Switches, Stopped, Inside, MergeLabels, UndoLabels, Ended, At
<1>4. QED
  BY <1>1, <1>2, <1>3 DEF Moves

LEMMA KernelsStep ==
    ASSUME Serial, KernelsInv, [Next]_vars
    PROVE  KernelsInv'
<1>a. TurnsInv /\ TurnsInv' /\ Types' /\ Sole
  BY Turns DEF KernelsInv, TurnsInv
<1>1. CASE UNCHANGED vars
  BY <1>1, <1>a DEF KernelsInv, vars, Sole, Users, Running, Switches, Stopped, NoUser, Inside, Ended, At
<1>2. ASSUME NEW k \in Slots, Die(k)
      PROVE  KernelsInv'
  <2>1. Users' \subseteq Users /\ Running' \subseteq Running /\ Sole'
    BY <1>2, <1>a, FewerKernels DEF Die, TurnsInv, Types
  <2>2. UNCHANGED <<runtime, s>>
    BY <1>2 DEF Die, files
  <2>3. ASSUME NEW c \in Sessions PROVE Switches(c)' /\ Stopped(c)'
    <3>1. Switches(c) /\ Stopped(c)
      BY DEF KernelsInv
    <3>2. Switches(c)'
      BY <3>1, <2>1, <2>2 DEF Switches, NoUser, Inside
    <3>3. Stopped(c)'
      BY <3>1, <2>1, <2>2 DEF Stopped, Ended, At
    <3>4. QED
      BY <3>2, <3>3
  <2>4. QED
    BY <1>a, <2>1, <2>3 DEF KernelsInv
<1>3. ASSUME NEW c \in Sessions, Moves(c), \A d \in Sessions \ {c} : s'[d].pc = "idle"
      PROVE  KernelsInv'
  <2>1. Sole' /\ Switches(c)' /\ Stopped(c)'
    BY <1>3, <1>a, MovesKernels
  <2>2. \A d \in Sessions \ {c} : Switches(d)' /\ Stopped(d)'
    BY <1>3 DEF Switches, Stopped, Inside, MergeLabels, UndoLabels, Ended, At
  <2>3. QED
    BY <1>a, <2>1, <2>2 DEF KernelsInv
<1>4. QED
  BY <1>a, <1>1, <1>2, <1>3, Turns

LEMMA KernelsInvariant ==
    ASSUME Serial
    PROVE  Spec => []KernelsInv
<1>1. KernelsInv /\ [Next]_vars => KernelsInv'
  BY KernelsStep
<1>2. QED
  BY <1>1, InitKernels, PTL DEF Spec

\* While commands run in turns, a deletion of the profile in use that succeeds leaves no
\* kernel and no runtime (sub.sh:152-170), whatever crashes, whichever write fails and
\* wherever other commands are interrupted.
THEOREM DeletedRunsNowhere ==
    ASSUME Serial
    PROVE  Spec => []DeletedIsDown
<1>1. KernelsInv => DeletedIsDown
  BY DEF KernelsInv, Stopped, DeletedIsDown
<1>2. QED
  BY <1>1, KernelsInvariant, PTL

(***************************************************************************)
(* A new id is the id of no profile.                                       *)
(***************************************************************************)
LEMMA NextIdIsNew == NextId \in 1..(MaxId + 1) /\ ~Listed(NextId)
<1> DEFINE Above == {n \in Nat : n >= 1 /\ \A j \in Ids : Listed(j) => j < n}
           New(i) == (\A j \in Ids : Listed(j) => j < i) /\ (i = 1 \/ Listed(i - 1))
<1>1. MaxId \in Nat /\ MaxId + 1 \in Above
  BY MaxIdAssumption DEF Ids
<1>2. \E n \in Above : \A m \in Above : ~(<<m, n>> \in OpToRel(<, Nat))
  <2>1. Above \subseteq Nat /\ Above # {}
    BY <1>1
  <2>2. QED
    BY <2>1, NatLessThanWellFounded, WFMin
<1>3. PICK n \in Above : \A m \in Above : ~(<<m, n>> \in OpToRel(<, Nat))
  BY <1>2
<1>4. \A m \in Above : m >= n
  <2>1. OpToRel(<, Nat) = {e \in Nat \X Nat : e[1] < e[2]}
    BY DEF OpToRel
  <2>2. ASSUME NEW m \in Above, ~(m >= n) PROVE FALSE
    <3>1. <<m, n>> \in {e \in Nat \X Nat : e[1] < e[2]}
      BY <2>2
    <3>2. QED
      BY <1>3, <2>1, <2>2, <3>1
  <2>3. QED
    BY <2>2
<1>5. n \in 1..(MaxId + 1)
  BY <1>1, <1>4
<1>6. New(n)
  <2>1. CASE n = 1
    BY <2>1
  <2>2. CASE n # 1
    <3>1. n - 1 \in Nat /\ n - 1 >= 1 /\ ~(n - 1 >= n)
      BY <1>5, <2>2
    <3>2. n - 1 \notin Above
      BY <1>4, <3>1
    <3>3. PICK j \in Ids : Listed(j) /\ ~(j < n - 1)
      BY <3>1, <3>2
    <3>4. j < n /\ j \in Nat
      BY <3>3 DEF Ids
    <3>5. j = n - 1
      BY <3>1, <3>3, <3>4, <1>5
    <3>6. QED
      BY <3>3, <3>5
  <2>3. QED
    BY <2>1, <2>2
<1>7. NextId \in 1..(MaxId + 1) /\ New(NextId)
  BY <1>5, <1>6 DEF NextId
<1>8. NextId \in Ids /\ Listed(NextId) => NextId < NextId
  BY <1>7
<1>9. QED
  BY <1>1, <1>7, <1>8 DEF Ids, Listed

(***************************************************************************)
(* Profiles hold what came from their links, and an update that fails      *)
(* leaves its profile.  Writes do not fail here, for a failed one leaves   *)
(* an empty profile.                                                       *)
(***************************************************************************)
Fresh(c) == s[c].pc \in {"update", "download", "check", "replace"} => s[c].old = Absent
PutBack(c) ==
    s[c].pc = "done" /\ s[c].op \in Updating /\ s[c].st # 0 /\ s[c].old # Absent
        => prof[s[c].id] = s[c].old

OwnLinks(m) == \A i \in Ids : m.urls[i] # NoUrl => prof[i].url = m.urls[i]
OldOf(c, m) == s[c].old # Absent /\ m.urls[s[c].id] # NoUrl => s[c].old.url = m.urls[s[c].id]

Links(c) ==
    /\ Inside(c) => OwnLinks(s[c].snapMeta) /\ OldOf(c, s[c].snapMeta)
    /\ s[c].pc \in {"use", "snapshot", "used"} => OldOf(c, meta)
    /\ s[c].pc = "check" /\ Valid(temp) => temp.url = s[c].url
    /\ s[c].pc \in {"store", "replace"} => temp.url = s[c].url
    /\ s[c].pc \in {"download", "check", "replace"} /\ s[c].op \in Updating
         => meta.urls[s[c].id] = s[c].url
    /\ s[c].pc = "enter" => prof[s[c].id].url = s[c].url

UpdatesInv == TurnsInv /\ \A c \in Sessions : Fresh(c) /\ PutBack(c)
LinksInv == UpdatesInv /\ OwnLinks(meta) /\ \A c \in Sessions : Links(c)

\* Only an update has an old version, and at most from its replacement on.
LEMMA NoOld ==
    ASSUME Types', NEW c \in Sessions, s'[c].op \notin Updating
    PROVE  Fresh(c)' /\ PutBack(c)'
BY DEF Types, LocalsOK, Route, Routed, Fresh, PutBack

LEMMA StepUpdates ==
    ASSUME ~WriteFails, UpdatesInv, NEW c \in Sessions, Step(c), Types'
    PROVE  Fresh(c)' /\ PutBack(c)'
<1>a. Types /\ Fresh(c) /\ PutBack(c) /\ Route(c) /\ prof \in [Ids -> Files]
  BY DEF UpdatesInv, TurnsInv, Types, LocalsOK, FilesOK
<1>1. CASE Merging(c)
  <2>1. s'[c].pc \in MergeLabels \cup {"switched", "mixin_done"}
    BY <1>a, <1>1, MergingMoves DEF Types, LocalsOK, Route, Routed
  <2>2. QED
    BY <2>1 DEF Fresh, PutBack, MergeLabels
<1>2. CASE MixinDone(c) \/ Use(c) \/ Snapshot(c) \/ Switch(c) \/ Switched(c) \/ Commit(c)
  <2>1. \/ s'[c].pc \in {"snapshot", "used", "switch", "merge", "undo", "commit"}
        \/ s[c].pc = "mixin_done" /\ s'[c].op = s[c].op
    BY <1>a, <1>2, SwitchMoves DEF Same
  <2>2. CASE s'[c].pc \in {"snapshot", "used", "switch", "merge", "undo", "commit"}
    BY <2>2 DEF Fresh, PutBack
  <2>3. CASE s[c].pc = "mixin_done" /\ s'[c].op = s[c].op
    BY <1>a, <2>3, NoOld DEF Route, Routed, Updating
  <2>4. QED
    BY <2>1, <2>2, <2>3
<1>3. CASE Undo(c) \/ UndoRm(c) \/ UndoCp(c) \/ UndoStart(c) \/ UndoPorts(c)
  <2>1. s'[c].pc \in UndoLabels \cup {"used"}
    BY <1>a, <1>3, UndoMoves DEF UndoLabels
  <2>2. QED
    BY <2>1 DEF Fresh, PutBack, UndoLabels
<1>4. CASE Add(c) \/ Update(c) \/ Download(c) \/ Check(c) \/ Store(c) \/ Enter(c)
  <2>1. s[c].op \in Updating => s[c].old = Absent
    BY <1>a, <1>4, AddMoves DEF Fresh, Route, Routed, Updating, Adding
  <2>2. s'[c].old = s[c].old /\ s[c].old = Absent
    BY <1>a, <1>4, <2>1, AddMoves DEF Same, Route, Routed
  <2>3. QED
    BY <2>2 DEF Fresh, PutBack
<1>5. CASE Replace(c)
  <2>1. s[c].old = Absent
    BY <1>a, <1>5, UpdateMoves DEF Fresh
  <2>2. \/ s'[c].pc \in {"use", "updated"}
        \/ s'[c].pc = "done" /\ s'[c].old = Absent
    BY <1>a, <1>5, <2>1, UpdateMoves
  <2>3. QED
    BY <2>2 DEF Fresh, PutBack
<1>6. CASE Used(c)
  <2>1. /\ s'[c].pc \in {"updated", "done"} /\ Same(c) /\ s'[c].st = s[c].st
        /\ s[c].st # 0 /\ s[c].old # Absent => prof' = [prof EXCEPT ![s[c].id] = s[c].old]
    BY <1>a, <1>6, UpdateMoves DEF Written
  <2>2. s[c].op \in Updating => s[c].id \in Ids
    BY <1>a DEF Route, Routed
  <2>3. QED
    BY <1>a, <2>1, <2>2 DEF Fresh, PutBack, Same
<1>7. CASE Updated(c)
  <2>1. s'[c].pc = "use" \/ (s'[c].pc = "done" /\ s'[c].st = 0)
    BY <1>a, <1>7, UpdateMoves
  <2>2. QED
    BY <2>1 DEF Fresh, PutBack
<1>8. CASE Del(c) \/ DelStop(c) \/ DelCheck(c) \/ DelEntry(c) \/ DelConfig(c) \/ DelProfile(c)
  <2>1. s'[c].op = s[c].op /\ s[c].op = "del"
    BY <1>a, <1>8, DelMoves DEF Same, Route, Routed, DelLabels
  <2>2. QED
    BY <2>1, NoOld DEF Updating
<1>9. CASE Finish(c)
  BY <1>a, <1>9, InterruptMoves DEF Fresh, PutBack
<1>10. QED
  BY <1>1, <1>2, <1>3, <1>4, <1>5, <1>6, <1>7, <1>8, <1>9 DEF Step, Merging

LEMMA UpdatesStep ==
    ASSUME Serial, ~WriteFails, UpdatesInv, [Next]_vars
    PROVE  UpdatesInv'
<1>a. TurnsInv /\ TurnsInv' /\ Types /\ Types'
  BY Turns DEF UpdatesInv, TurnsInv
<1>1. CASE UNCHANGED vars \/ \E k \in Slots : Die(k)
  <2>1. UNCHANGED <<prof, s>>
    BY <1>1 DEF vars, Die, files
  <2>2. QED
    BY <1>a, <2>1 DEF UpdatesInv, Fresh, PutBack
<1>2. ASSUME NEW c \in Sessions, Moves(c), \A d \in Sessions \ {c} : s'[d].pc = "idle"
      PROVE  UpdatesInv'
  <2>1. Fresh(c)' /\ PutBack(c)'
    <3>1. CASE Step(c)
      BY <1>a, <3>1, StepUpdates
    <3>2. CASE Interrupt(c)
      BY <1>a, <3>2, InterruptMoves DEF Fresh, PutBack
    <3>3. CASE \E o \in Commands : Begin(c, o)
      <4>1. /\ s'[c].pc # "done" /\ s'[c].old = s[c].old /\ s[c].pc = "idle"
        BY <1>a, <3>3, BeginMoves
      <4>2. s[c].old = Absent
        BY <1>a, <4>1 DEF Types, LocalsOK, Route, Routed, Updating
      <4>3. QED
        BY <4>1, <4>2 DEF Fresh, PutBack
    <3>4. QED
      BY <1>2, <3>1, <3>2, <3>3 DEF Moves
  <2>2. \A d \in Sessions \ {c} : Fresh(d)' /\ PutBack(d)'
    BY <1>2 DEF Fresh, PutBack
  <2>3. QED
    BY <1>a, <2>1, <2>2 DEF UpdatesInv
<1>3. QED
  BY <1>a, <1>1, <1>2, Turns

LEMMA InitUpdates == Init => UpdatesInv
<1> SUFFICES ASSUME Init PROVE UpdatesInv
  OBVIOUS
<1>1. TurnsInv /\ \A c \in Sessions : s[c].pc = "idle"
  BY InitTurns DEF Init, NoSession
<1>2. QED
  BY <1>1 DEF UpdatesInv, Fresh, PutBack

\* While commands run in turns and writes do not fail, an update that fails leaves the
\* profile as it was (sub.sh:336-341), whatever crashes and whichever command is interrupted.
THEOREM FailedUpdateKeepsProfile ==
    ASSUME Serial, ~WriteFails
    PROVE  Spec => []UpdateKeepsProfile
<1>1. UpdatesInv /\ [Next]_vars => UpdatesInv'
  BY UpdatesStep
<1>2. UpdatesInv => UpdateKeepsProfile
  BY DEF UpdatesInv, PutBack, UpdateKeepsProfile, Updating, At
<1>3. QED
  BY <1>1, <1>2, InitUpdates, PTL DEF Spec

(***************************************************************************)
(* The links, step by step.                                                *)
(***************************************************************************)

\* Inside the switch and its rollback, as long as profiles.yaml lists what it did.
LEMMA InsideLinks ==
    ASSUME LinksInv, NEW c \in Sessions, Inside(c), Keeps(c), UNCHANGED prof,
           s'[c].pc \in SwitchLabels \cup {"used"},
           meta'.urls = meta.urls \/ meta' = NoMeta \/ meta' = s[c].snapMeta,
           s'[c].pc = "used" => meta'.urls = s[c].snapMeta.urls
    PROVE  OwnLinks(meta)' /\ Links(c)'
<1>1. /\ OwnLinks(meta) /\ OwnLinks(s[c].snapMeta) /\ OldOf(c, s[c].snapMeta)
  BY DEF LinksInv, Links
<1>2. OwnLinks(meta')
  BY <1>1 DEF OwnLinks, NoMeta
<1>3. OwnLinks(meta)'
  BY <1>2 DEF OwnLinks
<1>4. OldOf(c, s[c].snapMeta)' /\ OwnLinks(s[c].snapMeta)'
  BY <1>1 DEF OldOf, OwnLinks, Keeps
<1>5. s'[c].pc = "used" => OldOf(c, meta)'
  BY <1>1 DEF OldOf, Keeps
<1>6. QED
  BY <1>3, <1>4, <1>5 DEF Links, SwitchLabels, MergeLabels, UndoLabels

\* A step that leaves entries and files alone, to a label where nothing is known of them.
LEMMA OutsideLinks ==
    ASSUME LinksInv, NEW c \in Sessions, meta'.urls = meta.urls, UNCHANGED prof,
           s'[c].op = "mixin" \/ s'[c].pc \notin SwitchLabels,
           s'[c].pc \notin {"check", "store", "replace", "download", "enter"},
           s'[c].pc \in {"use", "snapshot", "used"}
               => s'[c].old = Absent \/ (OldOf(c, meta) /\ s'[c].old = s[c].old /\ s'[c].id = s[c].id)
    PROVE  OwnLinks(meta)' /\ Links(c)'
<1>1. OwnLinks(meta)'
  BY DEF LinksInv, OwnLinks
<1>2. ~Inside(c)'
  BY DEF Inside, SwitchLabels
<1>3. s'[c].pc \in {"use", "snapshot", "used"} => OldOf(c, meta)'
  BY DEF OldOf
<1>4. QED
  BY <1>1, <1>2, <1>3 DEF Links

LEMMA MergeLinks ==
    ASSUME LinksInv, NEW c \in Sessions, Merging(c)
    PROVE  OwnLinks(meta)' /\ Links(c)'
<1>a. Types /\ Route(c)
  BY DEF LinksInv, UpdatesInv, TurnsInv, Types, LocalsOK
<1>1. /\ s[c].pc \in MergeLabels /\ s'[c].pc \in MergeLabels \cup {s[c].ret} /\ Keeps(c)
      /\ UNCHANGED <<meta, prof>>
  <2>1. Keeps(c)
    BY <1>a, MergeMoves, RestartMoves DEF Merging, Same, Keeps
  <2>2. QED
    BY <1>a, <2>1, MergingMoves
<1>2. CASE s[c].op = "mixin"
  <2>1. s'[c].op = "mixin" /\ s'[c].pc \in MergeLabels \cup {"mixin_done"}
    BY <1>a, <1>1, <1>2 DEF Route, Routed, Keeps
  <2>2. QED
    BY <1>1, <2>1, OutsideLinks DEF MergeLabels
<1>3. CASE s[c].op # "mixin"
  <2>1. Inside(c) /\ s'[c].pc \in MergeLabels \cup {"switched"}
    BY <1>a, <1>1, <1>3 DEF Route, Routed, Inside
  <2>2. QED
    BY <1>1, <2>1, InsideLinks DEF SwitchLabels, MergeLabels
<1>4. QED
  BY <1>2, <1>3

LEMMA SwitchLinks ==
    ASSUME ~WriteFails, LinksInv, NEW c \in Sessions,
           MixinDone(c) \/ Use(c) \/ Snapshot(c) \/ Switch(c) \/ Switched(c) \/ Commit(c)
    PROVE  OwnLinks(meta)' /\ Links(c)'
<1>a. Types /\ Route(c) /\ Links(c) /\ OwnLinks(meta) /\ meta \in Metas /\ Snapshots(c)
  BY DEF LinksInv, UpdatesInv, TurnsInv, Types, LocalsOK, FilesOK, Knows
<1>b. UNCHANGED prof
  BY DEF MixinDone, Use, Snapshot, Switch, Switched, Commit, files
<1>1. CASE MixinDone(c)
  <2>1. s'[c].pc = "done" /\ UNCHANGED meta
    BY <1>a, <1>1, SwitchMoves DEF MixinDone, files
  <2>2. QED
    BY <1>b, <2>1, OutsideLinks DEF SwitchLabels, MergeLabels, UndoLabels
<1>2. CASE Use(c)
  <2>1. /\ s[c].pc = "use" /\ s'[c].pc \in {"snapshot", "used"} /\ UNCHANGED meta
        /\ s'[c].old = s[c].old /\ s'[c].id = s[c].id
    BY <1>a, <1>2, SwitchMoves DEF Use, files, Same
  <2>2. OldOf(c, meta)
    BY <1>a, <2>1 DEF Links
  <2>3. QED
    BY <1>b, <2>1, <2>2, OutsideLinks DEF SwitchLabels, MergeLabels, UndoLabels
<1>3. CASE Snapshot(c)
  <2>1. /\ s[c].pc = "snapshot" /\ s'[c].pc = "switch" /\ s'[c].snapMeta = meta
        /\ s'[c].id = s[c].id /\ s'[c].old = s[c].old /\ UNCHANGED meta
    BY <1>a, <1>3, SwitchMoves DEF Snapshot, files
  <2>2. OldOf(c, meta)
    BY <1>a, <2>1 DEF Links
  <2>3. OwnLinks(meta)' /\ OwnLinks(s[c].snapMeta)'
    BY <1>a, <1>b, <2>1 DEF OwnLinks
  <2>4. OldOf(c, s[c].snapMeta)'
    BY <2>1, <2>2 DEF OldOf
  <2>5. QED
    BY <2>1, <2>3, <2>4 DEF Links
<1>4. CASE Switch(c) \/ Switched(c)
  <2>1. /\ s[c].pc \in {"switch", "switched"} /\ s'[c].pc \in {"merge", "undo", "commit"}
        /\ Keeps(c) /\ UNCHANGED meta
    BY <1>a, <1>4, SwitchMoves DEF Switch, Switched, files, Same, Keeps
  <2>2. Inside(c)
    BY <1>a, <2>1 DEF Inside, Route, Routed, Switching
  <2>3. QED
    BY <1>b, <2>1, <2>2, InsideLinks DEF SwitchLabels, MergeLabels, UndoLabels
<1>5. CASE Commit(c)
  <2>1. /\ s[c].pc = "commit" /\ s'[c].pc \in {"used", "undo"} /\ Keeps(c)
        /\ UNCHANGED meta \/ meta' = [meta EXCEPT !.use = s[c].id]
    BY <1>a, <1>5, SwitchMoves DEF Same, Keeps
  <2>2. Inside(c)
    BY <1>a, <2>1 DEF Inside, Route, Routed, Switching
  <2>3. meta'.urls = meta.urls /\ meta = s[c].snapMeta
    BY <1>a, <2>1, <2>2 DEF Metas, Snapshots
  <2>4. QED
    BY <1>b, <2>1, <2>2, <2>3, InsideLinks DEF SwitchLabels, MergeLabels, UndoLabels
<1>6. QED
  BY <1>1, <1>2, <1>3, <1>4, <1>5

LEMMA UndoLinks ==
    ASSUME ~WriteFails, LinksInv, NEW c \in Sessions,
           Undo(c) \/ UndoRm(c) \/ UndoCp(c) \/ UndoStart(c) \/ UndoPorts(c)
    PROVE  OwnLinks(meta)' /\ Links(c)'
<1>a. Types /\ Route(c) /\ Snapshots(c)
  BY DEF LinksInv, UpdatesInv, TurnsInv, Types, LocalsOK, Knows
<1>1. /\ s[c].pc \in UndoLabels /\ s'[c].pc \in UndoLabels \cup {"used"} /\ Keeps(c)
      /\ s'[c].pc = "used" => s[c].pc \in {"undo_start", "undo_ports"}
  BY <1>a, UndoMoves DEF UndoLabels, Same, Keeps
<1>2. UNCHANGED prof /\ (UNCHANGED meta \/ meta' = NoMeta \/ meta' = s[c].snapMeta)
  BY DEF Undo, UndoRm, UndoCp, UndoStart, UndoPorts, files
<1>3. Inside(c)
  BY <1>a, <1>1 DEF Inside, Route, Routed, Switching
<1>4. s'[c].pc = "used" => meta' = meta /\ meta = s[c].snapMeta
  <2>1. s[c].pc \in {"undo_start", "undo_ports"} => UNCHANGED meta
    BY DEF Undo, UndoRm, UndoCp, UndoStart, UndoPorts, files, At
  <2>2. QED
    BY <1>a, <1>1, <2>1 DEF Snapshots, Restored
<1>5. QED
  BY <1>1, <1>2, <1>3, <1>4, InsideLinks DEF SwitchLabels

LEMMA AddLinks ==
    ASSUME HasWget, ~Converts, LinksInv, NEW c \in Sessions, Types',
           Add(c) \/ Update(c) \/ Download(c) \/ Check(c) \/ Store(c) \/ Enter(c)
    PROVE  OwnLinks(meta)' /\ Links(c)'
<1>a. Types /\ Route(c) /\ Links(c) /\ OwnLinks(meta) /\ meta \in Metas /\ prof \in [Ids -> Files]
  BY DEF LinksInv, UpdatesInv, TurnsInv, Types, LocalsOK, FilesOK
<1> USE DEF SwitchLabels, MergeLabels, UndoLabels
<1>1. CASE Add(c)
  <2>1. /\ s[c].pc = "add" /\ UNCHANGED <<meta, prof>>
        /\ s'[c].pc \in {"done", "update"} \/ (s'[c].pc = "download" /\ s'[c].op = s[c].op)
    BY <1>a, <1>1, AddMoves DEF Add, files, Same
  <2>2. CASE s'[c].pc \in {"done", "update"}
    BY <2>1, <2>2, OutsideLinks
  <2>3. CASE s'[c].pc = "download" /\ s'[c].op = s[c].op
    <3>1. s'[c].op \notin Updating
      BY <1>a, <2>1, <2>3 DEF Route, Routed, Updating, Adding
    <3>2. QED
      BY <1>a, <2>1, <2>3, <3>1 DEF Links, OwnLinks, Inside
  <2>4. QED
    BY <2>1, <2>2, <2>3
<1>2. CASE Update(c)
  <2>1. /\ UNCHANGED <<meta, prof>> /\ s'[c].id = s[c].id
        /\ s'[c].pc = "done" \/ (s'[c].pc = "download" /\ s'[c].url = meta.urls[s[c].id])
    BY <1>a, <1>2, AddMoves DEF Update, files
  <2>2. CASE s'[c].pc = "done"
    BY <2>1, <2>2, OutsideLinks
  <2>3. CASE s'[c].pc = "download" /\ s'[c].url = meta.urls[s[c].id]
    BY <1>a, <2>1, <2>3 DEF Links, OwnLinks, Inside
  <2>4. QED
    BY <2>1, <2>2, <2>3
<1>3. CASE Download(c)
  <2>1. /\ s[c].pc = "download" /\ s'[c].pc = "check" /\ Same(c) /\ UNCHANGED <<meta, prof>>
    BY <1>a, <1>3, AddMoves DEF Download, Untouched
  <2>2. Valid(temp') => temp'.url = s[c].url
    BY <1>3 DEF Download, Untouched, Valid, Empty, File
  <2>3. Valid(temp)' => temp'.url = s'[c].url
    BY <2>1, <2>2 DEF Same, Valid
  <2>4. QED
    BY <1>a, <2>1, <2>3 DEF Links, OwnLinks, Inside, Same
<1>4. CASE Check(c)
  <2>1. /\ s[c].pc = "check" /\ Same(c) /\ UNCHANGED <<meta, prof, temp>>
        /\ s'[c].pc = "done" \/ (s'[c].pc \in {"store", "replace"} /\ Valid(temp))
    BY <1>a, <1>4, AddMoves DEF Check, files
  <2>2. CASE s'[c].pc = "done"
    BY <2>1, <2>2, OutsideLinks
  <2>3. CASE s'[c].pc \in {"store", "replace"} /\ Valid(temp)
    BY <1>a, <2>1, <2>3 DEF Links, OwnLinks, Inside, Same
  <2>4. QED
    BY <2>1, <2>2, <2>3
<1>5. CASE Store(c)
  <2>1. s[c].pc = "store" /\ s'[c].url = s[c].url /\ UNCHANGED meta
    BY <1>a, <1>5, AddMoves DEF Store
  <2>2. CASE s'[c].pc = "done" /\ UNCHANGED prof
    BY <2>1, <2>2, OutsideLinks
  <2>3. CASE /\ s'[c].pc = "enter" /\ s'[c].id = NextId /\ NextId \in Ids
             /\ prof' = [prof EXCEPT ![NextId] = temp]
    <3>1. /\ prof'[NextId] = temp /\ \A i \in Ids : i # NextId => prof'[i] = prof[i]
      BY <1>a, <2>3
    <3>2. meta.urls[NextId] = NoUrl
      BY <2>3, NextIdIsNew DEF Listed
    <3>3. OwnLinks(meta)'
      BY <1>a, <2>1, <3>1, <3>2 DEF OwnLinks
    <3>4. prof'[s'[c].id].url = s'[c].url
      BY <1>a, <2>1, <2>3, <3>1 DEF Links
    <3>5. QED
      BY <2>3, <3>3, <3>4 DEF Links, Inside
  <2>4. QED
    BY <1>a, <1>5, <2>2, <2>3, AddMoves
<1>6. CASE Enter(c)
  <2>1. /\ s[c].pc = "enter" /\ s'[c].pc \in {"use", "done"} /\ s'[c].old = s[c].old
        /\ UNCHANGED prof /\ s[c].id \in Ids /\ prof[s[c].id].url = s[c].url
        /\ s[c].old = Absent
    BY <1>a, <1>6, AddMoves DEF Enter, Same, Route, Routed, Updating, Adding, Links
  <2>2. OwnLinks(meta)'
    <3>1. \A i \in Ids : meta'.urls[i] = meta.urls[i] \/ (i = s[c].id /\ meta'.urls[i] = s[c].url)
      BY <1>a, <1>6, <2>1 DEF Enter, Metas
    <3>2. QED
      BY <1>a, <2>1, <3>1 DEF OwnLinks
  <2>3. QED
    BY <2>1, <2>2 DEF Links, Inside, OldOf
<1>7. QED
  BY <1>1, <1>2, <1>3, <1>4, <1>5, <1>6

LEMMA UpdateLinks ==
    ASSUME ~WriteFails, LinksInv, NEW c \in Sessions, Replace(c) \/ Used(c) \/ Updated(c)
    PROVE  OwnLinks(meta)' /\ Links(c)'
<1>a. Types /\ Route(c) /\ Links(c) /\ OwnLinks(meta) /\ prof \in [Ids -> Files]
  BY DEF LinksInv, UpdatesInv, TurnsInv, Types, LocalsOK, FilesOK
<1>b. UNCHANGED meta
  BY DEF Replace, Used, Updated, files
<1>c. s[c].pc \in {"replace", "updated"} \/ s[c].old # Absent => s[c].id \in Ids
  BY <1>a DEF Route, Routed, Updating
<1> USE DEF SwitchLabels, MergeLabels, UndoLabels
<1>1. CASE Replace(c)
  <2>1. /\ s[c].pc = "replace" /\ s[c].id \in Ids /\ s'[c].id = s[c].id
        /\ temp.url = s[c].url /\ meta.urls[s[c].id] = s[c].url
    BY <1>a, <1>1, <1>c, UpdateMoves DEF Links, Route, Routed
  <2>2. CASE s'[c].pc = "done" /\ UNCHANGED prof
    BY <1>b, <2>2, OutsideLinks
  <2>3. CASE /\ prof' = [prof EXCEPT ![s[c].id] = temp]
             /\ \/ s'[c].pc = "use" /\ s'[c].old = prof[s[c].id]
                \/ s'[c].pc = "updated" /\ s'[c].old = Absent
    <3>1. OwnLinks(meta)'
      BY <1>a, <1>b, <2>1, <2>3 DEF OwnLinks
    <3>2. s'[c].pc = "use" => OldOf(c, meta)'
      BY <1>a, <1>b, <2>1, <2>3 DEF OwnLinks, OldOf
    <3>3. QED
      BY <2>3, <3>1, <3>2 DEF Links, Inside
  <2>4. QED
    BY <1>a, <1>1, <2>2, <2>3, UpdateMoves
<1>2. CASE Used(c)
  <2>1. /\ s[c].pc = "used" /\ s'[c].pc \in {"done", "updated"}
        /\ UNCHANGED prof \/ (s[c].old # Absent /\ prof' = [prof EXCEPT ![s[c].id] = s[c].old])
    BY <1>a, <1>2, UpdateMoves DEF Written
  <2>2. CASE UNCHANGED prof
    BY <1>b, <2>1, <2>2, OutsideLinks
  <2>3. CASE s[c].old # Absent /\ prof' = [prof EXCEPT ![s[c].id] = s[c].old]
    <3>1. OldOf(c, meta)
      BY <1>a, <2>1 DEF Links
    <3>2. OwnLinks(meta)'
      BY <1>a, <1>b, <1>c, <2>3, <3>1 DEF OwnLinks, OldOf
    <3>3. QED
      BY <2>1, <3>2 DEF Links, Inside
  <2>4. QED
    BY <2>1, <2>2, <2>3
<1>3. CASE Updated(c)
  <2>1. UNCHANGED prof /\ (s'[c].pc = "done" \/ (s'[c].pc = "use" /\ s'[c].old = Absent))
    BY <1>a, <1>3, UpdateMoves DEF Updated, files
  <2>2. QED
    BY <1>b, <2>1, OutsideLinks
<1>4. QED
  BY <1>1, <1>2, <1>3

LEMMA DelLinks ==
    ASSUME ~WriteFails, LinksInv, NEW c \in Sessions,
           Del(c) \/ DelStop(c) \/ DelCheck(c) \/ DelEntry(c) \/ DelConfig(c) \/ DelProfile(c)
    PROVE  OwnLinks(meta)' /\ Links(c)'
<1>a. /\ Types /\ Route(c) /\ Profiles(c) /\ OwnLinks(meta) /\ prof \in [Ids -> Files]
      /\ meta \in Metas
  BY DEF LinksInv, UpdatesInv, TurnsInv, Types, LocalsOK, FilesOK, Knows
<1>b. Links(c)'
  <2>1. s'[c].pc \in {"done", "del_stop", "del_check", "del_entry", "del_config", "del_profile"}
    BY <1>a, DelMoves
  <2>2. QED
    BY <2>1 DEF Links, Inside, MergeLabels, UndoLabels
<1>c. s[c].pc \in DelLabels => s[c].id \in Ids
  BY <1>a DEF Route, Routed
<1>1. CASE Del(c) \/ DelStop(c) \/ DelCheck(c) \/ DelConfig(c)
  <2>1. UNCHANGED <<meta, prof>>
    BY <1>1 DEF Del, DelStop, DelCheck, DelConfig, files
  <2>2. QED
    BY <1>a, <1>b, <2>1 DEF OwnLinks
<1>2. CASE DelEntry(c)
  <2>1. UNCHANGED prof /\ \A i \in Ids : meta'.urls[i] \in {meta.urls[i], NoUrl}
    BY <1>2, <1>a DEF DelEntry, Metas
  <2>2. QED
    BY <1>a, <1>b, <2>1 DEF OwnLinks
<1>3. CASE DelProfile(c)
  <2>1. UNCHANGED meta /\ ~Listed(s[c].id) /\ prof' = [prof EXCEPT ![s[c].id] = Absent]
    BY <1>3, <1>a DEF DelProfile, Profiles, At
  <2>2. QED
    BY <1>a, <1>b, <2>1 DEF OwnLinks, Listed
<1>4. QED
  BY <1>1, <1>2, <1>3

LEMMA LinksStep ==
    ASSUME Serial, ~WriteFails, HasWget, ~Converts, LinksInv, [Next]_vars
    PROVE  LinksInv'
<1>a. TurnsInv /\ UpdatesInv' /\ Types /\ Types' /\ OwnLinks(meta)
  BY Turns, UpdatesStep DEF LinksInv, UpdatesInv, TurnsInv
<1>1. CASE UNCHANGED vars \/ \E k \in Slots : Die(k)
  <2>1. UNCHANGED <<temp, meta, prof, s>>
    BY <1>1 DEF vars, Die, files
  <2>2. ASSUME NEW c \in Sessions PROVE Links(c)'
    <3>1. Links(c)
      BY DEF LinksInv
    <3>2. QED
      BY <2>1, <3>1 DEF Links, OwnLinks, OldOf, Inside, Valid
  <2>3. QED
    BY <1>a, <2>1, <2>2 DEF LinksInv, OwnLinks
<1>2. ASSUME NEW c \in Sessions, Moves(c), \A d \in Sessions \ {c} : s'[d].pc = "idle"
      PROVE  LinksInv'
  <2>1. OwnLinks(meta)' /\ Links(c)'
    <3>1. CASE Finish(c) \/ Interrupt(c)
      <4>1. s'[c].pc = "idle" /\ UNCHANGED <<meta, prof>>
        BY <1>a, <3>1, InterruptMoves DEF files
      <4>2. QED
        BY <4>1, OutsideLinks DEF SwitchLabels, MergeLabels, UndoLabels
    <3>2. CASE Step(c) /\ ~Finish(c)
      BY <1>a, <3>2, MergeLinks, SwitchLinks, UndoLinks, AddLinks, UpdateLinks, DelLinks
         DEF Step, Merging
    <3>3. CASE \E o \in Commands : Begin(c, o)
      <4>1. /\ s'[c].pc \in {"use", "update", "del", "add", "merge"} /\ UNCHANGED <<meta, prof>>
            /\ s'[c].old = s[c].old /\ s[c].pc = "idle"
            /\ s'[c].op = "mixin" \/ s'[c].pc # "merge"
        BY <1>a, <3>3, BeginMoves
      <4>2. s[c].old = Absent
        BY <1>a, <4>1 DEF Types, LocalsOK, Route, Routed, Updating
      <4>3. QED
        BY <4>1, <4>2, OutsideLinks DEF SwitchLabels, MergeLabels, UndoLabels
    <3>4. QED
      BY <1>2, <3>1, <3>2, <3>3 DEF Moves
  <2>2. \A d \in Sessions \ {c} : Links(d)'
    BY <1>2 DEF Links, Inside, MergeLabels, UndoLabels
  <2>3. QED
    BY <1>a, <2>1, <2>2 DEF LinksInv
<1>3. QED
  BY <1>a, <1>1, <1>2, Turns

LEMMA InitLinks == Init => LinksInv
<1> SUFFICES ASSUME Init PROVE LinksInv
  OBVIOUS
<1>1. UpdatesInv /\ \A c \in Sessions : s[c].pc = "idle"
  BY InitUpdates DEF Init, NoSession
<1>2. \A c \in Sessions : Links(c)
  BY <1>1 DEF Links, Inside, MergeLabels, UndoLabels
<1>3. OwnLinks(meta)
  <2>1. CASE meta = EmptyMeta
    BY <2>1 DEF EmptyMeta, OwnLinks, NoMeta
  <2>2. CASE \E u \in Urls :
               /\ base = File(u, "good", FALSE)
               /\ meta = [NoMeta EXCEPT !.there = TRUE, !.use = 1, !.urls[1] = u]
               /\ prof = [i \in Ids |-> IF i = 1 THEN base ELSE Absent]
    <3>1. PICK u \in Urls :
               /\ base = File(u, "good", FALSE)
               /\ meta = [NoMeta EXCEPT !.there = TRUE, !.use = 1, !.urls[1] = u]
               /\ prof = [i \in Ids |-> IF i = 1 THEN base ELSE Absent]
      BY <2>2
    <3>2. \A i \in Ids : meta.urls[i] = IF i = 1 THEN u ELSE NoUrl
      BY <3>1 DEF NoMeta
    <3>3. base.url = u
      BY <3>1 DEF File
    <3>4. QED
      BY <3>1, <3>2, <3>3 DEF OwnLinks
  <2>3. QED
    BY <2>1, <2>2 DEF Init
<1>4. QED
  BY <1>1, <1>2, <1>3 DEF LinksInv

\* While commands run in turns, writes do not fail, wget is there and no update takes the
\* converter (`--convert`, sub.sh:310), so that a download that fails leaves an empty file,
\* a profile holds what came from the link it is listed with (sub.sh:96-140, 290-345),
\* wherever commands are interrupted.
THEOREM ProfilesFromTheirLinks ==
    ASSUME Serial, ~WriteFails, HasWget, ~Converts
    PROVE  Spec => []FromOwnLink
<1>1. LinksInv /\ [Next]_vars => LinksInv'
  BY LinksStep
<1>2. LinksInv => FromOwnLink
  BY DEF LinksInv, OwnLinks, FromOwnLink, Listed
<1>3. QED
  BY <1>1, <1>2, InitLinks, PTL DEF Spec

(***************************************************************************)
(* config.yaml is the profile in use; or, while that one is updated, its   *)
(* old version.  From here on commands are not interrupted either: between *)
(* a write and the next nothing else keeps the files in step.              *)
(***************************************************************************)
InUse == meta.use # NoId => base = prof[meta.use]
Outdated(c) == meta.use = s[c].id /\ base = s[c].old

Basis(c) ==
    /\ s[c].pc \notin {"idle", "use", "snapshot", "used"} /\ ~Inside(c) => InUse
    /\ s[c].pc \in {"use", "snapshot"} => IF s[c].old = Absent THEN InUse ELSE Outdated(c)
    /\ s[c].pc = "used" => IF s[c].old = Absent \/ s[c].st = 0 THEN InUse ELSE Outdated(c)
    /\ Inside(c) => IF s[c].old = Absent
                    THEN s[c].snapMeta.use # NoId => s[c].snapBase = prof[s[c].snapMeta.use]
                    ELSE s[c].snapMeta.use = s[c].id /\ s[c].snapBase = s[c].old
    /\ Inside(c) /\ s[c].pc \in MergeLabels \cup {"switched", "commit"} => base = prof[s[c].id]
    /\ s[c].pc = "del_config" => meta.use = NoId

BasisInv == UpdatesInv /\ (NothingRuns => InUse) /\ \A c \in Sessions : Basis(c)

\* Where nothing but the agreement of config.yaml and profile is known.
LEMMA InUseStays ==
    ASSUME NEW c \in Sessions, InUse', s'[c].pc \notin SwitchLabels \/ s'[c].op = "mixin",
           s'[c].pc \notin {"use", "snapshot", "used", "del_config"}
    PROVE  Basis(c)'
BY DEF Basis, Inside, SwitchLabels

LEMMA MergeBasis ==
    ASSUME BasisInv, NEW c \in Sessions, Merging(c)
    PROVE  Basis(c)'
<1>a. Types /\ Route(c) /\ Basis(c)
  BY DEF BasisInv, UpdatesInv, TurnsInv, Types, LocalsOK
<1>1. /\ s[c].pc \in MergeLabels /\ s'[c].pc \in MergeLabels \cup {s[c].ret} /\ Kept(c)
      /\ UNCHANGED <<base, meta, prof>>
  BY <1>a, MergingMoves
<1>2. CASE s[c].op = "mixin"
  <2>1. s'[c].op = "mixin" /\ s'[c].pc \in MergeLabels \cup {"mixin_done"}
    BY <1>a, <1>1, <1>2 DEF Route, Routed, Kept
  <2>2. InUse'
    BY <1>a, <1>1, <1>2 DEF Basis, Inside, InUse, MergeLabels
  <2>3. QED
    BY <2>1, <2>2, InUseStays DEF MergeLabels
<1>3. CASE s[c].op # "mixin"
  <2>1. /\ Inside(c) /\ Inside(c)' /\ s'[c].pc \in MergeLabels \cup {"switched"}
    BY <1>a, <1>1, <1>3 DEF Route, Routed, Inside, Kept
  <2>2. QED
    BY <1>a, <1>1, <2>1 DEF Basis, Kept, MergeLabels
<1>4. QED
  BY <1>2, <1>3

LEMMA SwitchBasis ==
    ASSUME ~WriteFails, BasisInv, NEW c \in Sessions,
           MixinDone(c) \/ Use(c) \/ Snapshot(c) \/ Switch(c) \/ Switched(c) \/ Commit(c)
    PROVE  Basis(c)'
<1>a. Types /\ Route(c) /\ Basis(c) /\ meta \in Metas
  BY DEF BasisInv, UpdatesInv, TurnsInv, Types, LocalsOK, FilesOK
<1>b. UNCHANGED prof
  BY DEF MixinDone, Use, Snapshot, Switch, Switched, Commit, files
<1> USE DEF SwitchLabels, MergeLabels, UndoLabels
<1>1. CASE MixinDone(c)
  <2>1. s[c].pc = "mixin_done" /\ s'[c].pc = "done" /\ UNCHANGED <<base, meta>>
    BY <1>a, <1>1, SwitchMoves DEF MixinDone, files
  <2>2. InUse'
    BY <1>a, <1>b, <2>1 DEF Basis, Inside, InUse
  <2>3. QED
    BY <2>1, <2>2, InUseStays
<1>2. CASE Use(c)
  <2>1. /\ s[c].pc = "use" /\ UNCHANGED <<base, meta>>
        /\ s'[c].pc = "snapshot" \/ (s'[c].pc = "used" /\ s'[c].st = 1)
        /\ s'[c].old = s[c].old /\ s'[c].id = s[c].id
    BY <1>a, <1>2, SwitchMoves DEF Use, files, Same
  <2>2. QED
    BY <1>a, <1>b, <2>1 DEF Basis, Inside, InUse, Outdated
<1>3. CASE Snapshot(c)
  <2>1. /\ s[c].pc = "snapshot" /\ s'[c].pc = "switch" /\ s'[c].snapMeta = meta
        /\ s'[c].snapBase = base /\ s'[c].id = s[c].id /\ s'[c].old = s[c].old
    BY <1>a, <1>3, SwitchMoves
  <2>2. IF s[c].old = Absent THEN InUse ELSE Outdated(c)
    BY <1>a, <2>1 DEF Basis
  <2>3. IF s'[c].old = Absent
        THEN s'[c].snapMeta.use # NoId => s'[c].snapBase = prof'[s'[c].snapMeta.use]
        ELSE s'[c].snapMeta.use = s'[c].id /\ s'[c].snapBase = s'[c].old
    BY <1>b, <2>1, <2>2 DEF InUse, Outdated
  <2>4. Inside(c)'
    BY <1>a, <1>3, <2>1, SwitchMoves DEF Inside, Route, Routed, Switching
  <2>5. QED
    BY <2>1, <2>3, <2>4 DEF Basis
<1>4. CASE Switch(c)
  <2>1. /\ s[c].pc = "switch" /\ Keeps(c) /\ UNCHANGED meta
        /\ s'[c].pc = "undo" \/ (s'[c].pc = "merge" /\ base' = prof[s[c].id])
    BY <1>a, <1>4, SwitchMoves DEF Switch
  <2>2. Inside(c) /\ Inside(c)'
    BY <1>a, <2>1 DEF Inside, Route, Routed, Switching, Keeps
  <2>3. QED
    BY <1>a, <1>b, <2>1, <2>2 DEF Basis, Keeps
<1>5. CASE Switched(c)
  <2>1. /\ s[c].pc = "switched" /\ Same(c) /\ UNCHANGED <<base, meta>>
        /\ s'[c].pc \in {"commit", "undo"}
    BY <1>a, <1>5, SwitchMoves DEF Switched, files
  <2>2. Inside(c) /\ Inside(c)'
    BY <1>a, <2>1 DEF Inside, Route, Routed, Switching, Same
  <2>3. QED
    BY <1>a, <1>b, <2>1, <2>2 DEF Basis, Same
<1>6. CASE Commit(c)
  <2>1. /\ s[c].pc = "commit" /\ Same(c) /\ UNCHANGED base
        /\ \/ s'[c].pc = "used" /\ s'[c].st = 0 /\ meta' = [meta EXCEPT !.use = s[c].id]
           \/ s'[c].pc = "undo" /\ UNCHANGED meta
    BY <1>a, <1>6, SwitchMoves DEF Commit
  <2>2. Inside(c) /\ base = prof[s[c].id]
    BY <1>a, <2>1 DEF Inside, Route, Routed, Switching, Basis
  <2>3. CASE s'[c].pc = "used" /\ s'[c].st = 0 /\ meta' = [meta EXCEPT !.use = s[c].id]
    <3>1. meta'.use = s[c].id
      BY <1>a, <2>3 DEF Metas
    <3>2. QED
      BY <1>b, <2>1, <2>2, <2>3, <3>1 DEF Basis, Inside, InUse
  <2>4. CASE s'[c].pc = "undo" /\ UNCHANGED meta
    BY <1>a, <1>b, <2>1, <2>2, <2>4 DEF Basis, Inside, Same
  <2>5. QED
    BY <2>1, <2>3, <2>4
<1>7. QED
  BY <1>1, <1>2, <1>3, <1>4, <1>5, <1>6

LEMMA UndoBasis ==
    ASSUME ~WriteFails, BasisInv, NEW c \in Sessions,
           Undo(c) \/ UndoRm(c) \/ UndoCp(c) \/ UndoStart(c) \/ UndoPorts(c)
    PROVE  Basis(c)'
<1>a. Types /\ Route(c) /\ Basis(c) /\ Snapshots(c)
  BY DEF BasisInv, UpdatesInv, TurnsInv, Types, LocalsOK, FilesOK, Knows
<1>1. /\ s[c].pc \in UndoLabels /\ Keeps(c)
      /\ \/ s'[c].pc \in UndoLabels
         \/ /\ s'[c].pc = "used" /\ s'[c].st \in {1, 2}
            /\ s[c].pc \in {"undo_start", "undo_ports"}
  BY <1>a, UndoMoves DEF UndoLabels, Same, Keeps
<1>2. Inside(c) /\ UNCHANGED prof
  BY <1>a, <1>1 DEF Inside, Route, Routed, Switching, Undo, UndoRm, UndoCp, UndoStart,
      UndoPorts, files
<1>3. CASE s'[c].pc \in UndoLabels
  <2>1. Inside(c)'
    BY <1>1, <1>2, <1>3 DEF Inside, Keeps
  <2>2. QED
    BY <1>a, <1>1, <1>2, <1>3, <2>1 DEF Basis, Keeps, UndoLabels, MergeLabels
<1>4. CASE s'[c].pc = "used" /\ s'[c].st \in {1, 2} /\ s[c].pc \in {"undo_start", "undo_ports"}
  <2>1. base = s[c].snapBase /\ meta = s[c].snapMeta /\ UNCHANGED <<base, meta>>
    BY <1>a, <1>4 DEF Snapshots, Restored, Undo, UndoRm, UndoCp, UndoStart, UndoPorts, files, At
  <2>2. IF s'[c].old = Absent THEN InUse' ELSE Outdated(c)'
    BY <1>a, <1>1, <1>2, <2>1 DEF Basis, InUse, Outdated, Keeps
  <2>3. QED
    BY <1>4, <2>2 DEF Basis, Inside, MergeLabels, UndoLabels
<1>5. QED
  BY <1>1, <1>3, <1>4

LEMMA AddBasis ==
    ASSUME ~WriteFails, BasisInv, NEW c \in Sessions,
           Add(c) \/ Update(c) \/ Download(c) \/ Check(c) \/ Store(c) \/ Enter(c)
    PROVE  Basis(c)'
<1>a. Types /\ Route(c) /\ Basis(c) /\ EntriesInv /\ meta \in Metas /\ prof \in [Ids -> Files]
  BY DEF BasisInv, UpdatesInv, TurnsInv, Types, LocalsOK, FilesOK
<1>1. /\ s'[c].pc \in {"done", "update", "download", "check", "store", "replace", "enter", "use"}
      /\ s[c].pc \in {"add", "update", "download", "check", "store", "enter"}
      /\ s'[c].pc = "use" => s'[c].old = s[c].old /\ s[c].pc = "enter"
  BY <1>a, AddMoves DEF Same
<1>2. InUse
  BY <1>a, <1>1 DEF Basis, Inside, MergeLabels, UndoLabels
<1>3. CASE Store(c)
  <2>1. UNCHANGED <<base, meta>>
    BY <1>3 DEF Store
  <2>2. UNCHANGED prof \/ (NextId \in Ids /\ prof' = [prof EXCEPT ![NextId] = temp])
    BY <1>a, <1>3, AddMoves
  <2>3. meta.use # NoId => meta.use \in Ids /\ meta.use # NextId
    BY <1>a, NextIdIsNew DEF EntriesInv, UseOK, Listed
  <2>4. InUse'
    BY <1>a, <1>2, <2>1, <2>2, <2>3 DEF InUse
  <2>5. s'[c].pc \in {"done", "enter"}
    BY <1>a, <1>3, AddMoves
  <2>6. QED
    BY <2>4, <2>5, InUseStays DEF SwitchLabels, MergeLabels, UndoLabels
<1>4. CASE ~Store(c)
  <2>1. UNCHANGED <<base, prof>> /\ meta'.use = meta.use
    BY <1>a, <1>4 DEF Add, Update, Download, Check, Enter, files, Metas
  <2>2. InUse'
    BY <1>2, <2>1 DEF InUse
  <2>3. CASE s'[c].pc # "use"
    BY <1>1, <2>2, <2>3, InUseStays DEF SwitchLabels, MergeLabels, UndoLabels
  <2>4. CASE s'[c].pc = "use"
    <3>1. s'[c].old = Absent
      BY <1>a, <1>1, <2>4 DEF Route, Routed, Adding, Updating
    <3>2. QED
      BY <2>2, <2>4, <3>1 DEF Basis, Inside, MergeLabels, UndoLabels
  <2>5. QED
    BY <2>3, <2>4
<1>5. QED
  BY <1>3, <1>4

LEMMA UpdateBasis ==
    ASSUME ~WriteFails, BasisInv, NEW c \in Sessions, Replace(c) \/ Used(c) \/ Updated(c)
    PROVE  Basis(c)'
<1>a. Types /\ Route(c) /\ Basis(c) /\ prof \in [Ids -> Files] /\ NoId \notin Ids
  BY DEF BasisInv, UpdatesInv, TurnsInv, Types, LocalsOK, FilesOK, NoId, Ids
<1>b. UNCHANGED <<base, meta>>
  BY DEF Replace, Used, Updated, files
<1>c. s[c].pc \in {"replace", "updated"} \/ s[c].old # Absent => s[c].id \in Ids
  BY <1>a DEF Route, Routed, Updating
<1> USE DEF SwitchLabels, MergeLabels, UndoLabels
<1>1. CASE Replace(c)
  <2>1. s[c].pc = "replace" /\ s[c].id \in Ids /\ s'[c].id = s[c].id /\ InUse
    BY <1>a, <1>1, <1>c, UpdateMoves DEF Basis, Inside
  <2>2. CASE s'[c].pc = "done" /\ UNCHANGED prof
    <3>1. InUse'
      BY <1>b, <2>1, <2>2 DEF InUse
    <3>2. QED
      BY <2>2, <3>1, InUseStays
  <2>3. CASE /\ prof' = [prof EXCEPT ![s[c].id] = temp] /\ meta.use # s[c].id
             /\ s'[c].pc = "updated"
    <3>1. InUse'
      BY <1>a, <1>b, <2>1, <2>3 DEF InUse
    <3>2. QED
      BY <2>3, <3>1, InUseStays
  <2>4. CASE /\ meta.use = s[c].id /\ prof[s[c].id] # Absent
             /\ s'[c].pc = "use" /\ s'[c].old = prof[s[c].id]
    BY <1>a, <1>b, <2>1, <2>4 DEF Basis, Inside, InUse, Outdated
  <2>5. QED
    BY <1>a, <1>1, <2>2, <2>3, <2>4, UpdateMoves
<1>2. CASE Used(c)
  <2>1. /\ s[c].pc = "used" /\ s'[c].pc \in {"done", "updated"}
        /\ \/ (s[c].old = Absent \/ s[c].st = 0) /\ UNCHANGED prof
           \/ /\ s[c].old # Absent /\ s[c].st # 0
              /\ prof' = [prof EXCEPT ![s[c].id] = s[c].old]
    BY <1>a, <1>2, UpdateMoves DEF Written
  <2>2. InUse'
    BY <1>a, <1>b, <1>c, <2>1 DEF Basis, InUse, Outdated
  <2>3. QED
    BY <2>1, <2>2, InUseStays
<1>3. CASE Updated(c)
  <2>1. /\ UNCHANGED prof /\ s[c].pc = "updated"
        /\ s'[c].pc = "done" \/ (s'[c].pc = "use" /\ s'[c].old = Absent)
    BY <1>a, <1>3, UpdateMoves DEF Updated, files
  <2>2. InUse'
    BY <1>a, <1>b, <2>1 DEF Basis, InUse, Inside
  <2>3. QED
    BY <2>1, <2>2 DEF Basis, Inside
<1>4. QED
  BY <1>1, <1>2, <1>3

LEMMA DelBasis ==
    ASSUME ~WriteFails, BasisInv, NEW c \in Sessions,
           Del(c) \/ DelStop(c) \/ DelCheck(c) \/ DelEntry(c) \/ DelConfig(c) \/ DelProfile(c)
    PROVE  Basis(c)'
<1>a. /\ Types /\ Route(c) /\ Profiles(c) /\ Basis(c) /\ EntriesInv /\ prof \in [Ids -> Files]
      /\ meta \in Metas
  BY DEF BasisInv, UpdatesInv, TurnsInv, Types, LocalsOK, FilesOK, Knows
<1>1. /\ s[c].pc \in DelLabels
      /\ s'[c].pc \in {"done", "del_stop", "del_check", "del_entry", "del_config", "del_profile"}
  BY <1>a, DelMoves DEF DelLabels
<1>2. InUse /\ s[c].id \in Ids
  BY <1>a, <1>1 DEF Basis, Inside, MergeLabels, UndoLabels, DelLabels, Route, Routed
<1> USE DEF SwitchLabels, MergeLabels, UndoLabels
<1>3. CASE Del(c) \/ DelStop(c) \/ DelCheck(c)
  <2>1. UNCHANGED <<base, meta, prof>>
    BY <1>3 DEF Del, DelStop, DelCheck, files
  <2>2. InUse' /\ s'[c].pc # "del_config"
    BY <1>a, <1>2, <1>3, <2>1, DelMoves DEF InUse
  <2>3. QED
    BY <1>1, <2>2, InUseStays
<1>4. CASE DelEntry(c)
  <2>1. /\ UNCHANGED <<base, prof>> /\ s[c].act = (meta.use = s[c].id)
        /\ s'[c].pc = IF s[c].act THEN "del_config" ELSE "del_profile"
        /\ meta' = [meta EXCEPT !.urls[s[c].id] = NoUrl,
                                !.use = IF s[c].act THEN NoId ELSE @]
    BY <1>a, <1>4, DelMoves DEF DelEntry, Profiles
  <2>2. meta'.use = IF meta.use = s[c].id THEN NoId ELSE meta.use
    BY <1>a, <2>1 DEF Metas
  <2>3. InUse'
    BY <1>2, <2>1, <2>2 DEF InUse
  <2>4. s'[c].pc = "del_config" => meta'.use = NoId
    BY <2>1, <2>2
  <2>5. QED
    BY <1>1, <2>3, <2>4 DEF Basis, Inside
<1>5. CASE DelConfig(c)
  <2>1. s[c].pc = "del_config" /\ s'[c].pc = "del_profile" /\ UNCHANGED meta
    BY <1>a, <1>5, DelMoves DEF DelConfig
  <2>2. InUse'
    BY <1>a, <2>1 DEF InUse, Basis
  <2>3. QED
    BY <2>1, <2>2, InUseStays
<1>6. CASE DelProfile(c)
  <2>1. /\ UNCHANGED <<base, meta>> /\ ~Listed(s[c].id) /\ s'[c].pc = "done"
        /\ prof' = [prof EXCEPT ![s[c].id] = Absent]
    BY <1>a, <1>6, DelMoves DEF DelProfile, Profiles, At
  <2>2. meta.use # NoId => meta.use \in Ids /\ meta.use # s[c].id
    BY <1>a, <2>1 DEF EntriesInv, UseOK, Listed
  <2>3. InUse'
    BY <1>a, <1>2, <2>1, <2>2 DEF InUse
  <2>4. QED
    BY <2>1, <2>3, InUseStays
<1>7. QED
  BY <1>3, <1>4, <1>5, <1>6

LEMMA BasisStep ==
    ASSUME Serial, ~WriteFails, Interruptible = {}, BasisInv, [Next]_vars
    PROVE  BasisInv'
<1>a. TurnsInv /\ UpdatesInv' /\ Types
  BY Turns, UpdatesStep DEF BasisInv, UpdatesInv, TurnsInv
<1>1. CASE UNCHANGED vars \/ \E k \in Slots : Die(k)
  <2>1. UNCHANGED <<base, meta, prof, s>>
    BY <1>1 DEF vars, Die, files
  <2>2. ASSUME NEW c \in Sessions PROVE Basis(c)'
    <3>1. Basis(c)
      BY DEF BasisInv
    <3>2. QED
      BY <2>1, <3>1 DEF Basis, InUse, Outdated, Inside
  <2>3. NothingRuns' => InUse'
    BY <2>1 DEF BasisInv, NothingRuns, InUse, At
  <2>4. QED
    BY <1>a, <2>2, <2>3 DEF BasisInv
<1>2. ASSUME NEW c \in Sessions, Moves(c),
             \A d \in Sessions \ {c} : s[d].pc = "idle" /\ s'[d].pc = "idle"
      PROVE  BasisInv'
  <2>0. \A d \in Sessions \ {c} : Basis(d)'
    BY <1>2 DEF Basis, Inside, MergeLabels, UndoLabels
  <2>1. CASE Finish(c)
    <3>1. s[c].pc = "done" /\ s'[c].pc = "idle" /\ UNCHANGED <<base, meta, prof>>
      BY <1>a, <2>1, InterruptMoves DEF files, Finish, At
    <3>2. InUse'
      BY <3>1 DEF BasisInv, Basis, Inside, InUse, MergeLabels, UndoLabels
    <3>3. Basis(c)'
      BY <3>1, <3>2, InUseStays DEF SwitchLabels, MergeLabels, UndoLabels
    <3>4. QED
      BY <1>a, <2>0, <3>2, <3>3 DEF BasisInv
  <2>2. CASE Step(c) /\ ~Finish(c)
    <3>1. Basis(c)'
      BY <1>a, <2>2, MergeBasis, SwitchBasis, UndoBasis, AddBasis, UpdateBasis, DelBasis
         DEF Step, Merging
    <3>2. ~NothingRuns'
      BY <1>a, <2>2, StepOn DEF NothingRuns, At
    <3>3. QED
      BY <1>a, <2>0, <3>1, <3>2 DEF BasisInv
  <2>3. CASE \E o \in Commands : Begin(c, o)
    <3>1. /\ s'[c].pc \in {"use", "update", "del", "add", "merge"}
          /\ UNCHANGED <<base, meta, prof>> /\ s'[c].old = s[c].old /\ s[c].pc = "idle"
          /\ s'[c].op = "mixin" \/ s'[c].pc # "merge"
      BY <1>a, <2>3, BeginMoves
    <3>2. s[c].old = Absent /\ NothingRuns
      BY <1>a, <1>2, <3>1 DEF Types, LocalsOK, Route, Routed, Updating, NothingRuns, At
    <3>3. InUse'
      BY <3>1, <3>2 DEF BasisInv, InUse
    <3>4. Basis(c)'
      BY <3>1, <3>2, <3>3 DEF Basis, Inside, MergeLabels, UndoLabels
    <3>5. ~NothingRuns'
      BY <3>1 DEF NothingRuns, At
    <3>6. QED
      BY <1>a, <2>0, <3>4, <3>5 DEF BasisInv
  <2>4. QED
    BY <1>2, <2>1, <2>2, <2>3 DEF Moves, Interrupt
<1>3. QED
  BY <1>a, <1>1, <1>2, Turns

LEMMA InitBasis == Init => BasisInv
<1> SUFFICES ASSUME Init PROVE BasisInv
  OBVIOUS
<1>1. UpdatesInv /\ \A c \in Sessions : s[c].pc = "idle"
  BY InitUpdates DEF Init, NoSession
<1>2. \A c \in Sessions : Basis(c)
  BY <1>1 DEF Basis, Inside, MergeLabels, UndoLabels
<1>3. InUse
  <2>1. CASE meta = EmptyMeta
    BY <2>1 DEF EmptyMeta, InUse, NoMeta
  <2>2. CASE \E u \in Urls :
               /\ meta = [NoMeta EXCEPT !.there = TRUE, !.use = 1, !.urls[1] = u]
               /\ prof = [i \in Ids |-> IF i = 1 THEN base ELSE Absent]
    <3>1. 1 \in Ids
      BY MaxIdAssumption DEF Ids
    <3>2. meta.use = 1 /\ prof[1] = base
      BY <2>2, <3>1 DEF NoMeta
    <3>3. QED
      BY <3>2 DEF InUse
  <2>3. QED
    BY <2>1, <2>2 DEF Init
<1>4. QED
  BY <1>1, <1>2, <1>3 DEF BasisInv

\* While commands run in turns to their ends and writes do not fail, config.yaml is between
\* commands the profile in use: one that is updated is switched to again, or put back
\* (sub.sh:336-341).  Kernels may crash and any other step may fail.
THEOREM BaseIsTheProfile ==
    ASSUME Serial, ~WriteFails, Interruptible = {}
    PROVE  Spec => []UsedIsBase
<1>1. BasisInv /\ [Next]_vars => BasisInv'
  BY BasisStep
<1>2. BasisInv => UsedIsBase
  BY DEF BasisInv, InUse, UsedIsBase
<1>3. QED
  BY <1>1, <1>2, InitBasis, PTL DEF Spec

(***************************************************************************)
(* Which file a kernel of the user's has loaded: runtime.yaml; while that  *)
(* is merged, the copy kept aside; while it is restored, the snapshot.     *)
(***************************************************************************)
Load(f) == \A k \in Users : kern[k].conf = f
Accepted == \A k \in Users : Valid(kern[k].conf)

Loaded(c) ==
    /\ s[c].pc \notin {"idle", "merge_write", "merge_check", "restop", "undo_rm", "undo_cp"}
         => Load(runtime)
    /\ s[c].pc \in {"merge_truncate", "merge_write", "merge_check"} => Load(temp)
    /\ s[c].pc \in {"undo_rm", "undo_cp"} => Load(s[c].snapRuntime)
    /\ Inside(c) /\ s[c].pc \in {"switch", "merge", "merge_truncate"} => runtime = s[c].snapRuntime
    /\ Inside(c) /\ s[c].pc \in {"merge_write", "merge_check"} => NoUser \/ temp = s[c].snapRuntime
    /\ s[c].pc \in {"switched", "commit", "undo"}
         => NoUser \/ ~runtime.tun \/ runtime = s[c].snapRuntime

LoadInv ==
    /\ KernelsInv /\ Accepted
    /\ NothingRuns => Load(runtime)
    /\ \A c \in Sessions : Loaded(c)

LEMMA NoneLoaded ==
    ASSUME NoUser'
    PROVE  Accepted' /\ Load(runtime)' /\ Load(temp)'
BY DEF NoUser, Accepted, Load

\* Kernels that were there before.
LEMMA StillLoaded ==
    ASSUME Accepted, NEW f, Load(f), Users' \subseteq Users, \A k \in Users' : kern'[k] = kern[k]
    PROVE  Accepted' /\ \A k \in Users' : kern'[k].conf = f
BY DEF Accepted, Load, Valid

\* Where only runtime.yaml counts.
LEMMA PlainLoaded ==
    ASSUME NEW c \in Sessions, Load(runtime)', s'[c].pc \notin SwitchLabels
    PROVE  Loaded(c)'
BY DEF Loaded, SwitchLabels, MergeLabels, UndoLabels

LEMMA MergeLoaded ==
    ASSUME ~WriteFails, LoadInv, NEW c \in Sessions, Merging(c), Types'
    PROVE  Accepted' /\ Loaded(c)'
<1>a. Types /\ Route(c) /\ Loaded(c) /\ Sole /\ Accepted /\ Switches(c) /\ Switches(c)'
  BY MergeKernels DEF LoadInv, KernelsInv, TurnsInv, Types, LocalsOK
<1>b. /\ s[c].pc \in MergeLabels /\ s'[c].op = s[c].op /\ s'[c].snapRuntime = s[c].snapRuntime
      /\ s[c].ret \in {"switched", "mixin_done"}
      /\ s[c].op # "mixin" <=> Inside(c)
      /\ s[c].op = "mixin" <=> s[c].ret = "mixin_done"
  BY <1>a, MergingMoves DEF Types, LocalsOK, Route, Routed, Kept, Inside
<1> USE DEF MergeLabels, UndoLabels
<1>1. CASE Merge(c)
  <2>1. /\ s[c].pc = "merge" /\ s'[c].pc = "merge_truncate" /\ UNCHANGED <<kern, runtime>>
        /\ temp' = IF runtime = Absent THEN Empty ELSE runtime
    BY <1>1, <1>a, MergeMoves DEF Merge, Written, service
  <2>2. Users' = Users /\ Load(runtime) /\ Accepted'
    BY <1>a, <2>1, SameKernels DEF Loaded, Accepted, Valid
  <2>3. Load(runtime)' /\ Load(temp)'
    <3>1. CASE NoUser
      BY <2>2, <3>1 DEF Load, NoUser
    <3>2. CASE ~NoUser
      <4>1. runtime # Absent
        BY <1>a, <2>2, <3>2, ValidThere DEF Load, Accepted, NoUser
      <4>2. QED
        BY <2>1, <2>2, <4>1 DEF Load
    <3>3. QED
      BY <3>1, <3>2
  <2>4. QED
    BY <1>a, <1>b, <2>1, <2>2, <2>3 DEF Loaded, Inside
<1>2. CASE MergeTruncate(c)
  <2>1. /\ s[c].pc = "merge_truncate" /\ s'[c].pc = "merge_write" /\ UNCHANGED <<kern, temp>>
    BY <1>2, <1>a, MergeMoves DEF MergeTruncate, service
  <2>2. Users' = Users /\ Load(runtime) /\ Load(temp) /\ Accepted' /\ Load(temp)'
    BY <1>a, <2>1, SameKernels DEF Loaded, Accepted, Valid, Load
  <2>3. Inside(c) => NoUser' \/ temp' = s'[c].snapRuntime
    BY <1>a, <1>b, <2>1, <2>2 DEF Loaded, Load, NoUser
  <2>4. QED
    BY <1>b, <2>1, <2>2, <2>3 DEF Loaded, Inside
<1>3. CASE MergeWrite(c)
  <2>1. /\ s[c].pc = "merge_write" /\ s'[c].pc = "merge_check" /\ UNCHANGED <<kern, temp>>
    BY <1>3, <1>a, MergeMoves DEF MergeWrite, service
  <2>2. Users' = Users /\ Accepted' /\ Load(temp)'
    BY <1>a, <2>1, SameKernels DEF Loaded, Accepted, Valid, Load
  <2>3. QED
    BY <1>a, <1>b, <2>1, <2>2 DEF Loaded, Inside, NoUser
<1>4. CASE MergeCheck(c)
  <2>1. s[c].pc = "merge_check" /\ UNCHANGED <<kern, temp>>
    BY <1>4, <1>a, MergeMoves DEF MergeCheck, service
  <2>2. Users' = Users /\ Accepted' /\ Load(temp)'
    BY <1>a, <2>1, SameKernels DEF Loaded, Accepted, Valid, Load
  <2>3. CASE s'[c].pc = "restop"
    BY <2>2, <2>3 DEF Loaded, Inside
  <2>4. CASE ~Valid(runtime) /\ s'[c].pc = s[c].ret
    <3>1. runtime' = temp
      BY <1>4, <2>4 DEF MergeCheck, Written
    <3>2. Load(runtime)'
      BY <2>1, <2>2, <3>1 DEF Load
    <3>3. s'[c].pc = "switched" => NoUser' \/ runtime' = s'[c].snapRuntime
      BY <1>a, <1>b, <2>1, <2>2, <2>4, <3>1 DEF Loaded, NoUser
    <3>4. QED
      BY <1>b, <2>2, <2>4, <3>2, <3>3 DEF Loaded
  <2>5. QED
    BY <1>4, <1>a, <2>3, <2>4, MergeMoves
<1>5. CASE Restop(c) \/ RestopCheck(c) \/ RestartTun(c)
  <2>1. s'[c].pc \in {"restop_check", "restart", s[c].ret}
    BY <1>5, <1>a, RestartMoves
  <2>2. NoUser'
    <3>1. CASE Restop(c)
      BY <1>a, <3>1, RestartMoves DEF Switches
    <3>2. CASE RestopCheck(c) \/ RestartTun(c)
      BY <1>a, <3>2, SameKernels DEF Switches, NoUser, RestopCheck, RestartTun, At, Look, service
    <3>3. QED
      BY <1>5, <3>1, <3>2
  <2>3. QED
    BY <1>b, <2>1, <2>2, NoneLoaded DEF Loaded
<1>6. CASE Restart(c)
  <2>1. NoUser /\ UNCHANGED runtime
    BY <1>6, <1>a DEF Switches, Restart, At, files
  <2>2. CASE s'[c].pc = "restart_tun"
    <3>1. NoUser'
      BY <1>a, <2>2 DEF Switches
    <3>2. QED
      BY <2>2, <3>1, NoneLoaded DEF Loaded
  <2>3. CASE ~TunEnabled /\ s'[c].pc = s[c].ret /\ Start(s'[c].st)
    <3>1. \A k \in Users' : kern'[k].conf = runtime /\ Valid(runtime)
      BY <1>a, <2>1, <2>3, StartKernels DEF NoUser
    <3>2. Accepted' /\ Load(runtime)' /\ ~runtime'.tun
      BY <2>1, <2>3, <3>1 DEF Accepted, Load, TunEnabled, Valid
    <3>3. QED
      BY <1>b, <2>3, <3>2 DEF Loaded
  <2>4. QED
    BY <1>6, <1>a, <2>2, <2>3, RestartMoves
<1>7. QED
  BY <1>1, <1>2, <1>3, <1>4, <1>5, <1>6 DEF Merging

LEMMA SwitchLoaded ==
    ASSUME ~WriteFails, LoadInv, NEW c \in Sessions,
           MixinDone(c) \/ Use(c) \/ Snapshot(c) \/ Switch(c) \/ Switched(c) \/ Commit(c)
    PROVE  Accepted' /\ Loaded(c)'
<1>a. Types /\ Route(c) /\ Loaded(c) /\ Accepted
  BY DEF LoadInv, KernelsInv, TurnsInv, Types, LocalsOK
<1>b. UNCHANGED <<kern, runtime>>
  BY DEF MixinDone, Use, Snapshot, Switch, Switched, Commit, Look, files, service
<1>c. Users' = Users /\ Accepted' /\ (Load(runtime) => Load(runtime)')
  BY <1>a, <1>b, SameKernels DEF Accepted, Load, Valid
<1> USE DEF SwitchLabels, MergeLabels, UndoLabels
<1>1. CASE MixinDone(c) \/ Use(c)
  <2>1. s[c].pc \in {"mixin_done", "use"} /\ s'[c].pc \in {"done", "snapshot", "used"}
    BY <1>1, <1>a, SwitchMoves
  <2>2. QED
    BY <1>a, <1>c, <2>1, PlainLoaded DEF Loaded
<1>2. CASE Snapshot(c)
  <2>1. s[c].pc = "snapshot" /\ s'[c].pc = "switch" /\ s'[c].snapRuntime = runtime
    BY <1>2, <1>a, SwitchMoves
  <2>2. QED
    BY <1>a, <1>b, <1>c, <2>1 DEF Loaded
<1>3. CASE Switch(c)
  <2>1. s[c].pc = "switch" /\ s'[c].pc \in {"merge", "undo"} /\ Keeps(c)
    BY <1>3, <1>a, SwitchMoves
  <2>2. Inside(c)
    BY <1>a, <2>1 DEF Inside, Route, Routed, Switching
  <2>3. Load(runtime)' /\ runtime' = s'[c].snapRuntime
    BY <1>a, <1>b, <1>c, <2>1, <2>2 DEF Loaded, Keeps
  <2>4. QED
    BY <1>c, <2>1, <2>3 DEF Loaded
<1>4. CASE Switched(c) \/ Commit(c)
  <2>1. /\ s[c].pc \in {"switched", "commit"} /\ s'[c].pc \in {"commit", "undo", "used"}
        /\ Same(c)
    BY <1>4, <1>a, SwitchMoves
  <2>2. QED
    BY <1>a, <1>b, <1>c, <2>1 DEF Loaded, Same, NoUser
<1>5. QED
  BY <1>1, <1>2, <1>3, <1>4

LEMMA UndoLoaded ==
    ASSUME ~WriteFails, LoadInv, NEW c \in Sessions, TurnsInv',
           Undo(c) \/ UndoRm(c) \/ UndoCp(c) \/ UndoStart(c) \/ UndoPorts(c)
    PROVE  Accepted' /\ Loaded(c)'
<1>a. /\ Types /\ ServiceOK /\ Route(c) /\ Loaded(c) /\ Sole /\ Accepted /\ Switches(c)
      /\ runtime \in Files
  BY DEF LoadInv, KernelsInv, TurnsInv, Types, LocalsOK, FilesOK
<1>b. Inside(c)
  BY <1>a DEF Inside, Route, Routed, Switching, Undo, UndoRm, UndoCp, UndoStart, UndoPorts, At,
     UndoLabels
<1> USE DEF UndoLabels, MergeLabels, SwitchLabels
<1>1. CASE Undo(c)
  <2>1. /\ s[c].pc = "undo" /\ s'[c].pc = "undo_rm" /\ s'[c].snapRuntime = s[c].snapRuntime
        /\ \E x \in 0..2 : Stop(TunEnabled, x)
    BY <1>1, <1>a, UndoMoves DEF Keeps, Undo
  <2>2. TunEnabled = runtime.tun /\ TunEnabled \in BOOLEAN
    BY <1>a DEF TunEnabled, Files
  <2>3. /\ Users' \subseteq Users /\ \A k \in Users' : kern'[k] = kern[k]
        /\ ~TunEnabled => Users' = {}
    <3>1. Users' \subseteq Running'
      BY DEF Users, Running
    <3>2. QED
      BY <1>a, <2>1, <2>2, <3>1, StopKernels
  <2>4. CASE Users' = {}
    BY <2>1, <2>4 DEF Loaded, Accepted, Load, Inside
  <2>5. CASE Users' # {}
    <3>1. Load(runtime) /\ runtime = s[c].snapRuntime
      BY <1>a, <2>1, <2>2, <2>3, <2>5 DEF Loaded, NoUser
    <3>2. Accepted' /\ \A k \in Users' : kern'[k].conf = s[c].snapRuntime
      BY <1>a, <2>3, <3>1, StillLoaded
    <3>3. QED
      BY <2>1, <3>2 DEF Loaded, Load, Inside
  <2>6. QED
    BY <2>4, <2>5
<1>2. CASE UndoRm(c) \/ UndoCp(c)
  <2>1. /\ s[c].pc \in {"undo_rm", "undo_cp"} /\ s'[c].snapRuntime = s[c].snapRuntime
        /\ s'[c].pc \in {"undo_rm", "undo_cp", "undo_start"} /\ s'[c].op = s[c].op
    BY <1>2, <1>a, UndoMoves DEF Same, Keeps
  <2>2. UNCHANGED kern
    BY <1>2 DEF UndoRm, UndoCp, service
  <2>3. /\ Users' = Users /\ Accepted' /\ Load(s[c].snapRuntime)'
    BY <1>a, <2>1, <2>2, SameKernels DEF Accepted, Loaded, Load, Valid
  <2>4. s'[c].pc = "undo_start" => runtime' = s'[c].snapRuntime
    BY <1>b, <2>1 DEF TurnsInv, Knows, Snapshots, Restored, Inside
  <2>5. s'[c].pc = "undo_start" => Load(runtime)'
    BY <2>3, <2>4 DEF Load
  <2>6. QED
    BY <2>1, <2>3, <2>5 DEF Loaded
<1>3. CASE UndoStart(c) \/ UndoPorts(c)
  <2>1. /\ s[c].pc \in {"undo_start", "undo_ports"} /\ s'[c].pc \in {"undo_ports", "used"}
        /\ Load(runtime) /\ UNCHANGED runtime
        /\ \/ UNCHANGED kern
           \/ s[c].tun /\ \E x \in {0, 1} : SudoStart(x)
           \/ \E x \in {0, 1} : Start(x)
    BY <1>3, <1>a, UndoMoves DEF Loaded, UndoStart, UndoPorts, files, service, Look
  <2>2. Accepted' /\ Load(runtime)'
    <3>1. CASE UNCHANGED kern
      BY <1>a, <2>1, <3>1, SameKernels DEF Accepted, Load, Valid
    <3>2. CASE s[c].tun /\ \E x \in {0, 1} : SudoStart(x)
      <4>1. NoUser
        BY <1>a, <1>b, <2>1, <3>2 DEF Switches
      <4>2. NoUser'
        BY <1>a, <3>2, <4>1, SudoStartKernels
      <4>3. QED
        BY <4>2, NoneLoaded
    <3>3. CASE \E x \in {0, 1} : Start(x)
      <4>1. \A k \in Users' : \/ k \in Users /\ kern' = kern
                              \/ kern'[k].conf = runtime /\ Valid(runtime)
        BY <1>a, <3>3, StartKernels
      <4>2. QED
        BY <1>a, <2>1, <4>1 DEF Accepted, Load, Valid
    <3>4. QED
      BY <2>1, <3>1, <3>2, <3>3
  <2>3. QED
    BY <2>1, <2>2 DEF Loaded
<1>4. QED
  BY <1>1, <1>2, <1>3

LEMMA FileLoaded ==
    ASSUME LoadInv, NEW c \in Sessions,
           \/ Add(c) \/ Update(c) \/ Download(c) \/ Check(c) \/ Store(c) \/ Enter(c)
           \/ Replace(c) \/ Used(c) \/ Updated(c) \/ Finish(c)
    PROVE  Accepted' /\ Load(runtime)' /\ Loaded(c)'
<1>a. Types /\ Loaded(c) /\ Accepted
  BY DEF LoadInv, KernelsInv, TurnsInv
<1>1. /\ s[c].pc \in {"add", "update", "download", "check", "store", "enter", "replace", "used",
                      "updated", "done"}
      /\ s'[c].pc \in {"idle", "done", "update", "download", "check", "store", "replace", "enter",
                       "use", "updated"}
  BY <1>a, AddMoves, UpdateMoves, InterruptMoves DEF Finish, At
<1>2. UNCHANGED <<kern, runtime>>
  BY DEF Add, Update, Download, Check, Store, Enter, Replace, Used, Updated, Finish, files, service
<1>3. Load(runtime)
  BY <1>a, <1>1 DEF Loaded
<1>4. Accepted' /\ Load(runtime)'
  BY <1>a, <1>2, <1>3, SameKernels DEF Accepted, Load, Valid
<1>5. QED
  BY <1>1, <1>4, PlainLoaded DEF SwitchLabels, MergeLabels, UndoLabels

LEMMA DelLoaded ==
    ASSUME LoadInv, NEW c \in Sessions,
           Del(c) \/ DelStop(c) \/ DelCheck(c) \/ DelEntry(c) \/ DelConfig(c) \/ DelProfile(c)
    PROVE  Accepted' /\ Loaded(c)'
<1>a. Types /\ ServiceOK /\ Loaded(c) /\ Sole /\ Accepted /\ Stopped(c)
  BY DEF LoadInv, KernelsInv, TurnsInv, Types
<1>1. /\ s[c].pc \in DelLabels
      /\ s'[c].pc \in {"done", "del_stop", "del_check", "del_entry", "del_config", "del_profile"}
  BY <1>a, DelMoves DEF DelLabels
<1>2. Load(runtime)
  BY <1>a, <1>1 DEF Loaded, DelLabels
<1>3. Accepted' /\ Load(runtime)'
  <2>1. CASE DelStop(c)
    <3>1. PICK x \in 0..2 : Stop(FALSE, x)
      BY <2>1 DEF DelStop
    <3>2. Users' = {}
      BY <1>a, <3>1, StopKernels
    <3>3. QED
      BY <3>2, NoneLoaded DEF NoUser
  <2>2. CASE DelConfig(c)
    <3>1. Running = {} /\ UNCHANGED kern
      BY <1>a, <2>2, DelMoves DEF Stopped, DelConfig, service
    <3>2. Users' = {}
      BY <3>1, SameKernels DEF Users, Running
    <3>3. QED
      BY <3>2, NoneLoaded DEF NoUser
  <2>3. CASE Del(c) \/ DelCheck(c) \/ DelEntry(c) \/ DelProfile(c)
    <3>1. UNCHANGED <<kern, runtime>>
      BY <2>3 DEF Del, DelCheck, DelEntry, DelProfile, Look, files, service
    <3>2. QED
      BY <1>a, <1>2, <3>1, SameKernels DEF Accepted, Load, Valid
  <2>4. QED
    BY <2>1, <2>2, <2>3
<1>4. QED
  BY <1>1, <1>3, PlainLoaded DEF SwitchLabels, MergeLabels, UndoLabels

LEMMA LoadStep ==
    ASSUME Serial, ~WriteFails, Interruptible = {}, LoadInv, [Next]_vars
    PROVE  LoadInv'
<1>a. /\ KernelsInv' /\ TurnsInv /\ TurnsInv' /\ Types /\ Types' /\ Sole /\ Accepted
      /\ ServiceOK
  BY Turns, KernelsStep DEF LoadInv, KernelsInv, TurnsInv, Types
<1>1. CASE UNCHANGED vars
  BY <1>1, <1>a DEF LoadInv, vars, Accepted, Users, NothingRuns, Load, Loaded, NoUser, Inside, At, Valid
<1>2. ASSUME NEW k \in Slots, Die(k)
      PROVE  LoadInv'
  <2>1. Users' \subseteq Users /\ \A j \in Users' : kern'[j] = kern[j]
    <3>1. Users' = Users \ {k} /\ kern' = [kern EXCEPT ![k] = NoKernel]
      BY <1>2, <1>a, FewerKernels DEF Die
    <3>2. QED
      BY <1>a, <3>1 DEF ServiceOK, Users
  <2>2. UNCHANGED <<runtime, temp, s>>
    BY <1>2 DEF Die, files
  <2>3. Accepted'
    BY <1>a, <2>1 DEF Accepted, Valid
  <2>4. NothingRuns' => Load(runtime)'
    BY <2>1, <2>2 DEF LoadInv, NothingRuns, Load, At
  <2>5. ASSUME NEW c \in Sessions PROVE Loaded(c)'
    <3>1. Loaded(c)
      BY DEF LoadInv
    <3>2. QED
      BY <2>1, <2>2, <3>1 DEF Loaded, Load, NoUser, Inside
  <2>6. QED
    BY <1>a, <2>3, <2>4, <2>5 DEF LoadInv
<1>3. ASSUME NEW c \in Sessions, Moves(c),
             \A d \in Sessions \ {c} : s[d].pc = "idle" /\ s'[d].pc = "idle"
      PROVE  LoadInv'
  <2>0. \A d \in Sessions \ {c} : Loaded(d)'
    BY <1>3 DEF Loaded, Inside, MergeLabels, UndoLabels
  <2>1. CASE Finish(c)
    BY <1>a, <2>0, <2>1, FileLoaded DEF LoadInv
  <2>2. CASE Step(c) /\ ~Finish(c)
    <3>1. Accepted' /\ Loaded(c)'
      BY <1>a, <2>2, MergeLoaded, SwitchLoaded, UndoLoaded, FileLoaded, DelLoaded
         DEF Step, Merging
    <3>2. ~NothingRuns'
      BY <1>a, <2>2, StepOn DEF NothingRuns, At
    <3>3. QED
      BY <1>a, <2>0, <3>1, <3>2 DEF LoadInv
  <2>3. CASE \E o \in Commands : Begin(c, o)
    <3>1. /\ s'[c].pc \in {"use", "update", "del", "add", "merge"} /\ s[c].pc = "idle"
          /\ UNCHANGED <<kern, runtime>>
          /\ s'[c].op = "mixin" \/ s'[c].pc # "merge"
      BY <1>a, <2>3, BeginMoves DEF service
    <3>2. Load(runtime)
      BY <1>3, <3>1 DEF NothingRuns, At, LoadInv
    <3>3. Accepted' /\ Load(runtime)'
      BY <1>a, <3>1, <3>2, SameKernels DEF Accepted, Load, Valid
    <3>4. Loaded(c)'
      BY <3>1, <3>3 DEF Loaded, Inside
    <3>5. ~NothingRuns'
      BY <3>1 DEF NothingRuns, At
    <3>6. QED
      BY <1>a, <2>0, <3>3, <3>4, <3>5 DEF LoadInv
  <2>4. QED
    BY <1>3, <2>1, <2>2, <2>3 DEF Moves, Interrupt
<1>4. QED
  BY <1>a, <1>1, <1>2, <1>3, Turns

LEMMA InitLoad == Init => LoadInv
<1> SUFFICES ASSUME Init PROVE LoadInv
  OBVIOUS
<1>1. KernelsInv /\ \A c \in Sessions : s[c].pc = "idle"
  BY InitKernels DEF Init, NoSession
<1>2. \A c \in Sessions : Loaded(c)
  BY <1>1 DEF Loaded, Inside, MergeLabels, UndoLabels
<1>3. Load(runtime) /\ Accepted
  <2>1. CASE kern = [k \in Slots |-> NoKernel]
    BY <2>1 DEF Load, Accepted, Users, NoKernel
  <2>2. CASE /\ \E u \in Urls : base = File(u, "good", FALSE) /\ runtime = base
             /\ \E k \in Slots : kern = [j \in Slots |-> IF j # k THEN NoKernel
                                ELSE [owner |-> "user", conf |-> runtime, tun |-> FALSE]]
    <3>1. Valid(runtime)
      BY <2>2 DEF Valid, File
    <3>2. \A k \in Users : kern[k].conf = runtime
      <4>1. PICK k \in Slots : kern = [j \in Slots |-> IF j # k THEN NoKernel
                                ELSE [owner |-> "user", conf |-> runtime, tun |-> FALSE]]
        BY <2>2
      <4>2. Users = {k}
        BY <4>1 DEF Users, NoKernel
      <4>3. QED
        BY <4>1, <4>2
    <3>3. QED
      BY <3>1, <3>2 DEF Load, Accepted, Valid
  <2>3. QED
    BY <2>1, <2>2 DEF Init
<1>4. QED
  BY <1>1, <1>2, <1>3 DEF LoadInv

LEMMA LoadInvariant ==
    ASSUME Serial, ~WriteFails, Interruptible = {}
    PROVE  Spec => []LoadInv
<1>1. LoadInv /\ [Next]_vars => LoadInv'
  BY LoadStep
<1>2. QED
  BY <1>1, InitLoad, PTL DEF Spec

\* While commands run in turns to their ends and writes do not fail, a kernel of the user's
\* runs, between commands, what runtime.yaml says (config.sh:102-221, sub.sh:205-227).
THEOREM KernelsRunRuntime ==
    ASSUME Serial, ~WriteFails, Interruptible = {}
    PROVE  Spec => []KernelRunsRuntime
<1>1. LoadInv => KernelRunsRuntime
  BY DEF LoadInv, Load, Users, Running, KernelRunsRuntime
<1>2. QED
  BY <1>1, LoadInvariant, PTL

\* Under the same assumptions a switch that fails and says that the old configuration is
\* back (sub.sh:269-273) has put the three files back, and a kernel of the user's runs them.
THEOREM SwitchRolledBack ==
    ASSUME Serial, ~WriteFails, Interruptible = {}
    PROVE  Spec => []RolledBack
<1>1. LoadInv => RolledBack
  <2>1. SUFFICES ASSUME LoadInv, NEW c \in Sessions, Ended(c, Switching, 1), s[c].taken
                 PROVE  /\ base = s[c].snapBase /\ runtime = s[c].snapRuntime /\ meta = s[c].snapMeta
                        /\ Managed # NoSlot /\ kern[Managed].owner = "user"
                             => kern[Managed].conf = runtime
    BY DEF RolledBack
  <2>2. Restored(c) /\ Load(runtime)
    BY <2>1 DEF LoadInv, KernelsInv, TurnsInv, Knows, Outcome, Loaded, Ended, At
  <2>3. Managed # NoSlot /\ kern[Managed].owner = "user" => Managed \in Users
    BY ManagedIsSlot DEF Users
  <2>4. QED
    BY <2>2, <2>3 DEF Restored, Load
<1>2. QED
  BY <1>1, LoadInvariant, PTL

(***************************************************************************)
(* What a switch has reached.  TunRight: the kernel that answers, if it    *)
(* has TUN up, runs runtime.yaml.  A kernel of root's may be one that the  *)
(* switch could not stop; but one with TUN up was there before only if     *)
(* _merge_config_restart saw the device and would not have gone on.        *)
(***************************************************************************)
TunRight == Managed # NoSlot /\ kern[Managed].tun => kern[Managed].conf = runtime

Won(c) ==
    \/ s[c].pc = "used" /\ s[c].st = 0
    \/ s[c].pc = "updated" /\ s[c].taken
    \/ Ended(c, {"use", "add_use", "readd"}, 0)

Effect(c) ==
    /\ Inside(c) /\ s[c].pc \in {"merge_check", "restop", "restop_check", "restart", "restart_tun"}
         => runtime = Merged(base)
    /\ (s[c].pc = "switched" /\ s[c].st = 0) \/ s[c].pc = "commit" => runtime = Merged(base)
    /\ s[c].pc \in {"merge_truncate", "merge_write", "merge_check", "restop", "restop_check",
                    "restart"} /\ ~s[c].mtun => ~TunUp
    /\ Won(c) => meta.use = s[c].id /\ base = prof[s[c].id] /\ runtime = Merged(base)
    /\ s[c].pc = "updated" /\ ~s[c].taken => meta.use # s[c].id

Answers(c) ==
    /\ s[c].pc = "restart" /\ s[c].mtun => Managed = NoSlot
    /\ s[c].pc = "restart_tun" => TunRight
    /\ s[c].pc = "switched" /\ s[c].st = 0 => TunRight
    /\ s[c].pc = "commit" \/ Won(c) => TunRight /\ Managed # NoSlot

EffectInv ==
    /\ LoadInv /\ BasisInv
    /\ \A c \in Sessions : Effect(c) /\ Answers(c)

LEMMA LookManaged ==
    ASSUME Look
    PROVE  Managed' = Managed /\ Running' = Running
<1>1. UNCHANGED kern /\ pidfile' = Managed /\ Running' = Running
  BY SameKernels DEF Look
<1>2. NoSlot \notin Running
  BY SlotsAssumption DEF Running
<1>3. CASE Managed \in Running
  BY <1>1, <1>3 DEF Managed
<1>4. CASE Managed = NoSlot
  <2>1. ~\E k \in Running : Running = {k}
    <3>1. SUFFICES ASSUME NEW k \in Running, Running = {k} PROVE FALSE
      OBVIOUS
    <3>2. (CHOOSE j \in Running : TRUE) = k
      BY <3>1
    <3>3. Managed = k
      BY <3>1, <3>2 DEF Managed
    <3>4. QED
      BY <1>2, <1>4, <3>1, <3>3
  <2>2. QED
    BY <1>1, <1>2, <1>4, <2>1 DEF Managed
<1>5. QED
  BY <1>3, <1>4, ManagedIsSlot

LEMMA SameService ==
    ASSUME UNCHANGED service
    PROVE  Managed' = Managed /\ Running' = Running /\ TunUp' = TunUp /\ UNCHANGED kern
BY DEF service, Managed, Running, TunUp

LEMMA TunDown ==
    ASSUME ~TunUp \/ Managed = NoSlot
    PROVE  TunRight
BY ManagedIsSlot DEF TunUp, TunRight

LEMMA StartAnswers ==
    ASSUME Types, NEW x, Start(x), UNCHANGED runtime, ~TunUp \/ Managed = NoSlot
    PROVE  TunRight'
<1>1. CASE Look
  <2>1. Managed' = Managed /\ kern' = kern
    BY <1>1, LookManaged DEF Look
  <2>2. QED
    BY <2>1, TunDown DEF TunRight
<1>2. CASE /\ Running = {}
           /\ \E k \in Slots :
                /\ kern' = [kern EXCEPT ![k] = [owner |-> "user", conf |-> runtime, tun |-> FALSE]]
                /\ pidfile' = k
  <2>1. PICK k \in Slots :
                /\ kern' = [kern EXCEPT ![k] = [owner |-> "user", conf |-> runtime, tun |-> FALSE]]
                /\ pidfile' = k
    BY <1>2
  <2>2. kern'[k] = [owner |-> "user", conf |-> runtime, tun |-> FALSE]
    BY <2>1 DEF Types, ServiceOK
  <2>3. k \in Running'
    BY <2>2 DEF Running
  <2>4. Managed' = k
    BY <2>1, <2>3 DEF Managed
  <2>5. QED
    BY <2>2, <2>4 DEF TunRight
<1>3. QED
  BY <1>1, <1>2 DEF Start

LEMMA SudoStartAnswers ==
    ASSUME Types, NEW x, SudoStart(x), UNCHANGED runtime, ~TunUp \/ Managed = NoSlot
    PROVE  TunRight'
<1>1. CASE UNCHANGED service
  BY <1>1, SameService, TunDown DEF TunRight
<1>2. CASE \E k \in Slots, t \in {FALSE, TunEnabled} :
             /\ kern' = [kern EXCEPT ![k] = [owner |-> "root", conf |-> runtime, tun |-> t]]
             /\ pidfile' = k
  <2>1. PICK k \in Slots, t \in {FALSE, TunEnabled} :
             /\ kern' = [kern EXCEPT ![k] = [owner |-> "root", conf |-> runtime, tun |-> t]]
             /\ pidfile' = k
    BY <1>2
  <2>2. kern'[k] = [owner |-> "root", conf |-> runtime, tun |-> t]
    BY <2>1 DEF Types, ServiceOK
  <2>3. k \in Running'
    BY <2>2 DEF Running
  <2>4. Managed' = k
    BY <2>1, <2>3 DEF Managed
  <2>5. QED
    BY <2>2, <2>4 DEF TunRight
<1>3. CASE UNCHANGED kern /\ \E k \in Running : Running = {k} /\ pidfile' = k
  <2>1. PICK k \in Running : Running = {k} /\ pidfile' = k
    BY <1>3
  <2>2. Managed = k /\ k # NoSlot
    <3>1. (CHOOSE j \in Running : TRUE) = k
      BY <2>1
    <3>2. QED
      BY <2>1, <3>1, SlotsAssumption DEF Managed, Running
  <2>3. ~kern[k].tun
    BY <2>1, <2>2 DEF TunUp
  <2>4. Running' = Running
    BY <1>3, SameKernels
  <2>5. Managed' = k
    BY <2>1, <2>4 DEF Managed
  <2>6. QED
    BY <1>3, <2>3, <2>5 DEF TunRight
<1>4. CASE UNCHANGED kern /\ (~\E k \in Running : Running = {k}) /\ pidfile' = NoSlot
  <2>1. Running' = Running /\ NoSlot \notin Running
    BY <1>4, SameKernels, SlotsAssumption DEF Running
  <2>2. Managed' = NoSlot
    BY <1>4, <2>1 DEF Managed
  <2>3. QED
    BY <2>2 DEF TunRight
<1>5. QED
  BY <1>1, <1>2, <1>3, <1>4 DEF SudoStart, Running

LEMMA SameMerged ==
    ASSUME UNCHANGED <<base, mixin>>
    PROVE  Merged(base)' = Merged(base)
BY DEF Merged

\* Where nothing is claimed.
LEMMA PlainEffect ==
    ASSUME NEW c \in Sessions, s'[c].pc \notin SwitchLabels \cup {"updated"}, ~Won(c)'
    PROVE  Effect(c)' /\ Answers(c)'
BY DEF Effect, Answers, SwitchLabels, MergeLabels, UndoLabels

LEMMA MergeEffect ==
    ASSUME ~WriteFails, EffectInv, NEW c \in Sessions, Merging(c)
    PROVE  Effect(c)' /\ Answers(c)'
<1>a. Types /\ ServiceOK /\ Route(c) /\ Effect(c) /\ Answers(c) /\ Sole
  BY DEF EffectInv, LoadInv, KernelsInv, TurnsInv, Types, LocalsOK
<1>b. s[c].pc \in MergeLabels /\ Kept(c) /\ UNCHANGED <<base, mixin, meta, prof>>
  BY <1>a, MergingMoves DEF Merging, Merge, MergeTruncate, MergeWrite, MergeCheck, Restop,
      RestopCheck, Restart, RestartTun, files
<1>c. /\ s'[c].op = s[c].op
      /\ s[c].ret = "switched" => Inside(c)
      /\ s[c].ret \in {"switched", "mixin_done"}
      /\ s[c].ret = "mixin_done" => s'[c].op = "mixin"
  BY <1>a, <1>b DEF Kept, Route, Routed, Inside, Switching
<1>d. Merged(base)' = Merged(base)
  BY <1>b, SameMerged
<1>e. \* a merge that ends in anything but success
      ASSUME s'[c].pc = s[c].ret, s'[c].st = 1 \/ s'[c].pc = "mixin_done"
      PROVE  Effect(c)' /\ Answers(c)'
  BY <1>c, <1>e DEF Effect, Answers, Won, Ended, At, Inside
<1>f. \* a merge that ends in success
      ASSUME s'[c].pc = "switched", s[c].ret = "switched", UNCHANGED runtime, TunRight',
             s[c].pc \in {"restart", "restart_tun"}
      PROVE  Effect(c)' /\ Answers(c)'
  <2>1. runtime' = Merged(base)'
    BY <1>a, <1>c, <1>d, <1>f DEF Effect
  <2>2. QED
    BY <1>f, <2>1 DEF Effect, Answers, Won, Ended, At
<1> USE DEF Won, Ended, At
<1>1. CASE Merge(c)
  <2>1. s'[c].pc = "merge_truncate" /\ s'[c].mtun = TunUp /\ TunUp' = TunUp
    BY <1>a, <1>1, MergeMoves, SameService DEF Merge
  <2>2. QED
    BY <2>1 DEF Effect, Answers
<1>2. CASE MergeTruncate(c)
  <2>1. /\ s[c].pc = "merge_truncate" /\ s'[c].pc = "merge_write" /\ s'[c].mtun = s[c].mtun
        /\ TunUp' = TunUp
    BY <1>a, <1>2, MergeMoves, SameService DEF MergeTruncate, Same
  <2>2. QED
    BY <1>a, <2>1 DEF Effect, Answers
<1>3. CASE MergeWrite(c)
  <2>1. /\ s[c].pc = "merge_write" /\ s'[c].pc = "merge_check" /\ s'[c].mtun = s[c].mtun
        /\ TunUp' = TunUp
    BY <1>a, <1>3, MergeMoves, SameService DEF MergeWrite, Same
  <2>2. runtime' = Merged(base)'
    BY <1>3, <1>d DEF MergeWrite, Written
  <2>3. QED
    BY <1>a, <2>1, <2>2 DEF Effect, Answers
<1>4. CASE MergeCheck(c)
  <2>1. CASE Valid(runtime)
    <3>1. /\ s[c].pc = "merge_check" /\ s'[c].pc = "restop" /\ s'[c].mtun = s[c].mtun
          /\ TunUp' = TunUp /\ UNCHANGED runtime
      BY <1>a, <1>4, <2>1, MergeMoves, SameService DEF MergeCheck, Same
    <3>2. QED
      BY <1>a, <1>c, <1>d, <3>1 DEF Effect, Answers, Inside, MergeLabels
  <2>2. CASE ~Valid(runtime)
    BY <1>a, <1>4, <1>e, <2>2, MergeMoves
  <2>3. QED
    BY <2>1, <2>2
<1>5. CASE Restop(c)
  <2>1. /\ s[c].pc = "restop" /\ s'[c].mtun = s[c].mtun /\ UNCHANGED runtime
        /\ s'[c].pc = IF s[c].mtun THEN "restop_check" ELSE "restart"
    BY <1>a, <1>5, RestartMoves DEF Restop, files, Same
  <2>2. PICK x \in 0..2 : Stop(s[c].mtun, x)
    BY <1>5 DEF Restop
  <2>3. s[c].mtun \in BOOLEAN
    BY <1>a DEF Types, LocalsOK, Locals
  <2>4. Running' \subseteq Running /\ \A k \in Running' : kern'[k] = kern[k]
    BY <1>a, <2>2, <2>3, StopKernels
  <2>5. TunUp' => TunUp
    BY <2>4 DEF TunUp
  <2>6. QED
    BY <1>a, <1>c, <1>d, <2>1, <2>5 DEF Effect, Answers, Inside, MergeLabels
<1>6. CASE RestopCheck(c)
  <2>1. CASE ActiveStatus = 0
    BY <1>a, <1>6, <1>e, <2>1, RestartMoves
  <2>2. CASE ActiveStatus # 0
    <3>1. /\ s[c].pc = "restop_check" /\ s'[c].pc = "restart" /\ s'[c].mtun = s[c].mtun
          /\ UNCHANGED runtime /\ Look
      BY <1>a, <1>6, <2>2, RestartMoves DEF RestopCheck, files, Same
    <3>2. Managed' = NoSlot /\ Running' = Running /\ kern' = kern
      BY <2>2, <3>1, LookManaged DEF ActiveStatus, Look
    <3>3. TunUp' = TunUp
      BY <3>2 DEF TunUp
    <3>4. QED
      BY <1>a, <1>c, <1>d, <3>1, <3>2, <3>3 DEF Effect, Answers, Inside, MergeLabels
  <2>3. QED
    BY <2>1, <2>2
<1>7. CASE Restart(c)
  <2>1. s[c].pc = "restart" /\ UNCHANGED runtime /\ s'[c].mtun = s[c].mtun
    BY <1>a, <1>7, RestartMoves DEF Restart, files, Same
  <2>2. ~TunUp \/ Managed = NoSlot
    BY <1>a, <2>1 DEF Effect, Answers
  <2>3. CASE s'[c].pc = "restart_tun" /\ \E x \in {0, 1} : SudoStart(x)
    <3>1. TunRight'
      BY <1>a, <2>1, <2>2, <2>3, SudoStartAnswers
    <3>2. QED
      BY <1>a, <1>c, <1>d, <2>1, <2>3, <3>1 DEF Effect, Answers, Inside, MergeLabels
  <2>4. CASE s'[c].pc = s[c].ret /\ s'[c].st \in {0, 1} /\ Start(s'[c].st)
    <3>1. TunRight'
      BY <1>a, <2>1, <2>2, <2>4, StartAnswers
    <3>2. QED
      BY <1>c, <1>e, <1>f, <2>1, <2>4, <3>1
  <2>5. QED
    BY <1>a, <1>7, <2>3, <2>4, RestartMoves
<1>8. CASE RestartTun(c)
  <2>1. /\ s[c].pc = "restart_tun" /\ s'[c].pc = s[c].ret /\ s'[c].st \in {0, 1}
        /\ UNCHANGED runtime /\ UNCHANGED service
    BY <1>a, <1>8, RestartMoves DEF RestartTun, files
  <2>2. TunRight'
    BY <1>a, <2>1, SameService DEF Answers, TunRight
  <2>3. QED
    BY <1>c, <1>e, <1>f, <2>1, <2>2
<1>9. QED
  BY <1>1, <1>2, <1>3, <1>4, <1>5, <1>6, <1>7, <1>8 DEF Merging

LEMMA SwitchEffect ==
    ASSUME ~WriteFails, EffectInv, NEW c \in Sessions,
           MixinDone(c) \/ Use(c) \/ Snapshot(c) \/ Switch(c) \/ Switched(c) \/ Commit(c)
    PROVE  Effect(c)' /\ Answers(c)'
<1>a. Types /\ Route(c) /\ Effect(c) /\ Answers(c) /\ Basis(c) /\ meta \in Metas
  BY DEF EffectInv, BasisInv, UpdatesInv, LoadInv, KernelsInv, TurnsInv, Types, LocalsOK, FilesOK
<1>b. UNCHANGED <<mixin, runtime, prof>>
  BY DEF MixinDone, Use, Snapshot, Switch, Switched, Commit, files
<1>1. CASE MixinDone(c)
  <2>1. s'[c].pc = "done" /\ s'[c].op = "mixin"
    BY <1>a, <1>1, SwitchMoves DEF Same, Route, Routed
  <2>2. QED
    BY <2>1, PlainEffect DEF Won, Ended, At, SwitchLabels, MergeLabels, UndoLabels
<1>2. CASE Use(c)
  <2>1. s'[c].pc = "snapshot" \/ (s'[c].pc = "used" /\ s'[c].st = 1)
    BY <1>a, <1>2, SwitchMoves
  <2>2. QED
    BY <2>1, PlainEffect DEF Won, Ended, At, SwitchLabels, MergeLabels, UndoLabels
<1>3. CASE Snapshot(c)
  <2>1. s'[c].pc = "switch"
    BY <1>a, <1>3, SwitchMoves
  <2>2. QED
    BY <2>1 DEF Effect, Answers, Won, Ended, At
<1>4. CASE Switch(c)
  <2>1. s'[c].pc \in {"merge", "undo"}
    BY <1>a, <1>4, SwitchMoves
  <2>2. QED
    BY <2>1 DEF Effect, Answers, Won, Ended, At
<1>5. CASE Switched(c)
  <2>1. CASE s'[c].pc = "undo"
    BY <2>1 DEF Effect, Answers, Won, Ended, At
  <2>2. CASE s'[c].pc = "commit"
    <3>1. s[c].pc = "switched" /\ s[c].st = 0 /\ ActiveStatus = 0 /\ Look /\ UNCHANGED base
      BY <1>a, <1>5, <2>2, SwitchMoves DEF Switched, files
    <3>2. Managed' = Managed /\ Managed # NoSlot /\ kern' = kern
      BY <3>1, LookManaged DEF Look, ActiveStatus
    <3>3. TunRight'
      BY <1>a, <1>b, <3>1, <3>2 DEF Answers, TunRight
    <3>4. runtime' = Merged(base)'
      BY <1>a, <1>b, <3>1, SameMerged DEF Effect
    <3>5. QED
      BY <2>2, <3>2, <3>3, <3>4 DEF Effect, Answers, Won, Ended, At
  <2>3. QED
    BY <1>a, <1>5, <2>1, <2>2, SwitchMoves
<1>6. CASE Commit(c)
  <2>1. CASE s'[c].pc = "undo"
    BY <2>1 DEF Effect, Answers, Won, Ended, At
  <2>2. CASE s'[c].pc = "used" /\ meta' = [meta EXCEPT !.use = s[c].id]
    <3>1. s[c].pc = "commit" /\ s'[c].id = s[c].id /\ UNCHANGED base /\ UNCHANGED service
      BY <1>a, <1>6, SwitchMoves DEF Commit, Same
    <3>2. Inside(c)
      BY <1>a, <3>1 DEF Inside, Route, Routed, Switching
    <3>3. meta'.use = s'[c].id /\ base' = prof'[s'[c].id]
      BY <1>a, <1>b, <2>2, <3>1, <3>2 DEF Basis, Metas
    <3>4. runtime' = Merged(base)'
      BY <1>a, <1>b, <3>1, SameMerged DEF Effect
    <3>5. TunRight' /\ Managed' # NoSlot
      BY <1>a, <1>b, <3>1, SameService DEF Answers, TunRight
    <3>6. QED
      BY <2>2, <3>3, <3>4, <3>5 DEF Effect, Answers
  <2>3. QED
    BY <1>a, <1>6, <2>1, <2>2, SwitchMoves
<1>7. QED
  BY <1>1, <1>2, <1>3, <1>4, <1>5, <1>6

LEMMA UndoEffect ==
    ASSUME ~WriteFails, EffectInv, NEW c \in Sessions,
           Undo(c) \/ UndoRm(c) \/ UndoCp(c) \/ UndoStart(c) \/ UndoPorts(c)
    PROVE  Effect(c)' /\ Answers(c)'
<1>1. Types
  BY DEF EffectInv, LoadInv, KernelsInv, TurnsInv
<1>2. s'[c].pc \in UndoLabels \/ (s'[c].pc = "used" /\ s'[c].st \in {1, 2})
  BY <1>1, UndoMoves DEF UndoLabels
<1>3. QED
  BY <1>2 DEF Effect, Answers, Won, Ended, At, UndoLabels

LEMMA UpdateEffect ==
    ASSUME ~WriteFails, EffectInv, NEW c \in Sessions, Replace(c) \/ Used(c) \/ Updated(c)
    PROVE  Effect(c)' /\ Answers(c)'
<1>a. Types /\ Route(c) /\ Effect(c) /\ Answers(c) /\ Outcome(c) /\ Taken(c)
  BY DEF EffectInv, LoadInv, KernelsInv, TurnsInv, Types, LocalsOK, Knows
<1>b. UNCHANGED <<base, runtime, mixin, meta, service>>
  BY DEF Replace, Used, Updated, files
<1>c. \* what was reached stays
      ASSUME Won(c), UNCHANGED prof, s'[c].id = s[c].id,
             s'[c].pc = "done" \/ (s'[c].pc = "updated" /\ s'[c].taken)
      PROVE  Effect(c)' /\ Answers(c)'
  <2>1. Merged(base)' = Merged(base) /\ Managed' = Managed /\ (TunRight => TunRight')
    BY <1>b, SameMerged, SameService DEF TunRight
  <2>2. /\ meta'.use = s'[c].id /\ base' = prof'[s'[c].id] /\ runtime' = Merged(base)'
        /\ TunRight' /\ Managed' # NoSlot
    BY <1>a, <1>b, <1>c, <2>1 DEF Effect, Answers
  <2>3. QED
    BY <1>c, <2>2 DEF Effect, Answers
<1>d. \* where nothing was reached
      ASSUME s'[c].pc = "done", s'[c].st # 0
      PROVE  Effect(c)' /\ Answers(c)'
  BY <1>d, PlainEffect DEF Won, Ended, At, SwitchLabels, MergeLabels, UndoLabels
<1>1. CASE Replace(c)
  <2>1. CASE s'[c].pc = "use"
    BY <2>1, PlainEffect DEF Won, Ended, At, SwitchLabels, MergeLabels, UndoLabels
  <2>2. CASE s'[c].pc = "updated" /\ meta.use # s[c].id
    <3>1. s[c].pc = "replace" /\ ~s[c].taken /\ s'[c].id = s[c].id
      BY <1>a, <1>1, UpdateMoves DEF Taken
    <3>2. s'[c].taken = s[c].taken
      <4>1. s \in [Sessions -> Locals] /\ s[c] \in Locals
        BY <1>a DEF Types, LocalsOK
      <4>2. CASE Exit(c, 1)
        BY <4>1, <4>2, GoWithFacts DEF Exit, Same, Labels
      <4>3. CASE ~Exit(c, 1)
        BY <1>1, <4>1, <4>3 DEF Replace, Locals
      <4>4. QED
        BY <4>2, <4>3
    <3>3. QED
      BY <1>b, <2>2, <3>1, <3>2 DEF Effect, Answers, Won, Ended, At
  <2>3. QED
    BY <1>a, <1>1, <1>d, <2>1, <2>2, UpdateMoves
<1>2. CASE Used(c)
  <2>1. s[c].pc = "used" /\ s'[c].st = s[c].st /\ Same(c)
    BY <1>a, <1>2, UpdateMoves
  <2>2. CASE s[c].st = 0
    <3>1. Won(c) /\ s[c].taken
      BY <1>a, <2>1, <2>2 DEF Won, Outcome
    <3>2. UNCHANGED prof /\ s'[c].pc \in {"done", "updated"}
      BY <1>a, <1>2, <2>2, UpdateMoves
    <3>3. QED
      BY <1>c, <2>1, <3>1, <3>2 DEF Same
  <2>3. CASE s[c].st # 0
    <3>1. s'[c].pc = "done"
      BY <1>a, <1>2, <2>3, UpdateMoves
    <3>2. QED
      BY <1>d, <2>1, <2>3, <3>1
  <2>4. QED
    BY <2>2, <2>3
<1>3. CASE Updated(c)
  <2>1. /\ s[c].pc = "updated" /\ s'[c].op = s[c].op /\ s'[c].id = s[c].id /\ UNCHANGED prof
        /\ s[c].op \in Updating
    BY <1>a, <1>3, UpdateMoves DEF Updated, files, Route, Routed
  <2>2. CASE s'[c].pc = "use"
    BY <2>2, PlainEffect DEF Won, Ended, At, SwitchLabels, MergeLabels, UndoLabels
  <2>3. CASE s'[c].pc = "done" /\ s[c].op = "readd" /\ meta.use = s[c].id
    <3>1. Won(c)
      BY <1>a, <2>1, <2>3 DEF Effect, Won
    <3>2. QED
      BY <1>c, <2>1, <2>3, <3>1
  <2>4. CASE s'[c].pc = "done" /\ s[c].op # "readd"
    <3>1. ~Won(c)'
      BY <2>1, <2>4 DEF Won, Ended, At, Updating
    <3>2. QED
      BY <2>4, <3>1, PlainEffect DEF SwitchLabels, MergeLabels, UndoLabels
  <2>5. QED
    BY <1>a, <1>3, <2>2, <2>3, <2>4, UpdateMoves
<1>4. QED
  BY <1>1, <1>2, <1>3

LEMMA OtherEffect ==
    ASSUME ~WriteFails, EffectInv, NEW c \in Sessions,
           \/ Add(c) \/ Update(c) \/ Download(c) \/ Check(c) \/ Store(c) \/ Enter(c) \/ Finish(c)
           \/ Del(c) \/ DelStop(c) \/ DelCheck(c) \/ DelEntry(c) \/ DelConfig(c) \/ DelProfile(c)
           \/ \E o \in Commands : Begin(c, o)
    PROVE  Effect(c)' /\ Answers(c)'
<1>a. Types /\ Route(c)
  BY DEF EffectInv, LoadInv, KernelsInv, TurnsInv, Types, LocalsOK
<1>1. CASE \E o \in Commands : Begin(c, o)
  <2>1. s'[c].pc \in {"use", "update", "del", "add", "merge"}
    BY <1>a, <1>1, BeginMoves
  <2>2. QED
    BY <2>1 DEF Effect, Answers, Won, Ended, At
<1>2. CASE Finish(c)
  <2>1. s'[c].pc = "idle"
    BY <1>a, <1>2, InterruptMoves
  <2>2. QED
    BY <2>1, PlainEffect DEF Won, Ended, At, SwitchLabels, MergeLabels, UndoLabels
<1>3. CASE Add(c) \/ Update(c) \/ Download(c) \/ Check(c) \/ Store(c) \/ Enter(c)
  <2>1. \/ s'[c].pc = "done" /\ s'[c].st = 1
        \/ s'[c].pc \in {"update", "download", "check", "store", "replace", "enter", "use"}
    BY <1>a, <1>3, AddMoves
  <2>2. QED
    BY <2>1, PlainEffect DEF Won, Ended, At, SwitchLabels, MergeLabels, UndoLabels
<1>4. CASE Del(c) \/ DelStop(c) \/ DelCheck(c) \/ DelEntry(c) \/ DelConfig(c) \/ DelProfile(c)
  <2>1. s'[c].op = "del"
    BY <1>a, <1>4, DelMoves DEF Same, Route, Routed, DelLabels
  <2>2. s'[c].pc \in {"done", "del_stop", "del_check", "del_entry", "del_config", "del_profile"}
    BY <1>a, <1>4, DelMoves
  <2>3. QED
    BY <2>1, <2>2, PlainEffect DEF Won, Ended, At, SwitchLabels, MergeLabels, UndoLabels
<1>5. QED
  BY <1>1, <1>2, <1>3, <1>4

LEMMA EffectStep ==
    ASSUME Serial, ~WriteFails, Interruptible = {}, ~Crashes, EffectInv, [Next]_vars
    PROVE  EffectInv'
<1>a. LoadInv' /\ BasisInv' /\ TurnsInv
  BY LoadStep, BasisStep DEF EffectInv, LoadInv, KernelsInv
<1>1. CASE UNCHANGED vars
  <2>1. UNCHANGED <<base, runtime, mixin, meta, prof, s>> /\ UNCHANGED service
    BY <1>1 DEF vars, service
  <2>2. Merged(base)' = Merged(base) /\ Managed' = Managed /\ TunUp' = TunUp /\ kern' = kern
    BY <2>1, SameMerged, SameService
  <2>3. ASSUME NEW c \in Sessions
        PROVE  Effect(c)' /\ Answers(c)'
    <3>1. Effect(c) /\ Answers(c)
      BY DEF EffectInv
    <3>2. QED
      BY <2>1, <2>2, <3>1 DEF Effect, Answers, TunRight, Won, Ended, At, Inside
  <2>4. QED
    BY <1>a, <2>3 DEF EffectInv
<1>2. CASE \E c \in Sessions :
             Moves(c) /\ \A d \in Sessions \ {c} : s[d].pc = "idle" /\ s'[d].pc = "idle"
  <2>1. PICK c \in Sessions :
             Moves(c) /\ \A d \in Sessions \ {c} : s[d].pc = "idle" /\ s'[d].pc = "idle"
    BY <1>2
  <2>2. ASSUME NEW d \in Sessions \ {c}
        PROVE  Effect(d)' /\ Answers(d)'
    BY <2>1, <2>2, PlainEffect DEF Won, Ended, At, SwitchLabels, MergeLabels, UndoLabels
  <2>3. Effect(c)' /\ Answers(c)'
    BY <2>1, MergeEffect, SwitchEffect, UndoEffect, UpdateEffect, OtherEffect
       DEF Moves, Interrupt, Step, Merging
  <2>4. QED
    BY <1>a, <2>2, <2>3 DEF EffectInv
<1>3. QED
  BY <1>a, <1>1, <1>2, Turns DEF Die

LEMMA InitEffect == Init => EffectInv
<1> SUFFICES ASSUME Init PROVE EffectInv
  OBVIOUS
<1>1. LoadInv /\ BasisInv /\ \A c \in Sessions : s[c].pc = "idle"
  BY InitLoad, InitBasis DEF Init, NoSession
<1>2. \A c \in Sessions : Effect(c) /\ Answers(c)
  BY <1>1 DEF Effect, Answers, Won, Ended, At, Inside
<1>3. QED
  BY <1>1, <1>2 DEF EffectInv

\* While commands run in turns to their ends, writes do not fail and no kernel crashes, a
\* switch that succeeds (sub.sh:264-278) has its profile in use, in config.yaml and, merged,
\* in runtime.yaml, and the kernel that answers runs that: unless it is one of root's
\* without a TUN device, which `clashctl off` could not stop either.
THEOREM SwitchInEffect ==
    ASSUME Serial, ~WriteFails, Interruptible = {}, ~Crashes
    PROVE  Spec => []InEffect
<1>1. EffectInv => InEffect
  <2>1. SUFFICES ASSUME EffectInv, NEW c \in Sessions, Ended(c, {"use", "add_use", "readd"}, 0)
                 PROVE  /\ meta.use = s[c].id /\ base = prof[s[c].id] /\ runtime = Merged(base)
                        /\ Managed # NoSlot
                        /\ kern[Managed].owner = "user" \/ kern[Managed].tun
                             => kern[Managed].conf = runtime
    BY DEF InEffect
  <2>2. Effect(c) /\ Answers(c) /\ Won(c) /\ Load(runtime)
    BY <2>1 DEF EffectInv, Won, LoadInv, Loaded, Ended, At
  <2>3. Managed \in Slots
    BY <2>2, ManagedIsSlot DEF Answers
  <2>4. QED
    BY <2>2, <2>3 DEF Effect, Answers, TunRight, Load, Users
<1>2. EffectInv /\ [Next]_vars => EffectInv'
  BY EffectStep
<1>3. QED
  BY <1>1, <1>2, InitEffect, PTL DEF Spec

-----------------------------------------------------------------------------
(***************************************************************************)
(* Switches while nobody edits the mixin, which is what could enable TUN:  *)
(* then sudo is never used and no kernel is root's, so that a stop leaves  *)
(* no kernel and a start loads runtime.yaml.  Interrupts, kernels that     *)
(* crash and writes that fail are allowed, which is why nothing is said of *)
(* the files between commands: a switch has to reach its ends from any.    *)
(***************************************************************************)
NoTun ==
    /\ ~mixin.tun /\ ~runtime.tun /\ ~temp.tun
    /\ \A k \in Slots : kern[k].owner # "root" /\ ~kern[k].tun
    /\ \A c \in Sessions : s[c].op # "mixin" /\ ~s[c].tun /\ ~s[c].mtun /\ ~s[c].snapRuntime.tun

\* What a switch has reached on its way forward.
Forward(c) ==
    /\ s[c].pc \in MergeLabels => base = prof[s[c].id] /\ s[c].pc \notin {"restop_check", "restart_tun"}
    /\ s[c].pc = "merge_check" => runtime \in {Merged(base), Empty}
    /\ s[c].pc \in {"restop", "restart"} => runtime = Merged(base)
    /\ (s[c].pc = "switched" /\ s[c].st = 0) \/ s[c].pc = "commit" \/ Won(c)
         => base = prof[s[c].id] /\ runtime = Merged(base) /\ Load(runtime)
    /\ s[c].pc = "commit" \/ Won(c) => Managed # NoSlot \/ Crashes
    /\ Won(c) => meta.use = s[c].id
    /\ s[c].pc = "updated" /\ ~s[c].taken => meta.use # s[c].id

\* And on its way back.
Back(c) ==
    /\ s[c].pc \in {"undo_rm", "undo_cp", "undo_start"} => NoUser
    /\ s[c].pc = "undo_ports" => Load(runtime)
    /\ s[c].pc \in {"used", "done"} /\ s[c].op \in Switching /\ s[c].st = 1 /\ s[c].taken
         => Load(runtime)

PlainInv == KernelsInv /\ NoTun /\ \A c \in Sessions : Forward(c) /\ Back(c)

LEMMA TunIsOff ==
    ASSUME NoTun
    PROVE  ~TunUp /\ ~TunEnabled
BY DEF NoTun, TunUp, TunEnabled, Running

\* The locals a session keeps.
LEMMA PlainLocals ==
    ASSUME Types, NoTun, NEW c \in Sessions,
           Step(c) \/ Interrupt(c) \/ \E o \in Commands \ {"mixin"} : Begin(c, o)
    PROVE  /\ s'[c].op # "mixin" /\ ~s'[c].tun /\ ~s'[c].mtun /\ ~s'[c].snapRuntime.tun
           /\ s'[c].pc = "done" => s'[c].taken = s[c].taken
<1> DEFINE Plain == /\ s'[c].op # "mixin" /\ ~s'[c].tun /\ ~s'[c].mtun /\ ~s'[c].snapRuntime.tun
                    /\ s'[c].pc = "done" => s'[c].taken = s[c].taken
<1>a. /\ s \in [Sessions -> Locals] /\ s[c] \in Locals /\ s[c].ret \in Labels
      /\ s[c].op # "mixin" /\ ~s[c].tun /\ ~s[c].mtun /\ ~s[c].snapRuntime.tun
  BY DEF Types, LocalsOK, Locals, Labels, NoTun
<1>b. ASSUME Same(c) PROVE Plain
  BY <1>a, <1>b DEF Same
<1>c. ASSUME NEW l \in Labels, Go(c, l) \/ \E x \in 0..2 : GoWith(c, l, x) PROVE Plain
  <2>1. Same(c)
    BY <1>a, <1>c, GoFacts, GoWithFacts
  <2> QED
    BY <1>b, <2>1
<1>d. ~TunUp /\ runtime.tun = FALSE
  BY TunIsOff DEF NoTun, Types, FilesOK, Files
<1> USE <1>a DEF Locals
<1>1. CASE Merge(c)
  BY <1>1, <1>d DEF Merge
<1>2. CASE Snapshot(c)
  <2>1. CASE GoWith(c, "used", 1)
    BY <1>c, <2>1 DEF Labels
  <2>2. CASE s' = [s EXCEPT ![c].pc = "switch", ![c].taken = TRUE, ![c].snapBase = base,
                            ![c].snapRuntime = runtime, ![c].snapMeta = meta,
                            ![c].act = (ActiveStatus = 0), ![c].tun = TunUp]
    BY <1>d, <2>2
  <2> QED
    BY <1>2, <2>1, <2>2 DEF Snapshot
<1>3. CASE Switch(c) \/ Undo(c)
  BY <1>3, <1>c DEF Switch, Undo, Labels, UndoLabels
<1>4. CASE UndoCp(c)
  BY <1>4, <1>c DEF UndoCp, Labels
<1>5. CASE Add(c) \/ Update(c) \/ Store(c)
  <2>1. CASE \E i \in Ids : s' = [s EXCEPT ![c].op = "readd", ![c].id = i, ![c].pc = "update"]
    BY <2>1
  <2>2. CASE s' = [s EXCEPT ![c].url = meta.urls[s[c].id], ![c].pc = "download"]
    BY <2>2
  <2>3. CASE s' = [s EXCEPT ![c].id = NextId, ![c].pc = "enter"]
    BY <2>3
  <2>4. CASE Go(c, "download") \/ GoWith(c, "done", 1)
    BY <1>c, <2>4 DEF Labels
  <2> QED
    BY <1>5, <2>1, <2>2, <2>3, <2>4 DEF Add, Update, Store, Exit
<1>6. CASE Replace(c)
  BY <1>6, <1>c DEF Replace, Labels, Exit
<1>7. CASE Updated(c) \/ Del(c)
  BY <1>7, <1>c DEF Updated, Del, Labels, Exit
<1>8. CASE Finish(c) \/ Interrupt(c)
  BY <1>8 DEF Finish, Interrupt, NoSession, Absent, File
<1>9. CASE \E o \in Commands \ {"mixin"} : Begin(c, o)
  <2>1. PICK o \in Commands \ {"mixin"} : Begin(c, o)
    BY <1>9
  <2>2. CASE \E i \in Ids : s' = [s EXCEPT ![c].op = o, ![c].pc = o, ![c].id = i]
    <3>1. PICK i \in Ids : s' = [s EXCEPT ![c].op = o, ![c].pc = o, ![c].id = i]
      BY <2>2
    <3>2. o # "mixin"
      BY <2>1
    <3> QED
      BY <3>1, <3>2
  <2>3. CASE \E u \in Urls : s' = [s EXCEPT ![c].op = o, ![c].pc = "add", ![c].url = u]
    BY <2>1, <2>3
  <2> QED
    BY <2>1, <2>2, <2>3 DEF Begin
<1>10. CASE MergeTruncate(c) \/ MergeWrite(c) \/ MergeCheck(c) \/ Restop(c) \/ RestopCheck(c)
            \/ Restart(c) \/ RestartTun(c)
  <2>1. Same(c)
    BY <1>10, MergeMoves, RestartMoves
  <2> QED
    BY <1>b, <2>1
<1>11. CASE MixinDone(c) \/ Use(c) \/ Switched(c) \/ Commit(c) \/ UndoRm(c) \/ UndoStart(c)
            \/ UndoPorts(c) \/ Download(c) \/ Check(c) \/ Enter(c) \/ Used(c) \/ DelStop(c)
            \/ DelCheck(c) \/ DelEntry(c) \/ DelConfig(c) \/ DelProfile(c)
  <2>1. Same(c)
    BY <1>11, SwitchMoves, UndoMoves, AddMoves, UpdateMoves, DelMoves
  <2> QED
    BY <1>b, <2>1
<1> QED
  BY <1>1, <1>2, <1>3, <1>4, <1>5, <1>6, <1>7, <1>8, <1>9, <1>10, <1>11 DEF Step

LEMMA PlainFiles ==
    ASSUME Types, NoTun, NEW c \in Sessions,
           Step(c) \/ Interrupt(c) \/ \E o \in Commands \ {"mixin"} : Begin(c, o)
    PROVE  ~mixin'.tun /\ ~runtime'.tun /\ ~temp'.tun
<1>1. ~Absent.tun /\ ~Empty.tun /\ ~Merged(base).tun
      /\ \A u \in Urls, q \in Fetched : ~File(u, q, FALSE).tun
  BY DEF Absent, Empty, File, Merged, NoTun
<1>2. \A f \in {Absent, Empty, runtime, temp, Merged(base), s[c].snapRuntime} : ~f.tun
  BY <1>1 DEF NoTun
<1>3. \A f : \A g \in Written(f) : g \in {f, Empty}
  BY DEF Written
<1>4. mixin' = mixin
  <2>1. CASE Step(c) \/ Interrupt(c)
    BY <2>1 DEF Step, Merge, MergeTruncate, MergeWrite, MergeCheck, Restop, RestopCheck, Restart,
        RestartTun, MixinDone, Use, Snapshot, Switch, Switched, Commit, Undo, UndoRm, UndoCp,
        UndoStart, UndoPorts, Add, Update, Download, Check, Store, Enter, Replace, Used, Updated,
        Del, DelStop, DelCheck, DelEntry, DelConfig, DelProfile, Finish, Interrupt, files
  <2>2. CASE \E o \in Commands \ {"mixin"} : Begin(c, o)
    BY <2>2 DEF Begin
  <2> QED
    BY <2>1, <2>2
<1>5. runtime' \in {Absent, Empty, runtime, temp, Merged(base), s[c].snapRuntime}
  <2>1. CASE MergeTruncate(c) \/ MergeWrite(c) \/ MergeCheck(c) \/ UndoRm(c) \/ UndoCp(c) \/ DelConfig(c)
    BY <2>1, <1>3 DEF MergeTruncate, MergeWrite, MergeCheck, UndoRm, UndoCp, DelConfig
  <2>2. CASE Interrupt(c) \/ \E o \in Commands \ {"mixin"} : Begin(c, o)
    BY <2>2 DEF Interrupt, Begin, files
  <2>3. CASE Step(c) /\ ~(MergeTruncate(c) \/ MergeWrite(c) \/ MergeCheck(c) \/ UndoRm(c)
                          \/ UndoCp(c) \/ DelConfig(c))
    BY <2>3 DEF Step, Merge, Restop, RestopCheck, Restart,
        RestartTun, MixinDone, Use, Snapshot, Switch, Switched, Commit, Undo,
        UndoStart, UndoPorts, Add, Update, Download, Check, Store, Enter, Replace, Used, Updated,
        Del, DelStop, DelCheck, DelEntry, DelProfile, Finish, files
  <2> QED
    BY <2>1, <2>2, <2>3
<1>6. \/ temp' \in {Absent, Empty, runtime, temp}
      \/ \E q \in Fetched : temp' = File(s[c].url, q, FALSE)
  <2>1. CASE Merge(c) \/ Download(c) \/ Store(c) \/ DelConfig(c)
    BY <2>1, <1>3 DEF Merge, Download, Store, DelConfig
  <2>2. CASE Interrupt(c) \/ \E o \in Commands \ {"mixin"} : Begin(c, o)
    BY <2>2 DEF Interrupt, Begin, files
  <2>3. CASE Step(c) /\ ~(Merge(c) \/ Download(c) \/ Store(c) \/ DelConfig(c))
    BY <2>3 DEF Step, MergeTruncate, MergeWrite, MergeCheck, Restop, RestopCheck, Restart,
        RestartTun, MixinDone, Use, Snapshot, Switch, Switched, Commit, Undo, UndoRm, UndoCp,
        UndoStart, UndoPorts, Add, Update, Check, Enter, Replace, Used, Updated,
        Del, DelStop, DelCheck, DelEntry, DelProfile, Finish, files
  <2> QED
    BY <2>1, <2>2, <2>3
<1>7. \A q \in Fetched : ~File(s[c].url, q, FALSE).tun
  BY DEF File
<1> QED
  BY <1>2, <1>4, <1>5, <1>6, <1>7 DEF NoTun

\* No call takes a kernel with sudo.
LEMMA PlainKernels ==
    ASSUME Types, NoTun, NEW c \in Sessions,
           Step(c) \/ Interrupt(c) \/ \E o \in Commands \ {"mixin"} : Begin(c, o)
    PROVE  \A k \in Slots : kern'[k].owner # "root" /\ ~kern'[k].tun
<1> DEFINE Plain == \A k \in Slots : kern'[k].owner # "root" /\ ~kern'[k].tun
<1>a. kern \in [Slots -> Kernels] /\ \A k \in Slots : kern[k].owner # "root" /\ ~kern[k].tun
  BY DEF Types, ServiceOK, NoTun
<1>b. ~s[c].tun /\ ~TunEnabled
  BY TunIsOff DEF NoTun
<1>c. ASSUME UNCHANGED kern PROVE Plain
  BY <1>a, <1>c
<1>d. ASSUME NEW sudo, NEW x, Stop(sudo, x) PROVE Plain
  <2>1. CASE Look
    BY <1>c, <2>1 DEF Look
  <2>2. CASE kern' = [kern EXCEPT ![Managed] = NoKernel]
    BY <1>a, <2>2 DEF NoKernel
  <2> QED
    BY <1>d, <2>1, <2>2 DEF Stop
<1>e. ASSUME NEW x, Start(x) PROVE Plain
  <2>1. CASE Look
    BY <1>c, <2>1 DEF Look
  <2>2. CASE \E k \in Slots :
               kern' = [kern EXCEPT ![k] = [owner |-> "user", conf |-> runtime, tun |-> FALSE]]
    BY <1>a, <2>2
  <2> QED
    BY <1>e, <2>1, <2>2 DEF Start
<1>1. CASE Restop(c) \/ Undo(c) \/ DelStop(c)
  BY <1>1, <1>d DEF Restop, Undo, DelStop
<1>2. CASE Restart(c) \/ UndoStart(c)
  BY <1>2, <1>b, <1>c, <1>e DEF Restart, UndoStart, service
<1>3. CASE Interrupt(c) \/ \E o \in Commands \ {"mixin"} : Begin(c, o)
  BY <1>3, <1>c DEF Interrupt, Begin, service
<1>4. CASE Step(c) /\ ~(Restop(c) \/ Undo(c) \/ DelStop(c) \/ Restart(c) \/ UndoStart(c))
  <2>1. UNCHANGED kern
    BY <1>4 DEF Step, Merge, MergeTruncate, MergeWrite, MergeCheck, RestopCheck,
        RestartTun, MixinDone, Use, Snapshot, Switch, Switched, Commit, UndoRm, UndoCp,
        UndoPorts, Add, Update, Download, Check, Store, Enter, Replace, Used, Updated,
        Del, DelCheck, DelEntry, DelConfig, DelProfile, Finish, files, service, Look
  <2> QED
    BY <1>c, <2>1
<1> QED
  BY <1>1, <1>2, <1>3, <1>4

LEMMA NoTunStep ==
    ASSUME "mixin" \notin Commands, Types, NoTun, [Next]_vars
    PROVE  NoTun'
<1>1. CASE UNCHANGED vars
  BY <1>1 DEF vars, NoTun
<1>2. ASSUME NEW k \in Slots, Die(k) PROVE NoTun'
  BY <1>2 DEF Die, files, NoTun, NoKernel, Types, ServiceOK
<1>3. ASSUME NEW c \in Sessions,
             Step(c) \/ Interrupt(c) \/ \E o \in Commands \ {"mixin"} : Begin(c, o)
      PROVE  NoTun'
  <2>1. \A d \in Sessions \ {c} : s'[d] = s[d]
    BY <1>3, OthersStay
  <2>2. /\ s'[c].op # "mixin" /\ ~s'[c].tun /\ ~s'[c].mtun /\ ~s'[c].snapRuntime.tun
        /\ ~mixin'.tun /\ ~runtime'.tun /\ ~temp'.tun
        /\ \A k \in Slots : kern'[k].owner # "root" /\ ~kern'[k].tun
    BY <1>3, PlainLocals, PlainFiles, PlainKernels
  <2>3. \A d \in Sessions \ {c} : s'[d].op # "mixin" /\ ~s'[d].tun /\ ~s'[d].mtun /\ ~s'[d].snapRuntime.tun
    BY <2>1 DEF NoTun
  <2> QED
    BY <2>2, <2>3 DEF NoTun
<1> QED
  BY <1>1, <1>2, <1>3 DEF Next

\* Where nothing is claimed.
LEMMA NoClaim ==
    ASSUME NEW c \in Sessions, ~Won(c)',
           s'[c].pc \notin SwitchLabels \cup {"updated", "used", "done"}
             \/ (s'[c].pc = "used" /\ s'[c].st = 2)
             \/ (s'[c].pc \in {"used", "done"} /\ ~s'[c].taken)
             \/ (s'[c].pc = "done" /\ s'[c].op \notin Switching)
             \/ s'[c].pc \in {"switch", "undo"}
             \/ (s'[c].pc = "switched" /\ s'[c].st # 0)
    PROVE  Forward(c)' /\ Back(c)'
BY DEF Forward, Back, SwitchLabels, MergeLabels, UndoLabels

LEMMA MergePlain ==
    ASSUME PlainInv, NEW c \in Sessions, Merging(c)
    PROVE  Forward(c)' /\ Back(c)'
<1>a. /\ Types /\ ServiceOK /\ Sole /\ NoTun /\ Forward(c) /\ Switches(c) /\ Route(c)
      /\ s[c].op # "mixin" /\ ~s[c].mtun
  BY DEF PlainInv, KernelsInv, TurnsInv, Types, LocalsOK, NoTun
<1>b. /\ s[c].pc \in MergeLabels /\ Kept(c) /\ UNCHANGED <<base, mixin, meta, prof>>
      /\ s[c].ret = "switched"
  BY <1>a, MergingMoves DEF Route, Routed
<1>c. Merged(base)' = Merged(base) /\ base' = prof'[s'[c].id]
  BY <1>a, <1>b, SameMerged DEF Forward, Kept
<1> USE DEF Won, Ended, At, MergeLabels
<1>1. CASE Merge(c) \/ MergeTruncate(c)
  <2>1. s'[c].pc \in {"merge_truncate", "merge_write"}
    BY <1>a, <1>1, MergeMoves
  <2> QED
    BY <1>c, <2>1 DEF Forward, Back
<1>2. CASE MergeWrite(c)
  <2>1. s'[c].pc = "merge_check" /\ runtime' \in {Merged(base), Empty}
    BY <1>a, <1>2, MergeMoves DEF MergeWrite, Written
  <2> QED
    BY <1>c, <2>1 DEF Forward, Back
<1>3. CASE MergeCheck(c)
  <2>1. CASE Valid(runtime)
    <3>1. s[c].pc = "merge_check" /\ s'[c].pc = "restop" /\ runtime' = runtime
      BY <1>a, <1>3, <2>1, MergeMoves DEF MergeCheck
    <3>2. runtime = Merged(base)
      BY <1>a, <2>1, <3>1 DEF Forward, Valid, Empty, File
    <3> QED
      BY <1>c, <3>1, <3>2 DEF Forward, Back
  <2>2. CASE ~Valid(runtime)
    <3>1. s'[c].pc = "switched" /\ s'[c].st = 1
      BY <1>a, <1>b, <1>3, <2>2, MergeMoves
    <3> QED
      BY <3>1, NoClaim
  <2> QED
    BY <2>1, <2>2
<1>4. CASE Restop(c)
  <2>1. s[c].pc = "restop" /\ s'[c].pc = "restart" /\ runtime' = runtime
    BY <1>a, <1>4, RestartMoves DEF Restop, files
  <2>2. PICK x \in 0..2 : Stop(s[c].mtun, x)
    BY <1>4 DEF Restop
  <2>3. s[c].mtun = FALSE
    BY <1>a DEF Types, LocalsOK, Locals
  <2>4. NoUser'
    BY <1>a, <2>2, <2>3, StopKernels DEF NoUser
  <2> QED
    BY <1>a, <1>c, <2>1, <2>4 DEF Forward, Back
<1>5. CASE RestopCheck(c) \/ RestartTun(c)
  BY <1>a, <1>5, RestartMoves DEF Forward
<1>6. CASE Restart(c)
  <2>1. s[c].pc = "restart" /\ runtime' = runtime
    BY <1>a, <1>6, RestartMoves DEF Restart, files
  <2>2. s'[c].pc = "switched" /\ Start(s'[c].st)
    BY <1>a, <1>b, <1>6, RestartMoves, TunIsOff
  <2>3. NoUser
    BY <1>a, <2>1 DEF Switches
  <2>4. Load(runtime)'
    BY <1>a, <2>1, <2>2, <2>3, StartKernels DEF NoUser, Load
  <2>5. runtime = Merged(base)
    BY <1>a, <2>1 DEF Forward
  <2> QED
    BY <1>c, <2>1, <2>2, <2>4, <2>5 DEF Forward, Back
<1> QED
  BY <1>1, <1>2, <1>3, <1>4, <1>5, <1>6 DEF Merging

LEMMA SwitchPlain ==
    ASSUME PlainInv, NEW c \in Sessions,
           MixinDone(c) \/ Use(c) \/ Snapshot(c) \/ Switch(c) \/ Switched(c) \/ Commit(c)
    PROVE  Forward(c)' /\ Back(c)'
<1>a. /\ Types /\ Forward(c) /\ Taken(c) /\ Route(c) /\ meta \in Metas /\ s[c].op # "mixin"
  BY DEF PlainInv, KernelsInv, TurnsInv, Knows, Types, LocalsOK, FilesOK, NoTun
<1>b. UNCHANGED <<mixin, runtime, prof, kern>>
  BY DEF MixinDone, Use, Snapshot, Switch, Switched, Commit, files, service, Look
<1>c. Users' = Users /\ (Load(runtime) => Load(runtime)')
  BY <1>b, SameKernels DEF Load
<1> USE DEF Won, Ended, At
<1>1. CASE MixinDone(c)
  BY <1>a, <1>1, SwitchMoves DEF Route, Routed
<1>2. CASE Use(c) \/ Snapshot(c)
  <2>1. s'[c].pc \in {"snapshot", "switch"} \/ (s'[c].pc = "used" /\ s'[c].st = 1 /\ ~s'[c].taken)
    BY <1>a, <1>2, SwitchMoves DEF Taken, Same
  <2> QED
    BY <2>1, NoClaim DEF SwitchLabels, MergeLabels, UndoLabels
<1>3. CASE Switch(c)
  <2>1. CASE s'[c].pc = "merge" /\ base' = prof[s[c].id]
    <3>1. base' = prof'[s'[c].id]
      BY <1>a, <1>b, <1>3, <2>1, SwitchMoves DEF Keeps
    <3> QED
      BY <2>1, <3>1 DEF Forward, Back
  <2>2. CASE s'[c].pc = "undo"
    BY <2>2, NoClaim
  <2> QED
    BY <1>a, <1>3, <2>1, <2>2, SwitchMoves
<1>4. CASE Switched(c)
  <2>1. CASE s'[c].pc = "undo"
    BY <2>1, NoClaim
  <2>2. CASE s'[c].pc = "commit"
    <3>1. /\ s[c].pc = "switched" /\ s[c].st = 0 /\ ActiveStatus = 0 /\ Look /\ UNCHANGED base
          /\ s'[c].id = s[c].id
      BY <1>a, <1>4, <2>2, SwitchMoves DEF Switched, files, Same
    <3>2. Managed' # NoSlot
      BY <3>1, LookManaged DEF ActiveStatus
    <3>3. base' = prof'[s'[c].id] /\ runtime' = Merged(base)' /\ Load(runtime)'
      BY <1>a, <1>b, <1>c, <3>1, SameMerged DEF Forward
    <3> QED
      BY <2>2, <3>2, <3>3 DEF Forward, Back, MergeLabels
  <2> QED
    BY <1>a, <1>4, <2>1, <2>2, SwitchMoves
<1>5. CASE Commit(c)
  <2>1. CASE s'[c].pc = "undo"
    BY <2>1, NoClaim
  <2>2. CASE s'[c].pc = "used" /\ s'[c].st = 0 /\ meta' = [meta EXCEPT !.use = s[c].id]
    <3>1. s[c].pc = "commit" /\ s'[c].id = s[c].id /\ UNCHANGED base /\ UNCHANGED service
      BY <1>a, <1>5, SwitchMoves DEF Commit, Same
    <3>2. meta'.use = s'[c].id
      BY <1>a, <2>2, <3>1 DEF Metas
    <3>3. Managed' # NoSlot \/ Crashes
      BY <1>a, <3>1, SameService DEF Forward
    <3>4. base' = prof'[s'[c].id] /\ runtime' = Merged(base)' /\ Load(runtime)'
      BY <1>a, <1>b, <1>c, <3>1, SameMerged DEF Forward
    <3> QED
      BY <2>2, <3>2, <3>3, <3>4 DEF Forward, Back, MergeLabels
  <2> QED
    BY <1>a, <1>5, <2>1, <2>2, SwitchMoves
<1> QED
  BY <1>1, <1>2, <1>3, <1>4, <1>5

LEMMA UndoPlain ==
    ASSUME PlainInv, NEW c \in Sessions,
           Undo(c) \/ UndoRm(c) \/ UndoCp(c) \/ UndoStart(c) \/ UndoPorts(c)
    PROVE  Forward(c)' /\ Back(c)'
<1>a. Types /\ ServiceOK /\ Sole /\ NoTun /\ Back(c) /\ ~s[c].tun /\ s[c].tun \in BOOLEAN
  BY DEF PlainInv, KernelsInv, TurnsInv, Types, LocalsOK, Locals, NoTun
<1> USE DEF Won, Ended, At
<1>1. CASE Undo(c)
  <2>1. s'[c].pc = "undo_rm" /\ \E x \in 0..2 : Stop(TunEnabled, x)
    BY <1>a, <1>1, UndoMoves DEF Undo
  <2>2. TunEnabled = FALSE
    BY <1>a, TunIsOff DEF TunEnabled, Types, FilesOK, Files
  <2>3. NoUser'
    BY <1>a, <2>1, <2>2, StopKernels DEF NoUser
  <2> QED
    BY <2>1, <2>3 DEF Forward, Back, MergeLabels
<1>2. CASE UndoRm(c) \/ UndoCp(c)
  <2>1. /\ s[c].pc \in {"undo_rm", "undo_cp"}
        /\ s'[c].pc \in {"undo_rm", "undo_cp", "undo_start"} \/ (s'[c].pc = "used" /\ s'[c].st = 2)
    BY <1>a, <1>2, UndoMoves
  <2>2. UNCHANGED kern
    BY <1>2 DEF UndoRm, UndoCp, service
  <2>3. NoUser'
    BY <1>a, <2>1, <2>2, SameKernels DEF Back, NoUser
  <2> QED
    BY <2>1, <2>3 DEF Forward, Back, MergeLabels
<1>3. CASE UndoStart(c)
  <2>1. /\ s[c].pc = "undo_start" /\ runtime' = runtime
        /\ s'[c].pc = "undo_ports" \/ (s'[c].pc = "used" /\ s'[c].st \in {1, 2})
        /\ UNCHANGED service \/ \E x \in {0, 1} : Start(x)
    BY <1>a, <1>3, UndoMoves DEF UndoStart, files
  <2>2. NoUser
    BY <1>a, <2>1 DEF Back
  <2>3. Load(runtime)'
    <3>1. CASE UNCHANGED service
      BY <2>2, <3>1, SameKernels DEF service, Load, NoUser
    <3>2. CASE \E x \in {0, 1} : Start(x)
      BY <1>a, <2>1, <2>2, <3>2, StartKernels DEF Load, NoUser
    <3> QED
      BY <2>1, <3>1, <3>2
  <2> QED
    BY <2>1, <2>3 DEF Forward, Back, MergeLabels
<1>4. CASE UndoPorts(c)
  <2>1. /\ s[c].pc = "undo_ports" /\ s'[c].pc = "used" /\ s'[c].st \in {1, 2}
        /\ runtime' = runtime /\ kern' = kern
    BY <1>a, <1>4, UndoMoves DEF UndoPorts, files, Look
  <2>2. Load(runtime)'
    BY <1>a, <2>1, SameKernels DEF Back, Load
  <2> QED
    BY <2>1, <2>2 DEF Forward, Back, MergeLabels
<1> QED
  BY <1>1, <1>2, <1>3, <1>4

LEMMA AddPlain ==
    ASSUME PlainInv, NEW c \in Sessions,
           Add(c) \/ Update(c) \/ Download(c) \/ Check(c) \/ Store(c) \/ Enter(c)
    PROVE  Forward(c)' /\ Back(c)'
<1>1. Types /\ NoTun /\ Taken(c)
  BY DEF PlainInv, KernelsInv, TurnsInv, Knows
<1>2. /\ s[c].pc \in {"add", "update", "download", "check", "store", "enter"}
      /\ \/ s'[c].pc \in {"update", "download", "check", "store", "replace", "enter", "use"}
         \/ s'[c].pc = "done" /\ s'[c].st = 1
  BY <1>1, AddMoves
<1>3. s'[c].pc = "done" => ~s'[c].taken
  BY <1>1, <1>2, PlainLocals DEF Taken, Step
<1> QED
  BY <1>2, <1>3, NoClaim DEF Won, Ended, At, SwitchLabels, MergeLabels, UndoLabels

LEMMA UpdatePlain ==
    ASSUME PlainInv, NEW c \in Sessions, Replace(c) \/ Used(c) \/ Updated(c)
    PROVE  Forward(c)' /\ Back(c)'
<1>a. Types /\ NoTun /\ Taken(c) /\ Outcome(c) /\ Route(c) /\ Forward(c) /\ Back(c)
  BY DEF PlainInv, KernelsInv, TurnsInv, Knows, Types, LocalsOK
<1>b. UNCHANGED <<base, runtime, mixin, meta, service>>
  BY DEF Replace, Used, Updated, files
<1>c. /\ Merged(base)' = Merged(base) /\ Managed' = Managed
      /\ (Load(runtime) => Load(runtime)')
  BY <1>b, SameMerged, SameService, SameKernels DEF Load
<1>1. CASE Replace(c)
  <2>1. s[c].pc = "replace" /\ ~s[c].taken
    BY <1>a, <1>1, UpdateMoves DEF Taken
  <2>2. CASE s'[c].pc = "use"
    BY <2>2, NoClaim DEF Won, Ended, At, SwitchLabels, MergeLabels, UndoLabels
  <2>3. CASE s'[c].pc = "updated"
    <3>1. meta.use # s[c].id /\ s'[c].id = s[c].id
      BY <1>a, <1>1, <2>3, UpdateMoves
    <3>2. ~s'[c].taken
      BY <1>1, <1>a, <2>1 DEF Replace, Exit, GoWith, Types, LocalsOK, Locals
    <3> QED
      BY <1>b, <2>3, <3>1, <3>2 DEF Forward, Back, Won, Ended, At, MergeLabels
  <2>4. CASE s'[c].pc = "done" /\ s'[c].st = 1
    <3>1. ~s'[c].taken
      BY <1>1, <1>a, <2>1, <2>4, PlainLocals DEF Step
    <3> QED
      BY <2>4, <3>1, NoClaim DEF Won, Ended, At
  <2> QED
    BY <1>a, <1>1, <2>2, <2>3, <2>4, UpdateMoves
<1>2. CASE Used(c)
  <2>1. s[c].pc = "used" /\ s'[c].st = s[c].st /\ Same(c) /\ s[c].op \in Switching
    BY <1>a, <1>2, UpdateMoves DEF Route, Routed
  <2>2. CASE s[c].st = 0 /\ s'[c].pc \in {"updated", "done"} /\ UNCHANGED prof
    <3>1. s[c].taken /\ Won(c)
      BY <1>a, <2>1, <2>2 DEF Outcome, Won
    <3>2. /\ meta'.use = s'[c].id /\ base' = prof'[s'[c].id] /\ runtime' = Merged(base)'
          /\ Load(runtime)' /\ (Managed' # NoSlot \/ Crashes)
      BY <1>a, <1>b, <1>c, <2>1, <2>2, <3>1 DEF Forward, Same
    <3> QED
      BY <2>1, <2>2, <3>1, <3>2 DEF Forward, Back, MergeLabels, Same
  <2>3. CASE s[c].st # 0 /\ s'[c].pc = "done"
    <3>1. s'[c].st = 1 /\ s'[c].taken => Load(runtime)'
      BY <1>a, <1>c, <2>1, <2>3 DEF Back, Same
    <3>2. ~Won(c)'
      BY <2>1, <2>3 DEF Won, Ended, At
    <3> QED
      BY <2>3, <3>1, <3>2 DEF Forward, Back, MergeLabels
  <2> QED
    BY <1>a, <1>2, <2>2, <2>3, UpdateMoves
<1>3. CASE Updated(c)
  <2>1. CASE s'[c].pc = "use"
    BY <2>1, NoClaim DEF Won, Ended, At, SwitchLabels, MergeLabels, UndoLabels
  <2>2. CASE s'[c].pc = "done" /\ s'[c].st = 0
    <3>1. /\ s[c].pc = "updated" /\ s'[c].op = s[c].op /\ s'[c].id = s[c].id
          /\ s[c].op = "readd" => meta.use = s[c].id
      BY <1>a, <1>3, <2>2, UpdateMoves
    <3>2. s[c].op \in {"update", "readd"}
      BY <1>a, <3>1 DEF Route, Routed, Updating
    <3>3. CASE s[c].op = "update"
      BY <2>2, <3>1, <3>3 DEF Forward, Back, Won, Ended, At, MergeLabels
    <3>4. CASE s[c].op = "readd"
      <4>1. Won(c)
        BY <1>a, <3>1, <3>4 DEF Forward, Won
      <4>2. prof' = prof
        BY <1>3 DEF Updated, files
      <4>3. /\ meta'.use = s'[c].id /\ base' = prof'[s'[c].id] /\ runtime' = Merged(base)'
            /\ Load(runtime)' /\ (Managed' # NoSlot \/ Crashes)
        BY <1>a, <1>b, <1>c, <3>1, <4>1, <4>2 DEF Forward
      <4> QED
        BY <2>2, <4>3 DEF Forward, Back, MergeLabels
    <3> QED
      BY <3>2, <3>3, <3>4
  <2> QED
    BY <1>a, <1>3, <2>1, <2>2, UpdateMoves
<1> QED
  BY <1>1, <1>2, <1>3

LEMMA OtherPlain ==
    ASSUME PlainInv, NEW c \in Sessions, NoTun',
           \/ Del(c) \/ DelStop(c) \/ DelCheck(c) \/ DelEntry(c) \/ DelConfig(c) \/ DelProfile(c)
           \/ Finish(c) \/ Interrupt(c) \/ \E o \in Commands : Begin(c, o)
    PROVE  Forward(c)' /\ Back(c)'
<1>a. Types /\ Route(c) /\ s'[c].op # "mixin"
  BY DEF PlainInv, KernelsInv, TurnsInv, Types, LocalsOK, NoTun
<1> USE DEF Won, Ended, At, SwitchLabels, MergeLabels, UndoLabels
<1>1. CASE Del(c) \/ DelStop(c) \/ DelCheck(c) \/ DelEntry(c) \/ DelConfig(c) \/ DelProfile(c)
  <2>1. /\ s'[c].op = "del"
        /\ s'[c].pc \in {"done", "del_stop", "del_check", "del_entry", "del_config", "del_profile"}
    BY <1>a, <1>1, DelMoves DEF Same, Route, Routed, DelLabels
  <2> QED
    BY <2>1, NoClaim DEF Switching
<1>2. CASE Finish(c) \/ Interrupt(c)
  <2>1. s'[c].pc = "idle"
    BY <1>a, <1>2, InterruptMoves
  <2> QED
    BY <2>1, NoClaim
<1>3. CASE \E o \in Commands : Begin(c, o)
  <2>1. s'[c].pc \in {"use", "update", "del", "add"}
    BY <1>a, <1>3, BeginMoves
  <2> QED
    BY <2>1, NoClaim
<1> QED
  BY <1>1, <1>2, <1>3

LEMMA PlainStep ==
    ASSUME Serial, "mixin" \notin Commands, PlainInv, [Next]_vars
    PROVE  PlainInv'
<1>a. KernelsInv' /\ NoTun' /\ Types /\ Sole /\ TurnsInv /\ ServiceOK
  BY KernelsStep, NoTunStep DEF PlainInv, KernelsInv, TurnsInv, Types
<1>1. CASE UNCHANGED vars
  BY <1>1, <1>a DEF PlainInv, vars, Forward, Back, Merged, Load, Users, Managed, Running, NoUser,
     Won, Ended, At
<1>2. ASSUME NEW k \in Slots, Die(k) PROVE PlainInv'
  <2>1. Users' \subseteq Users /\ \A j \in Users' : kern'[j] = kern[j]
    <3>1. Users' = Users \ {k} /\ kern' = [kern EXCEPT ![k] = NoKernel]
      BY <1>2, <1>a, FewerKernels DEF Die
    <3> QED
      BY <1>a, <3>1 DEF ServiceOK, Users
  <2>2. UNCHANGED <<base, runtime, mixin, meta, prof, s>> /\ Crashes
    BY <1>2 DEF Die, files
  <2>3. /\ Load(runtime) => Load(runtime)'
        /\ NoUser => NoUser'
        /\ Merged(base)' = Merged(base)
    BY <2>1, <2>2, SameMerged DEF Load, NoUser
  <2>4. ASSUME NEW c \in Sessions PROVE Forward(c)' /\ Back(c)'
    <3>1. Forward(c) /\ Back(c)
      BY DEF PlainInv
    <3>2. Won(c)' = Won(c)
      BY <2>2 DEF Won, Ended, At
    <3>3. Forward(c)'
      BY <2>2, <2>3, <3>1, <3>2 DEF Forward
    <3>4. Back(c)'
      BY <2>2, <2>3, <3>1 DEF Back
    <3> QED
      BY <3>3, <3>4
  <2> QED
    BY <1>a, <2>4 DEF PlainInv
<1>3. ASSUME NEW c \in Sessions, Moves(c), \A d \in Sessions \ {c} : s'[d].pc = "idle"
      PROVE  PlainInv'
  <2>1. Forward(c)' /\ Back(c)'
    BY <1>3, <1>a, MergePlain, SwitchPlain, UndoPlain, AddPlain, UpdatePlain, OtherPlain
       DEF Moves, Step, Merging
  <2>2. ASSUME NEW d \in Sessions \ {c} PROVE Forward(d)' /\ Back(d)'
    BY <1>3, <2>2, NoClaim DEF Won, Ended, At, SwitchLabels, MergeLabels, UndoLabels
  <2> QED
    BY <1>a, <2>1, <2>2 DEF PlainInv
<1> QED
  BY <1>a, <1>1, <1>2, <1>3, Turns

LEMMA InitPlain == Init => PlainInv
<1> SUFFICES ASSUME Init PROVE PlainInv
  OBVIOUS
<1>1. KernelsInv /\ s = [c \in Sessions |-> NoSession]
  BY InitKernels DEF Init
<1>2. \A c \in Sessions : Forward(c) /\ Back(c)
  BY <1>1 DEF NoSession, Forward, Back, Won, Ended, At, MergeLabels
<1>3. ~mixin.tun /\ ~temp.tun /\ ~runtime.tun
  <2>1. ~mixin.tun /\ ~temp.tun
    BY DEF Init, Absent, File
  <2>2. CASE runtime = Absent
    BY <2>1, <2>2 DEF Absent, File
  <2>3. CASE \E u \in Urls : base = File(u, "good", FALSE) /\ runtime = base
    BY <2>1, <2>3 DEF File
  <2> QED
    BY <2>2, <2>3 DEF Init
<1>4. \A k \in Slots : kern[k].owner # "root" /\ ~kern[k].tun
  <2>1. CASE kern = [k \in Slots |-> NoKernel]
    BY <2>1 DEF NoKernel
  <2>2. CASE \E k \in Slots : kern = [j \in Slots |-> IF j # k THEN NoKernel
                               ELSE [owner |-> "user", conf |-> runtime, tun |-> FALSE]]
    BY <2>2 DEF NoKernel
  <2> QED
    BY <2>1, <2>2 DEF Init
<1>5. \A c \in Sessions : s[c].op # "mixin" /\ ~s[c].tun /\ ~s[c].mtun /\ ~s[c].snapRuntime.tun
  BY <1>1 DEF NoSession, Absent, File
<1> QED
  BY <1>1, <1>2, <1>3, <1>4, <1>5 DEF PlainInv, NoTun

LEMMA PlainInvariant ==
    ASSUME Serial, "mixin" \notin Commands
    PROVE  Spec => []PlainInv
<1>1. PlainInv /\ [Next]_vars => PlainInv'
  BY PlainStep
<1> QED
  BY <1>1, InitPlain, PTL DEF Spec

\* While commands run in turns and the mixin is left alone, a switch that fails and says
\* that the old configuration is back (sub.sh:269-273) has put the three files back, and a
\* kernel of the user's runs them: whatever crashes, whichever write fails and wherever
\* earlier commands were interrupted.
THEOREM PlainSwitchRolledBack ==
    ASSUME Serial, "mixin" \notin Commands
    PROVE  Spec => []RolledBack
<1>1. PlainInv => RolledBack
  <2>1. SUFFICES ASSUME PlainInv, NEW c \in Sessions, Ended(c, Switching, 1), s[c].taken
                 PROVE  /\ base = s[c].snapBase /\ runtime = s[c].snapRuntime /\ meta = s[c].snapMeta
                        /\ Managed # NoSlot /\ kern[Managed].owner = "user"
                             => kern[Managed].conf = runtime
    BY DEF RolledBack
  <2>2. Restored(c) /\ Load(runtime)
    BY <2>1 DEF PlainInv, KernelsInv, TurnsInv, Knows, Outcome, Back, Ended, At
  <2>3. Managed # NoSlot /\ kern[Managed].owner = "user" => Managed \in Users
    BY ManagedIsSlot DEF Users
  <2> QED
    BY <2>2, <2>3 DEF Restored, Load
<1> QED
  BY <1>1, PlainInvariant, PTL

\* Without a mixin the kernel that answers is the user's.
LEMMA AnswersAsUser ==
    ASSUME PlainInv, Managed # NoSlot
    PROVE  Managed \in Users
<1>1. Managed \in Slots /\ kern[Managed].owner # "none"
  BY ManagedIsSlot DEF Running
<1>2. kern[Managed].owner \in {"none", "user", "root"} /\ kern[Managed].owner # "root"
  BY <1>1 DEF PlainInv, KernelsInv, TurnsInv, Types, ServiceOK, Kernels, NoTun
<1> QED
  BY <1>1, <1>2 DEF Users

\* Under the same assumptions a switch that succeeds (sub.sh:264-278) is in effect: the
\* profile is in use and in config.yaml, runtime.yaml is its merge, and the kernel runs that.
THEOREM PlainSwitchInEffect ==
    ASSUME Serial, "mixin" \notin Commands
    PROVE  Spec => []InEffect
<1>1. PlainInv => InEffect
  <2>1. SUFFICES ASSUME PlainInv, NEW c \in Sessions, Ended(c, {"use", "add_use", "readd"}, 0)
                 PROVE  /\ meta.use = s[c].id /\ base = prof[s[c].id] /\ runtime = Merged(base)
                        /\ Managed # NoSlot \/ Crashes
                        /\ Managed # NoSlot => kern[Managed].conf = runtime
    BY DEF InEffect
  <2>2. Won(c)
    BY <2>1 DEF Won
  <2>3. Forward(c) /\ Load(runtime)
    BY <2>1, <2>2 DEF PlainInv, Forward
  <2> QED
    BY <2>1, <2>2, <2>3, AnswersAsUser DEF Forward, Load
<1> QED
  BY <1>1, PlainInvariant, PTL

\* And what `clashctl add` promises is kept (sub.sh:98-108, :136): the kernel that answers runs
\* the subscription.  It takes a mixin with TUN to break that.
THEOREM PlainAddIsActive ==
    ASSUME Serial, "mixin" \notin Commands
    PROVE  Spec => []Activated
<1>1. PlainInv => Activated
  <2>1. SUFFICES ASSUME PlainInv, NEW c \in Sessions, Ended(c, {"add_use", "readd"}, 0),
                        Managed # NoSlot
                 PROVE  kern[Managed].conf = runtime
    BY DEF Activated
  <2>2. Won(c)
    BY <2>1 DEF Won, Ended
  <2>3. Load(runtime)
    BY <2>1, <2>2 DEF PlainInv, Forward
  <2> QED
    BY <2>1, <2>3, AnswersAsUser DEF Load
<1> QED
  BY <1>1, PlainInvariant, PTL
=============================================================================
