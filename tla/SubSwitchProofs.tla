--------------------------- MODULE SubSwitchProofs ---------------------------
(***************************************************************************)
(* What the files of the subscriptions keep to, for any number of          *)
(* sessions, links, profiles and kernels: their types, with nothing        *)
(* assumed; and for commands that run in turns, with interrupts, kernels   *)
(* that crash and writes that fail at any step, that the entries of        *)
(* profiles.yaml name files that exist and that a failed switch which says *)
(* so has put the three files back.                                        *)
(***************************************************************************)
EXTENDS SubSwitch, TLAPS

MergeLabels == {"merge", "merge_truncate", "merge_write", "merge_check", "restop",
                "restop_check", "restart", "restart_tun"}
UndoLabels == {"undo", "undo_rm", "undo_cp", "undo_start", "undo_ports"}
DelLabels == {"del", "del_stop", "del_check", "del_entry", "del_config", "del_profile"}
Labels == MergeLabels \cup UndoLabels \cup DelLabels \cup
          {"idle", "done", "mixin_done", "use", "snapshot", "switch", "switched", "commit",
           "used", "update", "add", "download", "check", "store", "enter", "replace", "updated"}

Metas == [there : BOOLEAN, use : Ids \cup {NoId}, urls : [Ids -> Urls \cup {NoUrl}]]
Mixins == [bad : BOOLEAN, tun : BOOLEAN]
Kernels == [owner : {"none", "user", "root"}, conf : Files, tun : BOOLEAN]

Lefts == {<<>>, <<"base", "runtime", "meta">>, <<"runtime", "meta">>, <<"meta">>}

Locals == [op : CommandNames \cup {"none", "readd"}, pc : Labels,
           ret : {"idle", "switched", "mixin_done"}, st : 0..2, id : Ids \cup {NoId},
           url : Urls \cup {NoUrl}, taken : BOOLEAN, snapBase : Files, snapRuntime : Files,
           snapMeta : Metas, old : Files, act : BOOLEAN, tun : BOOLEAN, mtun : BOOLEAN,
           left : Lefts]

FilesOK ==
    /\ base \in Files /\ runtime \in Files /\ temp \in Files
    /\ mixin \in Mixins
    /\ meta \in Metas
    /\ prof \in [Ids -> Files]

ServiceOK == kern \in [Slots -> Kernels] /\ pidfile \in Slots \cup {NoSlot}

(***************************************************************************)
(* Which labels belong to which commands, and where the list of files to   *)
(* restore and the id of the profile are set.                              *)
(***************************************************************************)
Updating == {"update", "readd"}
Adding == {"add", "add_use"}

Routed(op, pc, ret, id, left, old) ==
    /\ pc \in MergeLabels =>
         IF op = "mixin" THEN ret = "mixin_done" ELSE op \in Switching /\ ret = "switched"
    /\ pc \in UndoLabels \cup {"use", "snapshot", "switch", "switched", "commit", "used"}
         => op \in Switching
    /\ pc \in {"update", "replace", "updated"} => op \in Updating
    /\ pc \in {"download", "check"} => op \in Updating \cup Adding
    /\ pc \in {"add", "store", "enter"} => op \in Adding
    /\ pc \in DelLabels => op = "del"
    /\ pc = "mixin_done" => op = "mixin"
    /\ pc = "idle" => op = "none"
    /\ pc \in {"undo_rm", "undo_cp"} => left # <<>>
    /\ op \notin Updating => old = Absent
    /\ op \in {"use", "del"} \cup Updating => id \in Ids
    /\ op \in Adding /\ pc \notin {"add", "download", "check", "store", "done"} => id \in Ids

Route(c) == Routed(s[c].op, s[c].pc, s[c].ret, s[c].id, s[c].left, s[c].old)

LocalsOK == s \in [Sessions -> Locals] /\ \A c \in Sessions : Route(c)

Types == FilesOK /\ ServiceOK /\ LocalsOK

LEMMA FilesExist == Absent \in Files /\ Empty \in Files
BY DEF Files, Absent, Empty, File

LEMMA NothingYet == NoMeta \in Metas /\ NoKernel \in Kernels /\ NoSession \in Locals
<1>1. NoMeta \in Metas
  BY DEF NoMeta, Metas
<1>2. NoKernel \in Kernels
  BY FilesExist DEF NoKernel, Kernels
<1>3. NoSession \in Locals
  BY <1>1, FilesExist DEF NoSession, Locals, Labels, Lefts, CommandNames
<1>4. QED
  BY <1>1, <1>2, <1>3

LEMMA NoneRouted ==
    Routed(NoSession.op, NoSession.pc, NoSession.ret, NoSession.id, NoSession.left,
           NoSession.old)
BY DEF Routed, NoSession, MergeLabels, UndoLabels, DelLabels, Switching, Updating, Adding

LEMMA KernelsMade ==
    \A o \in {"user", "root"}, f \in Files, t \in BOOLEAN :
        [owner |-> o, conf |-> f, tun |-> t] \in Kernels
BY DEF Kernels

LEMMA InitTypes == Init => Types
<1>1. SUFFICES ASSUME Init PROVE Types
  OBVIOUS
<1>2. 1 \in Ids
  BY MaxIdAssumption DEF Ids
<1>3. \A u \in Urls : File(u, "good", FALSE) \in Files
  BY DEF File, Files, Qualities
<1>4. LocalsOK
  BY <1>1, NothingYet, NoneRouted DEF Init, LocalsOK, Route
<1>5. temp \in Files /\ mixin \in Mixins
  BY <1>1, FilesExist DEF Init, Mixins
<1>6. base \in Files /\ runtime \in Files /\ prof \in [Ids -> Files]
  <2>1. CASE \E u \in Urls : base = File(u, "good", FALSE) /\ runtime = base /\
                             prof = [i \in Ids |-> IF i = 1 THEN base ELSE Absent]
    BY <2>1, <1>3, FilesExist
  <2>2. CASE base = Empty /\ runtime = Absent /\ prof = [i \in Ids |-> Absent]
    BY <2>2, FilesExist
  <2>3. QED
    BY <1>1, <2>1, <2>2 DEF Init
<1>7. meta \in Metas
  <2>1. CASE meta = EmptyMeta
    BY <2>1 DEF EmptyMeta, Metas, NoMeta
  <2>2. CASE \E u \in Urls : meta = [NoMeta EXCEPT !.there = TRUE, !.use = 1, !.urls[1] = u]
    BY <2>2, <1>2 DEF Metas, NoMeta
  <2>3. QED
    BY <1>1, <2>1, <2>2 DEF Init
<1>8. ServiceOK
  <2>1. CASE kern = [k \in Slots |-> NoKernel] /\ pidfile = NoSlot
    BY <2>1, NothingYet DEF ServiceOK
  <2>2. CASE \E k \in Slots :
               /\ kern = [j \in Slots |-> IF j # k THEN NoKernel
                           ELSE [owner |-> "user", conf |-> runtime, tun |-> FALSE]]
               /\ pidfile = k
    BY <2>2, <1>6, NothingYet, KernelsMade DEF ServiceOK
  <2>3. QED
    BY <1>1, <2>1, <2>2 DEF Init
<1>9. QED
  BY <1>4, <1>5, <1>6, <1>7, <1>8 DEF Types, FilesOK

(***************************************************************************)
(* The calls of service.sh keep the types of kernels and pid file.         *)
(***************************************************************************)
LEMMA ManagedIsSlot == Managed \in (Slots \cap Running) \cup {NoSlot}
BY DEF Managed, Running

LEMMA LookTypes ==
    ASSUME Types, Look
    PROVE  ServiceOK'
BY ManagedIsSlot DEF Look, Types, ServiceOK

LEMMA StopTypes ==
    ASSUME Types, NEW sudo, NEW x, Stop(sudo, x)
    PROVE  ServiceOK'
BY ManagedIsSlot, NothingYet DEF Stop, Look, Types, ServiceOK

LEMMA StartTypes ==
    ASSUME Types, NEW x, Start(x)
    PROVE  ServiceOK'
<1>1. CASE Look
  BY <1>1, LookTypes
<1>2. CASE \E k \in Slots :
             /\ kern' = [kern EXCEPT ![k] = [owner |-> "user", conf |-> runtime, tun |-> FALSE]]
             /\ pidfile' = k
  BY <1>2, KernelsMade DEF Types, ServiceOK, FilesOK
<1>3. QED
  BY <1>1, <1>2 DEF Start

LEMMA SudoStartTypes ==
    ASSUME Types, NEW x, SudoStart(x)
    PROVE  ServiceOK'
<1>1. CASE UNCHANGED service
  BY <1>1 DEF Types, ServiceOK, service
<1>2. CASE \E k \in Slots, t \in {FALSE, TunEnabled} :
             /\ kern' = [kern EXCEPT ![k] = [owner |-> "root", conf |-> runtime, tun |-> t]]
             /\ pidfile' = k
  <2>1. runtime \in Files /\ {FALSE, TunEnabled} \subseteq BOOLEAN
    BY DEF Types, FilesOK, Files, TunEnabled
  <2>2. QED
    BY <1>2, <2>1, KernelsMade DEF Types, ServiceOK
<1>3. CASE pidfile' \in Slots \cup {NoSlot} /\ UNCHANGED kern
  BY <1>3 DEF Types, ServiceOK
<1>4. QED
  BY <1>1, <1>2, <1>3 DEF SudoStart, Running

(***************************************************************************)
(* What a jump leaves of the locals.                                       *)
(***************************************************************************)
Same(c) ==
    /\ s'[c].op = s[c].op /\ s'[c].ret = s[c].ret /\ s'[c].id = s[c].id /\ s'[c].url = s[c].url
    /\ s'[c].taken = s[c].taken /\ s'[c].snapBase = s[c].snapBase
    /\ s'[c].snapRuntime = s[c].snapRuntime /\ s'[c].snapMeta = s[c].snapMeta
    /\ s'[c].old = s[c].old /\ s'[c].act = s[c].act /\ s'[c].tun = s[c].tun
    /\ s'[c].mtun = s[c].mtun /\ s'[c].left = s[c].left

LEMMA GoFacts ==
    ASSUME s \in [Sessions -> Locals], NEW c \in Sessions, NEW l \in Labels, Go(c, l)
    PROVE  /\ s' \in [Sessions -> Locals]
           /\ s'[c].pc = l /\ s'[c].st = s[c].st /\ Same(c)
           /\ \A d \in Sessions \ {c} : s'[d] = s[d]
BY DEF Go, Locals, Same

LEMMA GoWithFacts ==
    ASSUME s \in [Sessions -> Locals], NEW c \in Sessions, NEW l \in Labels, NEW x \in 0..2,
           GoWith(c, l, x)
    PROVE  /\ s' \in [Sessions -> Locals]
           /\ s'[c].pc = l /\ s'[c].st = x /\ Same(c)
           /\ \A d \in Sessions \ {c} : s'[d] = s[d]
<1> DEFINE r == [s[c] EXCEPT !.pc = l, !.st = x]
<1>1. s[c] \in Locals
  OBVIOUS
<1>2. s' = [s EXCEPT ![c] = r]
  BY DEF GoWith
<1>3. r \in Locals
  BY <1>1 DEF Locals
<1>4. s'[c] = r
  BY <1>2
<1>5. QED
  BY <1>1, <1>2, <1>3, <1>4 DEF Locals, Same

LEMMA GoTypes ==
    ASSUME LocalsOK, NEW c \in Sessions, NEW l \in Labels,
           Go(c, l) \/ \E x \in 0..2 : GoWith(c, l, x),
           Routed(s[c].op, l, s[c].ret, s[c].id, s[c].left, s[c].old)
    PROVE  LocalsOK'
<1>1. /\ s' \in [Sessions -> Locals]
      /\ s'[c].pc = l /\ Same(c)
      /\ \A d \in Sessions \ {c} : s'[d] = s[d]
  BY GoFacts, GoWithFacts DEF LocalsOK
<1>2. QED
  BY <1>1 DEF LocalsOK, Route, Same

LEMMA ExitTypes ==
    ASSUME LocalsOK, NEW c \in Sessions, NEW x \in 0..2, Exit(c, x)
    PROVE  LocalsOK'
<1>1. Routed(s[c].op, "done", s[c].ret, s[c].id, s[c].left, s[c].old)
  BY DEF LocalsOK, Route, Routed, MergeLabels, UndoLabels, DelLabels
<1>2. QED
  BY <1>1, GoTypes DEF Exit, Labels

LEMMA FrameTypes ==
    ASSUME LocalsOK, NEW c \in Sessions, NEW r \in Locals, s' = [s EXCEPT ![c] = r],
           Routed(r.op, r.pc, r.ret, r.id, r.left, r.old)
    PROVE  LocalsOK'
BY DEF LocalsOK, Route

LEMMA SnapLocals ==
    ASSUME NEW r \in Locals, NEW f \in Files, NEW g \in Files, NEW m \in Metas,
           NEW a \in BOOLEAN, NEW t \in BOOLEAN
    PROVE  [r EXCEPT !.pc = "switch", !.taken = TRUE, !.snapBase = f, !.snapRuntime = g,
                     !.snapMeta = m, !.act = a, !.tun = t] \in Locals
BY DEF Locals, Labels

LEMMA OldLocals ==
    ASSUME NEW r \in Locals, NEW f \in Files, NEW x \in 0..2, NEW l \in Labels
    PROVE  [r EXCEPT !.old = f, !.st = x, !.pc = l] \in Locals
BY DEF Locals

LEMMA LeftLocals ==
    ASSUME NEW r \in Locals, NEW q \in Lefts, NEW l \in Labels
    PROVE  [r EXCEPT !.left = q, !.pc = l] \in Locals
BY DEF Locals

LEMMA LocalsStep ==
    ASSUME Types, NEW c \in Sessions, Step(c)
    PROVE  LocalsOK'
<1>a. LocalsOK /\ s[c] \in Locals /\ Route(c)
  BY DEF Types, LocalsOK
<1> USE <1>a DEF At, Route, Routed, Labels, MergeLabels, UndoLabels, DelLabels, Updating, Adding, Switching
<1>1. CASE Merge(c)
  <2> DEFINE r == [s[c] EXCEPT !.pc = "merge_truncate", !.mtun = TunUp]
  <2>1. r \in Locals
    <3>1. TunUp \in BOOLEAN
      BY DEF TunUp
    <3>2. QED
      BY <3>1 DEF Locals
  <2>2. Routed(r.op, r.pc, r.ret, r.id, r.left, r.old)
    BY <1>1 DEF Merge, Locals
  <2>3. s' = [s EXCEPT ![c] = r]
    BY <1>1 DEF Merge
  <2>4. QED
    BY <2>1, <2>2, <2>3, FrameTypes
<1>2. CASE MergeTruncate(c)
  BY <1>2, GoTypes, ExitTypes DEF MergeTruncate
<1>3. CASE MergeWrite(c)
  BY <1>3, GoTypes, ExitTypes DEF MergeWrite
<1>4. CASE MergeCheck(c)
  BY <1>4, GoTypes, ExitTypes DEF MergeCheck
<1>5. CASE Restop(c)
  BY <1>5, GoTypes, ExitTypes DEF Restop
<1>6. CASE RestopCheck(c)
  BY <1>6, GoTypes, ExitTypes DEF RestopCheck
<1>7. CASE Restart(c)
  BY <1>7, GoTypes, ExitTypes DEF Restart
<1>8. CASE RestartTun(c)
  BY <1>8, GoTypes, ExitTypes DEF RestartTun
<1>9. CASE MixinDone(c)
  BY <1>9, GoTypes, ExitTypes DEF MixinDone
<1>10. CASE Use(c)
  BY <1>10, GoTypes, ExitTypes DEF Use
<1>11. CASE Snapshot(c)
  <2> DEFINE r == [s[c] EXCEPT !.pc = "switch", !.taken = TRUE, !.snapBase = base,
                               !.snapRuntime = runtime, !.snapMeta = meta,
                               !.act = (ActiveStatus = 0), !.tun = TunUp]
  <2>1. CASE s' = [s EXCEPT ![c] = r]
    <3>1. r \in Locals
      <4>1. base \in Files /\ runtime \in Files /\ meta \in Metas
        BY DEF Types, FilesOK
      <4>2. TunUp \in BOOLEAN /\ (ActiveStatus = 0) \in BOOLEAN
        BY DEF TunUp
      <4>3. QED
        BY <4>1, <4>2, SnapLocals
    <3>2. Routed(r.op, r.pc, r.ret, r.id, r.left, r.old)
      BY <1>11 DEF Snapshot, Locals
    <3>3. QED
      BY <2>1, <3>1, <3>2, FrameTypes
  <2>2. CASE GoWith(c, "used", 1)
    <3>1. Routed(s[c].op, "used", s[c].ret, s[c].id, s[c].left, s[c].old)
      BY <1>11 DEF Snapshot
    <3>2. QED
      BY <2>2, <3>1, GoTypes
  <2>3. QED
    BY <1>11, <2>1, <2>2 DEF Snapshot
<1>12. CASE Switch(c)
  <2> DEFINE r == [s[c] EXCEPT !.pc = "merge", !.ret = "switched"]
  <2>1. CASE s' = [s EXCEPT ![c] = r]
    <3>1. r \in Locals
      BY ZenonT(60) DEF Locals
    <3>2. Routed(r.op, r.pc, r.ret, r.id, r.left, r.old)
      BY <1>12 DEF Switch, Locals
    <3>3. QED
      BY <2>1, <3>1, <3>2, FrameTypes
  <2>2. CASE Go(c, "undo")
    BY <1>12, <2>2, GoTypes DEF Switch
  <2>3. QED
    BY <1>12, <2>1, <2>2 DEF Switch
<1>13. CASE Switched(c)
  BY <1>13, GoTypes, ExitTypes DEF Switched
<1>14. CASE Commit(c)
  BY <1>14, GoTypes, ExitTypes DEF Commit
<1>15. CASE Undo(c)
  <2> DEFINE r == [s[c] EXCEPT !.pc = "undo_rm", !.left = <<"base", "runtime", "meta">>]
  <2>1. r \in Locals
    BY ZenonT(60) DEF Locals, Lefts
  <2>2. Routed(r.op, r.pc, r.ret, r.id, r.left, r.old)
    BY <1>15 DEF Undo, Locals
  <2>3. s' = [s EXCEPT ![c] = r]
    BY <1>15 DEF Undo
  <2>4. QED
    BY <2>1, <2>2, <2>3, FrameTypes
<1>16. CASE UndoRm(c)
  BY <1>16, GoTypes, ExitTypes DEF UndoRm, LocalsOK, Locals, Lefts
<1>17. CASE UndoCp(c)
  <2> DEFINE r == [s[c] EXCEPT !.left = Tail(s[c].left),
                               !.pc = IF Len(s[c].left) > 1 THEN "undo_rm" ELSE "undo_start"]
  <2>1. CASE s' = [s EXCEPT ![c] = r]
    <3>1. s[c].left \in Lefts /\ s[c].left # <<>>
      BY <1>17 DEF UndoCp, Locals
    <3>2. Tail(s[c].left) \in Lefts /\ (Len(s[c].left) > 1 => Tail(s[c].left) # <<>>)
      <4>1. CASE s[c].left = <<"base", "runtime", "meta">>
        BY <4>1 DEF Lefts
      <4>2. CASE s[c].left = <<"runtime", "meta">>
        BY <4>2 DEF Lefts
      <4>3. CASE s[c].left = <<"meta">>
        BY <4>3 DEF Lefts
      <4>4. QED
        BY <3>1, <4>1, <4>2, <4>3 DEF Lefts
    <3>3. r \in Locals
      <4>1. (IF Len(s[c].left) > 1 THEN "undo_rm" ELSE "undo_start") \in Labels
        OBVIOUS
      <4>2. QED
        BY <3>2, <4>1, LeftLocals
    <3>4. Routed(r.op, r.pc, r.ret, r.id, r.left, r.old)
      BY <1>17, <3>2 DEF UndoCp, Locals
    <3>5. QED
      BY <2>1, <3>3, <3>4, FrameTypes
  <2>2. CASE GoWith(c, "used", 2)
    <3>1. Routed(s[c].op, "used", s[c].ret, s[c].id, s[c].left, s[c].old)
      BY <1>17 DEF UndoCp
    <3>2. QED
      BY <2>2, <3>1, GoTypes
  <2>3. QED
    BY <1>17, <2>1, <2>2 DEF UndoCp
<1>18. CASE UndoStart(c)
  BY <1>18, GoTypes, ExitTypes DEF UndoStart
<1>19. CASE UndoPorts(c)
  BY <1>19, GoTypes, ExitTypes DEF UndoPorts
<1>20. CASE Add(c)
  <2>1. CASE \E i \in Ids : s' = [s EXCEPT ![c].op = "readd", ![c].id = i, ![c].pc = "update"]
    <3>1. PICK i \in Ids : s' = [s EXCEPT ![c] = [s[c] EXCEPT !.op = "readd", !.id = i,
                                                               !.pc = "update"]]
      BY <2>1
    <3> DEFINE r == [s[c] EXCEPT !.op = "readd", !.id = i, !.pc = "update"]
    <3>2. r \in Locals
      BY ZenonT(60) DEF Locals
    <3>3. Routed(r.op, r.pc, r.ret, r.id, r.left, r.old)
      BY DEF Locals
    <3>4. QED
      BY <3>1, <3>2, <3>3, FrameTypes
  <2>2. CASE Exit(c, 1)
    BY <2>2, ExitTypes
  <2>3. CASE Go(c, "download")
    BY <1>20, <2>3, GoTypes DEF Add
  <2>4. QED
    BY <1>20, <2>1, <2>2, <2>3 DEF Add
<1>21. CASE Update(c)
  <2> DEFINE r == [s[c] EXCEPT !.url = meta.urls[s[c].id], !.pc = "download"]
  <2>1. CASE Exit(c, 1)
    BY <2>1, ExitTypes
  <2>2. CASE s' = [s EXCEPT ![c] = r]
    <3>1. meta.urls[s[c].id] \in Urls \cup {NoUrl}
      BY <1>21 DEF Update, Types, FilesOK, Metas
    <3>2. r \in Locals
      BY <3>1 DEF Locals
    <3>3. Routed(r.op, r.pc, r.ret, r.id, r.left, r.old)
      BY <1>21 DEF Update, Locals
    <3>4. QED
      BY <2>2, <3>2, <3>3, FrameTypes
  <2>3. QED
    BY <1>21, <2>1, <2>2 DEF Update
<1>22. CASE Download(c)
  BY <1>22, GoTypes, ExitTypes DEF Download
<1>23. CASE Check(c)
  BY <1>23, GoTypes, ExitTypes DEF Check
<1>24. CASE Store(c)
  <2> DEFINE r == [s[c] EXCEPT !.id = NextId, !.pc = "enter"]
  <2>1. CASE Exit(c, 1)
    BY <2>1, ExitTypes
  <2>2. CASE NextId \in Ids /\ s' = [s EXCEPT ![c] = r]
    <3>1. r \in Locals
      BY <2>2 DEF Locals
    <3>2. Routed(r.op, r.pc, r.ret, r.id, r.left, r.old)
      BY <1>24, <2>2 DEF Store, Locals
    <3>3. QED
      BY <2>2, <3>1, <3>2, FrameTypes
  <2>3. QED
    BY <1>24, <2>1, <2>2 DEF Store
<1>25. CASE Enter(c)
  BY <1>25, GoTypes, ExitTypes DEF Enter
<1>26. CASE Replace(c)
  <2>1. prof[s[c].id] \in Files /\ Absent \in Files
    BY <1>26, FilesExist DEF Replace, Types, FilesOK
  <2>2. CASE Exit(c, 1)
    BY <2>2, ExitTypes
  <2>3. CASE \E o \in Files, x \in {0, 1}, l \in {"use", "updated", "done"} :
               s' = [s EXCEPT ![c].old = o, ![c].st = x, ![c].pc = l]
    <3>1. PICK o \in Files, x \in {0, 1}, l \in {"use", "updated", "done"} :
               s' = [s EXCEPT ![c].old = o, ![c].st = x, ![c].pc = l]
      BY <2>3
    <3> DEFINE r == [s[c] EXCEPT !.old = o, !.st = x, !.pc = l]
    <3>2. r \in Locals
      <4>1. x \in 0..2 /\ l \in Labels
        OBVIOUS
      <4>2. QED
        BY <4>1, OldLocals
    <3>3. Routed(r.op, r.pc, r.ret, r.id, r.left, r.old)
      BY <1>26 DEF Replace, Locals
    <3>4. s' = [s EXCEPT ![c] = r]
      BY <3>1
    <3>5. QED
      BY <3>2, <3>3, <3>4, FrameTypes
  <2>4. prof' = [prof EXCEPT ![s[c].id] = temp] =>
          \E o \in Files, x \in {0, 1}, l \in {"use", "updated", "done"} :
             s' = [s EXCEPT ![c].old = o, ![c].st = x, ![c].pc = l] \/ Exit(c, 1)
    BY <1>26, <2>1 DEF Replace
  <2>5. QED
    BY <1>26, <2>1, <2>2, <2>3 DEF Replace
<1>27. CASE Used(c)
  <2>1. CASE Go(c, "done")
    BY <1>27, <2>1, GoTypes DEF Used
  <2>2. CASE s[c].old # Absent /\ Go(c, "updated")
    <3>1. s[c].op \in Updating /\ Routed(s[c].op, "updated", s[c].ret, s[c].id, s[c].left, s[c].old)
      BY <1>27, <2>2 DEF Used
    <3>2. QED
      BY <2>2, <3>1, GoTypes
  <2>3. QED
    BY <1>27, <2>1, <2>2 DEF Used
<1>28. CASE Updated(c)
  <2> DEFINE r == [s[c] EXCEPT !.old = Absent, !.pc = "use"]
  <2>1. CASE Exit(c, 0)
    BY <2>1, ExitTypes
  <2>2. CASE s' = [s EXCEPT ![c] = r]
    <3>1. r \in Locals
      BY ZenonT(60), FilesExist DEF Locals
    <3>2. Routed(r.op, r.pc, r.ret, r.id, r.left, r.old)
      BY <1>28 DEF Updated, Locals
    <3>3. QED
      BY <2>2, <3>1, <3>2, FrameTypes
  <2>3. QED
    BY <1>28, <2>1, <2>2 DEF Updated
<1>29. CASE Del(c)
  <2>1. CASE Exit(c, 1)
    BY <2>1, ExitTypes
  <2>2. CASE \E a \in BOOLEAN, l \in {"del_stop", "del_entry"} :
               s' = [s EXCEPT ![c].act = a, ![c].pc = l]
    <3>1. PICK a \in BOOLEAN, l \in {"del_stop", "del_entry"} :
               s' = [s EXCEPT ![c] = [s[c] EXCEPT !.act = a, !.pc = l]]
      BY ZenonT(60), <2>2
    <3> DEFINE r == [s[c] EXCEPT !.act = a, !.pc = l]
    <3>2. r \in Locals
      BY ZenonT(60) DEF Locals
    <3>3. Routed(r.op, r.pc, r.ret, r.id, r.left, r.old)
      BY <1>29 DEF Del, Locals
    <3>4. QED
      BY <3>1, <3>2, <3>3, FrameTypes
  <2>3. QED
    BY <1>29, <2>1, <2>2 DEF Del
<1>30. CASE DelStop(c)
  BY <1>30, GoTypes, ExitTypes DEF DelStop
<1>31. CASE DelCheck(c)
  BY <1>31, GoTypes, ExitTypes DEF DelCheck
<1>32. CASE DelEntry(c)
  BY <1>32, GoTypes, ExitTypes DEF DelEntry
<1>33. CASE DelConfig(c)
  BY <1>33, GoTypes, ExitTypes DEF DelConfig
<1>34. CASE DelProfile(c)
  BY <1>34, GoTypes, ExitTypes DEF DelProfile
<1>35. CASE Finish(c)
  BY <1>35, NothingYet, NoneRouted, FrameTypes DEF Finish
<1>36. QED
  BY <1>1, <1>2, <1>3, <1>4, <1>5, <1>6, <1>7, <1>8, <1>9, <1>10, <1>11, <1>12, <1>13, <1>14, <1>15, <1>16, <1>17, <1>18, <1>19, <1>20, <1>21, <1>22, <1>23, <1>24, <1>25, <1>26, <1>27, <1>28, <1>29, <1>30, <1>31, <1>32, <1>33, <1>34, <1>35 DEF Step

LEMMA WrittenTypes == \A f \in Files : Written(f) \subseteq Files
BY FilesExist DEF Written

LEMMA MergedTypes ==
    ASSUME Types
    PROVE  Merged(base) \in Files
BY FilesExist DEF Types, FilesOK, Merged, Files, File, Mixins, Qualities

LEMMA NoneTypes == Absent \in Files /\ Empty \in Files /\ NoMeta \in Metas /\ EmptyMeta \in Metas
BY FilesExist, NothingYet DEF EmptyMeta, NoMeta, Metas

LEMMA FilesStep ==
    ASSUME Types, NEW c \in Sessions, Step(c)
    PROVE  FilesOK'
<1>a. FilesOK /\ s[c] \in Locals /\ Route(c)
  BY DEF Types, LocalsOK
<1>b. /\ s[c].snapBase \in Files /\ s[c].snapRuntime \in Files /\ s[c].snapMeta \in Metas
      /\ s[c].old \in Files /\ s[c].url \in Urls \cup {NoUrl} /\ s[c].id \in Ids \cup {NoId}
  BY <1>a DEF Locals
<1> USE <1>a, <1>b DEF FilesOK
<1>1. CASE Merge(c)
  BY <1>1, NoneTypes, WrittenTypes DEF Merge
<1>2. CASE MergeTruncate(c)
  BY <1>2, NoneTypes DEF MergeTruncate
<1>3. CASE MergeWrite(c)
  BY <1>3, WrittenTypes, MergedTypes DEF MergeWrite
<1>4. CASE MergeCheck(c)
  BY <1>4, WrittenTypes DEF MergeCheck
<1>5. CASE Restop(c)
  BY <1>5 DEF Restop, files
<1>6. CASE RestopCheck(c)
  BY <1>6 DEF RestopCheck, files
<1>7. CASE Restart(c)
  BY <1>7 DEF Restart, files
<1>8. CASE RestartTun(c)
  BY <1>8 DEF RestartTun, files
<1>9. CASE MixinDone(c)
  BY <1>9 DEF MixinDone, files
<1>10. CASE Use(c)
  BY <1>10 DEF Use, files
<1>11. CASE Snapshot(c)
  BY <1>11 DEF Snapshot, files
<1>12. CASE Switch(c)
  BY <1>12, NoneTypes DEF Switch, At, Route, Routed, Switching, Updating, Adding
<1>13. CASE Switched(c)
  BY <1>13 DEF Switched, files
<1>14. CASE Commit(c)
  BY <1>14 DEF Commit, Metas, At, Routed, Route, Switching, Updating, Adding, UndoLabels
<1>15. CASE Undo(c)
  BY <1>15 DEF Undo, files
<1>16. CASE UndoRm(c)
  BY <1>16, NoneTypes DEF UndoRm
<1>17. CASE UndoCp(c)
  BY <1>17, NoneTypes DEF UndoCp
<1>18. CASE UndoStart(c)
  BY <1>18 DEF UndoStart, files
<1>19. CASE UndoPorts(c)
  BY <1>19 DEF UndoPorts, files
<1>20. CASE Add(c)
  BY <1>20 DEF Add, files
<1>21. CASE Update(c)
  BY <1>21 DEF Update, files
<1>22. CASE Download(c)
  <2>1. \A q \in Fetched : File(s[c].url, q, FALSE) \in Files
    BY FetchedAssumption DEF File, Files
  <2>2. QED
    BY <1>22, <2>1, NoneTypes DEF Download
<1>23. CASE Check(c)
  BY <1>23 DEF Check, files
<1>24. CASE Store(c)
  BY <1>24, NoneTypes DEF Store
<1>25. CASE Enter(c)
  BY <1>25 DEF Enter, Metas
<1>26. CASE Replace(c)
  BY <1>26, NoneTypes DEF Replace
<1>27. CASE Used(c)
  BY <1>27, WrittenTypes DEF Used
<1>28. CASE Updated(c)
  BY <1>28 DEF Updated, files
<1>29. CASE Del(c)
  BY <1>29 DEF Del, files
<1>30. CASE DelStop(c)
  BY <1>30 DEF DelStop, files
<1>31. CASE DelCheck(c)
  BY <1>31 DEF DelCheck, files
<1>32. CASE DelEntry(c)
  BY <1>32 DEF DelEntry, Metas
<1>33. CASE DelConfig(c)
  BY <1>33, NoneTypes DEF DelConfig
<1>34. CASE DelProfile(c)
  BY <1>34, NoneTypes DEF DelProfile
<1>35. CASE Finish(c)
  BY <1>35 DEF Finish, files
<1>36. QED
  BY <1>1, <1>2, <1>3, <1>4, <1>5, <1>6, <1>7, <1>8, <1>9, <1>10, <1>11, <1>12, <1>13, <1>14, <1>15, <1>16, <1>17, <1>18, <1>19, <1>20, <1>21, <1>22, <1>23, <1>24, <1>25, <1>26, <1>27, <1>28, <1>29, <1>30, <1>31, <1>32, <1>33, <1>34, <1>35 DEF Step

LEMMA ServiceStep ==
    ASSUME Types, NEW c \in Sessions, Step(c)
    PROVE  ServiceOK'
<1>a. UNCHANGED service => ServiceOK'
  BY DEF Types, ServiceOK, service
<1> USE <1>a
<1>1. CASE Restop(c)
  BY <1>1, StopTypes DEF Restop
<1>2. CASE RestopCheck(c)
  BY <1>2, LookTypes DEF RestopCheck
<1>3. CASE Restart(c)
  BY <1>3, StartTypes, SudoStartTypes DEF Restart
<1>4. CASE Snapshot(c)
  BY <1>4, LookTypes DEF Snapshot
<1>5. CASE Switched(c)
  BY <1>5, LookTypes DEF Switched
<1>6. CASE Undo(c)
  BY <1>6, StopTypes DEF Undo
<1>7. CASE UndoStart(c)
  BY <1>7, StartTypes, SudoStartTypes DEF UndoStart
<1>8. CASE UndoPorts(c)
  BY <1>8, LookTypes DEF UndoPorts
<1>9. CASE DelStop(c)
  BY <1>9, StopTypes DEF DelStop
<1>10. CASE DelCheck(c)
  BY <1>10, LookTypes DEF DelCheck
<1>11. CASE UNCHANGED service
  BY <1>11
<1>12. QED
  BY <1>1, <1>2, <1>3, <1>4, <1>5, <1>6, <1>7, <1>8, <1>9, <1>10, <1>11 DEF Step, Merge, MergeTruncate, MergeWrite, MergeCheck, RestartTun, MixinDone, Use, Switch, Commit, UndoRm, UndoCp, Add, Update, Download, Check, Store, Enter, Replace, Used, Updated, Del, DelEntry, DelConfig, DelProfile, Finish

LEMMA BeginTypes ==
    ASSUME Types, NEW c \in Sessions, NEW o \in Commands, Begin(c, o)
    PROVE  Types'
<1>1. FilesOK'
  BY DEF Begin, Types, FilesOK, Mixins
<1>2. ServiceOK'
  BY DEF Begin, Types, ServiceOK, service
<1>3. PICK r \in Locals : s' = [s EXCEPT ![c] = r] /\
                            Routed(r.op, r.pc, r.ret, r.id, r.left, r.old)
  <2>a. /\ s[c] \in Locals /\ Route(c) /\ s[c].pc = "idle" /\ s[c].old = Absent
        /\ o \in CommandNames
    BY CommandsAssumption DEF Types, LocalsOK, Begin, At, Route, Routed, Updating
  <2>1. CASE o \in {"use", "update", "del"}
    <3>1. PICK i \in Ids : s' = [s EXCEPT ![c].op = o, ![c].pc = o, ![c].id = i]
      BY <2>1 DEF Begin
    <3>2. s' = [s EXCEPT ![c] = [s[c] EXCEPT !.op = o, !.pc = o, !.id = i]]
      BY <3>1
    <3>3. [s[c] EXCEPT !.op = o, !.pc = o, !.id = i] \in Locals
      BY <2>a, <2>1 DEF Locals, Labels, DelLabels
    <3>4. Routed(o, o, s[c].ret, i, s[c].left, s[c].old)
      BY <2>a, <2>1 DEF Routed, MergeLabels, UndoLabels, DelLabels, Switching, Updating, Adding
    <3>5. QED
      BY <2>a, <3>2, <3>3, <3>4 DEF Locals
  <2>2. CASE o \in {"add", "add_use"}
    <3>1. PICK u \in Urls : s' = [s EXCEPT ![c].op = o, ![c].pc = "add", ![c].url = u]
      BY <2>2 DEF Begin
    <3>2. s' = [s EXCEPT ![c] = [s[c] EXCEPT !.op = o, !.pc = "add", !.url = u]]
      BY <3>1
    <3>3. [s[c] EXCEPT !.op = o, !.pc = "add", !.url = u] \in Locals
      BY <2>a, <2>2 DEF Locals, Labels
    <3>4. Routed(o, "add", s[c].ret, s[c].id, s[c].left, s[c].old)
      BY <2>a, <2>2 DEF Routed, MergeLabels, UndoLabels, DelLabels, Switching, Updating, Adding
    <3>5. QED
      BY <2>a, <3>2, <3>3, <3>4 DEF Locals
  <2>3. CASE o = "mixin"
    <3>1. s' = [s EXCEPT ![c] = [s[c] EXCEPT !.op = o, !.pc = "merge", !.ret = "mixin_done"]]
      BY <2>3 DEF Begin
    <3>2. [s[c] EXCEPT !.op = o, !.pc = "merge", !.ret = "mixin_done"] \in Locals
      BY ZenonT(60), <2>a, <2>3 DEF Locals, Labels, MergeLabels
    <3>3. Routed(o, "merge", "mixin_done", s[c].id, s[c].left, s[c].old)
      BY <2>a, <2>3 DEF Routed, MergeLabels, UndoLabels, DelLabels, Switching, Updating, Adding
    <3>4. QED
      BY <2>a, <3>1, <3>2, <3>3 DEF Locals
  <2>4. QED
    BY <2>1, <2>2, <2>3 DEF Begin
<1>4. LocalsOK'
  BY <1>3, FrameTypes DEF Types
<1>5. QED
  BY <1>1, <1>2, <1>4 DEF Types

LEMMA Ends ==
    ASSUME Types, NEW c \in Sessions, Interrupt(c)
    PROVE  Types'
<1>1. LocalsOK'
  BY NothingYet, NoneRouted, FrameTypes DEF Types, Interrupt
<1>2. QED
  BY <1>1 DEF Types, FilesOK, ServiceOK, Interrupt, files, service

LEMMA DieTypes ==
    ASSUME Types, NEW k \in Slots, Die(k)
    PROVE  Types'
BY NothingYet DEF Types, FilesOK, ServiceOK, LocalsOK, Route, Die, files

LEMMA TypesInvariant == Spec => []Types
<1>1. Types /\ [Next]_vars => Types'
  <2>1. ASSUME Types, NEW c \in Sessions, Step(c) PROVE Types'
    BY <2>1, LocalsStep, FilesStep, ServiceStep DEF Types
  <2>2. ASSUME Types, UNCHANGED vars PROVE Types'
    BY <2>2 DEF Types, FilesOK, ServiceOK, LocalsOK, Route, vars
  <2>3. QED
    BY <2>1, <2>2, BeginTypes, Ends, DieTypes DEF Next
<1>2. QED
  BY <1>1, InitTypes, PTL DEF Spec

\* Whatever sessions do at the same time, every file holds a configuration of a link, the
\* profile in use is an id and a call returns to a label of its command (sub.sh, config.sh).
THEOREM TypeCorrect == Spec => []TypeOK
<1>1. Types => TypeOK
  BY DEF Types, FilesOK, ServiceOK, LocalsOK, TypeOK, Locals, Mixins, Metas, Kernels
<1>2. QED
  BY <1>1, TypesInvariant, PTL

-----------------------------------------------------------------------------
(***************************************************************************)
(* The turn.                                                               *)
(***************************************************************************)
OneAtWork == \A c, d \in Sessions : c = d \/ At(c, "idle") \/ At(d, "idle")

(***************************************************************************)
(* What profiles.yaml says of profiles: the one in use is an entry, and    *)
(* entries have files.                                                     *)
(***************************************************************************)
UseOK(m) == m.use # NoId => m.use \in Ids /\ m.urls[m.use] # NoUrl
Entries(m) == \A i \in Ids : m.urls[i] # NoUrl => prof[i] # Absent

\* Between the snapshot and the end of the switch or of its rollback.
Inside(c) ==
    /\ s[c].op # "mixin"
    /\ s[c].pc \in MergeLabels \cup UndoLabels \cup {"switch", "switched", "commit"}

Restored(c) == base = s[c].snapBase /\ runtime = s[c].snapRuntime /\ meta = s[c].snapMeta
Replacing(c) == s[c].pc \in {"undo_rm", "undo_cp"}

(***************************************************************************)
(* What a session that has its turn knows of the files.                    *)
(***************************************************************************)
Taken(c) ==
    /\ Inside(c) => s[c].taken
    /\ s[c].pc \in {"idle", "use", "snapshot", "update", "add", "download", "check", "store",
                    "enter", "replace"} => ~s[c].taken

All == <<"base", "runtime", "meta">>
Two == <<"runtime", "meta">>

Snapshots(c) ==
    /\ Inside(c) => UseOK(s[c].snapMeta) /\ Entries(s[c].snapMeta)
    /\ Inside(c) => meta = IF s[c].pc = "undo_cp" /\ s[c].left = <<"meta">>
                           THEN NoMeta ELSE s[c].snapMeta
    /\ Replacing(c) /\ s[c].left # All => base = s[c].snapBase
    /\ Replacing(c) /\ s[c].left = <<"meta">> => runtime = s[c].snapRuntime
    /\ s[c].pc \in {"undo_start", "undo_ports"} => Restored(c)

Outcome(c) ==
    /\ s[c].pc = "used" => s[c].st = 1 \/ s[c].taken
    /\ s[c].pc = "used" /\ s[c].st = 0 => meta.use = s[c].id
    /\ s[c].pc = "updated" /\ s[c].taken => meta.use = s[c].id
    /\ s[c].pc \in {"used", "done"} /\ s[c].op \in Switching /\ s[c].st = 1 /\ s[c].taken
         => Restored(c)

Profiles(c) ==
    /\ s[c].pc = "snapshot" \/ (Inside(c) /\ s[c].pc \notin UndoLabels) => Listed(s[c].id)
    /\ s[c].pc \in {"store", "replace"} => Valid(temp)
    /\ s[c].pc = "enter" => prof[s[c].id] # Absent
    /\ s[c].pc \in {"del_stop", "del_check", "del_entry"} => s[c].act = (meta.use = s[c].id)
    /\ s[c].pc \in {"del_config", "del_profile"} => ~Listed(s[c].id)

Linked(c) ==
    s[c].pc \in {"add", "download", "check", "store", "enter"} => s[c].url # NoUrl

Knows(c) == Taken(c) /\ Snapshots(c) /\ Outcome(c) /\ Profiles(c) /\ Linked(c)

EntriesInv == UseOK(meta) /\ Entries(meta)

TurnsInv == Types /\ OneAtWork /\ EntriesInv /\ \A c \in Sessions : Knows(c)

(***************************************************************************)
(* How a step moves its session, by the parts of a command.                *)
(***************************************************************************)
Kept(c) ==
    /\ s'[c].op = s[c].op /\ s'[c].id = s[c].id /\ s'[c].taken = s[c].taken
    /\ s'[c].snapBase = s[c].snapBase /\ s'[c].snapRuntime = s[c].snapRuntime
    /\ s'[c].snapMeta = s[c].snapMeta /\ s'[c].old = s[c].old /\ s'[c].act = s[c].act

Jumps(c, l) == Go(c, l) \/ GoWith(c, l, 0) \/ GoWith(c, l, 1) \/ GoWith(c, l, 2)

LEMMA JumpFacts ==
    ASSUME s \in [Sessions -> Locals], NEW c \in Sessions, NEW l \in Labels, Jumps(c, l)
    PROVE  s'[c].pc = l /\ s'[c].ret = s[c].ret /\ Kept(c)
BY GoFacts, GoWithFacts DEF Jumps, Same, Kept

Merging(c) ==
    \/ Merge(c) \/ MergeTruncate(c) \/ MergeWrite(c) \/ MergeCheck(c)
    \/ Restop(c) \/ RestopCheck(c) \/ Restart(c) \/ RestartTun(c)

LEMMA MergingMoves ==
    ASSUME Types, NEW c \in Sessions, Merging(c)
    PROVE  /\ s[c].pc \in MergeLabels /\ s'[c].pc \in MergeLabels \cup {s[c].ret}
           /\ Kept(c) /\ s'[c].ret = s[c].ret
           /\ UNCHANGED <<base, mixin, meta, prof>>
<1>a. s \in [Sessions -> Locals] /\ s[c] \in Locals
  BY DEF Types, LocalsOK
<1>b. s[c].ret \in Labels
  BY <1>a DEF Locals, Labels
<1> USE <1>a, <1>b DEF At, Labels, MergeLabels, files
<1>1. CASE Merge(c)
  BY <1>1 DEF Merge, Kept, Locals
<1>2. CASE MergeTruncate(c)
  BY <1>2, GoFacts DEF MergeTruncate, Same, Kept
<1>3. CASE MergeWrite(c)
  BY <1>3, GoFacts DEF MergeWrite, Same, Kept
<1>4. CASE MergeCheck(c)
  <2>1. Jumps(c, "restop") \/ Jumps(c, s[c].ret)
    BY <1>4 DEF MergeCheck, Jumps
  <2>2. QED
    BY <1>4, <2>1, JumpFacts DEF MergeCheck
<1>5. CASE Restop(c)
  BY <1>5, GoFacts DEF Restop, Same, Kept
<1>6. CASE RestopCheck(c)
  <2>1. Jumps(c, "restart") \/ Jumps(c, s[c].ret)
    BY <1>6 DEF RestopCheck, Jumps
  <2>2. QED
    BY <1>6, <2>1, JumpFacts DEF RestopCheck
<1>7. CASE Restart(c)
  <2>1. Jumps(c, "restart_tun") \/ Jumps(c, s[c].ret)
    BY <1>7 DEF Restart, Jumps
  <2>2. QED
    BY <1>7, <2>1, JumpFacts DEF Restart
<1>8. CASE RestartTun(c)
  <2>1. Jumps(c, s[c].ret)
    BY <1>8 DEF RestartTun, Jumps
  <2>2. QED
    BY <1>8, <2>1, JumpFacts DEF RestartTun
<1>9. QED
  BY <1>1, <1>2, <1>3, <1>4, <1>5, <1>6, <1>7, <1>8 DEF Merging

(***************************************************************************)
(* Lemmas by the place a step leads to.                                    *)
(***************************************************************************)
LEMMA OnSwitch ==
    ASSUME TurnsInv, NEW c \in Sessions, Inside(c), s[c].pc \notin UndoLabels,
           s'[c].pc \in MergeLabels \cup {"switched", "commit", "undo"},
           Kept(c), UNCHANGED <<meta, prof>>
    PROVE  EntriesInv' /\ Knows(c)'
<1>a. EntriesInv /\ Knows(c)
  BY DEF TurnsInv
<1>1. EntriesInv'
  BY <1>a DEF EntriesInv, UseOK, Entries
<1>2. Taken(c)'
  BY <1>a DEF Knows, Taken, Kept, Inside, MergeLabels
<1>3. Snapshots(c)'
  BY <1>a DEF Knows, Snapshots, Kept, Inside, MergeLabels, UndoLabels, Replacing, UseOK, Entries
<1>4. Outcome(c)'
  BY DEF Outcome, MergeLabels
<1>5. Profiles(c)'
  BY <1>a DEF Knows, Profiles, Kept, Inside, MergeLabels, UndoLabels, Listed
<1>6. QED
  BY <1>1, <1>2, <1>3, <1>4, <1>5 DEF Knows, Linked, MergeLabels

LEMMA OnMixin ==
    ASSUME TurnsInv, NEW c \in Sessions, s'[c].op = "mixin",
           s'[c].pc \in MergeLabels \cup {"mixin_done", "done"},
           UNCHANGED <<meta, prof>>
    PROVE  EntriesInv' /\ Knows(c)'
<1>1. EntriesInv'
  BY DEF TurnsInv, EntriesInv, UseOK, Entries
<1>2. Knows(c)'
  BY DEF Knows, Taken, Snapshots, Outcome, Profiles, Linked, Inside, MergeLabels, UndoLabels, Replacing,
         Switching
<1>3. QED
  BY <1>1, <1>2

\* A command that ends without a snapshot, or with another status than 1.
LEMMA OnExit ==
    ASSUME TurnsInv, NEW c \in Sessions, s'[c].pc = "done",
           s'[c].op \in Switching /\ s'[c].st = 1 /\ s'[c].taken => Restored(c)',
           EntriesInv'
    PROVE  EntriesInv' /\ Knows(c)'
BY DEF Knows, Taken, Snapshots, Outcome, Profiles, Linked, Inside, MergeLabels, UndoLabels, Replacing

\* Before a snapshot: nothing is known but that there is none.
LEMMA OnApproach ==
    ASSUME TurnsInv, NEW c \in Sessions,
           s'[c].pc \in {"use", "update", "add", "download", "check", "del"},
           s'[c].pc # "del" => ~s'[c].taken,
           s'[c].pc \in {"add", "download", "check"} => s'[c].url # NoUrl,
           EntriesInv'
    PROVE  EntriesInv' /\ Knows(c)'
BY DEF Knows, Taken, Snapshots, Outcome, Profiles, Linked, Inside, MergeLabels, UndoLabels, Replacing

LEMMA EntriesKept ==
    ASSUME EntriesInv, UNCHANGED <<meta, prof>>
    PROVE  EntriesInv'
BY DEF EntriesInv, UseOK, Entries

LEMMA MergingTurn ==
    ASSUME TurnsInv, NEW c \in Sessions, Merging(c)
    PROVE  EntriesInv' /\ Knows(c)'
<1>1. /\ s[c].pc \in MergeLabels /\ s'[c].pc \in MergeLabels \cup {s[c].ret}
      /\ Kept(c) /\ UNCHANGED <<meta, prof>> /\ Route(c)
  BY MergingMoves DEF TurnsInv, Types, LocalsOK
<1>2. CASE s[c].op = "mixin"
  <2>1. s[c].ret = "mixin_done" /\ s'[c].op = "mixin"
    BY <1>1, <1>2 DEF Route, Routed, Kept
  <2>2. QED
    BY <1>1, <2>1, OnMixin
<1>3. CASE s[c].op # "mixin"
  <2>1. s[c].ret = "switched" /\ Inside(c) /\ s[c].pc \notin UndoLabels
    BY <1>1, <1>3 DEF Route, Routed, Inside, MergeLabels, UndoLabels
  <2>2. QED
    BY <1>1, <2>1, OnSwitch
<1>4. QED
  BY <1>2, <1>3

LEMMA SwitchTurn ==
    ASSUME TurnsInv, NEW c \in Sessions,
           MixinDone(c) \/ Use(c) \/ Snapshot(c) \/ Switch(c) \/ Switched(c) \/ Commit(c)
    PROVE  EntriesInv' /\ Knows(c)'
<1>a. s \in [Sessions -> Locals] /\ s[c] \in Locals /\ Route(c) /\ EntriesInv /\ Knows(c)
  BY DEF TurnsInv, Types, LocalsOK
<1>1. CASE MixinDone(c)
  <2>1. s'[c].pc = "done" /\ s[c].op = "mixin" /\ Kept(c) /\ UNCHANGED <<meta, prof>>
    BY <1>1, <1>a, JumpFacts DEF MixinDone, Jumps, At, Labels, files, Route, Routed
  <2>2. QED
    BY <2>1, OnMixin DEF Kept
<1>2. CASE Use(c)
  <2>0. s[c].pc = "use" /\ ~s[c].taken /\ UNCHANGED <<base, runtime, meta, prof>>
    BY <1>2, <1>a DEF Use, At, files, Knows, Taken
  <2>1. CASE Listed(s[c].id)
    <3>1. s'[c].pc = "snapshot" /\ Kept(c)
      BY <1>2, <1>a, <2>1, JumpFacts DEF Use, Jumps, Labels
    <3>2. Knows(c)'
      BY <2>0, <2>1, <3>1 DEF Knows, Taken, Snapshots, Outcome, Profiles, Linked, Inside, MergeLabels,
          UndoLabels, Replacing, Kept, Listed
    <3>3. QED
      BY <2>0, <3>2, <1>a, EntriesKept
  <2>2. CASE ~Listed(s[c].id)
    <3>1. s'[c].pc = "used" /\ s'[c].st = 1 /\ Kept(c)
      BY <1>2, <1>a, <2>2, JumpFacts, GoWithFacts DEF Use, Jumps, Labels
    <3>2. Knows(c)'
      BY <2>0, <3>1 DEF Knows, Taken, Snapshots, Outcome, Profiles, Linked, Inside, MergeLabels,
          UndoLabels, Replacing, Kept
    <3>3. QED
      BY <2>0, <3>2, <1>a, EntriesKept
  <2>3. QED
    BY <2>1, <2>2
<1>3. CASE Snapshot(c)
  <2>0. s[c].pc = "snapshot" /\ ~s[c].taken /\ Listed(s[c].id) /\ UNCHANGED <<base, runtime, meta, prof>>
    BY <1>3, <1>a DEF Snapshot, At, files, Knows, Taken, Profiles
  <2>1. CASE GoWith(c, "used", 1)
    <3>1. s'[c].pc = "used" /\ s'[c].st = 1 /\ Kept(c)
      BY <1>a, <2>1, JumpFacts, GoWithFacts DEF Jumps, Labels
    <3>2. Knows(c)'
      BY <2>0, <3>1 DEF Knows, Taken, Snapshots, Outcome, Profiles, Linked, Inside, MergeLabels,
          UndoLabels, Replacing, Kept
    <3>3. QED
      BY <2>0, <3>2, <1>a, EntriesKept
  <2>2. CASE s' = [s EXCEPT ![c].pc = "switch", ![c].taken = TRUE, ![c].snapBase = base,
                            ![c].snapRuntime = runtime, ![c].snapMeta = meta,
                            ![c].act = (ActiveStatus = 0), ![c].tun = TunUp]
    <3>1. /\ s'[c].pc = "switch" /\ s'[c].op = s[c].op /\ s'[c].taken /\ s'[c].snapMeta = meta
          /\ s'[c].id = s[c].id
      BY <1>a, <2>2 DEF Locals
    <3>2. Knows(c)'
      BY <1>a, <2>0, <3>1 DEF Knows, Taken, Snapshots, Outcome, Profiles, Linked, Inside, MergeLabels,
          UndoLabels, Replacing, EntriesInv, UseOK, Entries, Listed
    <3>3. QED
      BY <2>0, <3>2, <1>a, EntriesKept
  <2>3. QED
    BY <1>3, <2>1, <2>2 DEF Snapshot
<1>4. CASE Switch(c)
  <2>1. /\ s[c].pc = "switch" /\ s[c].op # "mixin" /\ UNCHANGED <<meta, prof>>
    BY <1>4, <1>a DEF Switch, At, Route, Routed, Switching
  <2>2. s'[c].pc \in {"merge", "undo"} /\ Kept(c)
    <3>1. CASE s' = [s EXCEPT ![c].pc = "merge", ![c].ret = "switched"]
      BY <1>a, <3>1 DEF Locals, Kept
    <3>2. CASE Go(c, "undo")
      BY <1>a, <3>2, JumpFacts DEF Jumps, Labels, UndoLabels
    <3>3. QED
      BY <1>4, <3>1, <3>2 DEF Switch
  <2>3. QED
    BY <2>1, <2>2, OnSwitch DEF Inside, MergeLabels, UndoLabels
<1>5. CASE Switched(c)
  <2>1. /\ s[c].pc = "switched" /\ s[c].op # "mixin" /\ UNCHANGED <<meta, prof>>
    BY <1>5, <1>a DEF Switched, At, Route, Routed, Switching, files
  <2>2. s'[c].pc \in {"commit", "undo"} /\ Kept(c)
    BY <1>5, <1>a, JumpFacts DEF Switched, Jumps, Labels, UndoLabels
  <2>3. QED
    BY <2>1, <2>2, OnSwitch DEF Inside, UndoLabels
<1>6. CASE Commit(c)
  <2>0. /\ s[c].pc = "commit" /\ s[c].op # "mixin" /\ UNCHANGED prof /\ s[c].id \in Ids
    BY <1>6, <1>a DEF Commit, At, Route, Routed, Switching, Updating, Adding
  <2>1. CASE Go(c, "undo") /\ UNCHANGED meta
    <3>1. s'[c].pc = "undo" /\ Kept(c)
      BY <2>1, <1>a, JumpFacts DEF Jumps, Labels, UndoLabels
    <3>2. QED
      BY <2>0, <2>1, <3>1, OnSwitch DEF Inside, UndoLabels
  <2>2. CASE meta' = [meta EXCEPT !.use = s[c].id] /\ GoWith(c, "used", 0)
    <3>1. s'[c].pc = "used" /\ s'[c].st = 0 /\ Kept(c)
      BY <2>2, <1>a, JumpFacts, GoWithFacts DEF Jumps, Labels
    <3>2. Listed(s[c].id) /\ s[c].taken
      BY <2>0, <1>a DEF Knows, Profiles, Taken, Inside, UndoLabels
    <3>3. meta'.use = s[c].id /\ meta'.urls = meta.urls
      BY <2>2 DEF TurnsInv, Types, FilesOK, Metas
    <3>4. EntriesInv'
      BY <1>a, <2>0, <3>2, <3>3 DEF EntriesInv, UseOK, Entries, Listed
    <3>5. Knows(c)'
      BY <3>1, <3>2, <3>3 DEF Knows, Taken, Snapshots, Outcome, Profiles, Linked, Inside, MergeLabels,
          UndoLabels, Replacing, Kept
    <3>6. QED
      BY <3>4, <3>5
  <2>3. QED
    BY <1>6, <2>1, <2>2 DEF Commit
<1>7. QED
  BY <1>1, <1>2, <1>3, <1>4, <1>5, <1>6


LEMMA Lists ==
    /\ Head(All) = "base" /\ Tail(All) = Two /\ Len(All) = 3
    /\ Head(Two) = "runtime" /\ Tail(Two) = <<"meta">> /\ Len(Two) = 2
    /\ All # Two /\ All # <<"meta">> /\ Two # <<"meta">>
BY DEF All, Two

\* During the rollback profiles.yaml is the one of the snapshot, or absent.
LEMMA OnUndo ==
    ASSUME TurnsInv, NEW c \in Sessions, Inside(c), Kept(c), UNCHANGED prof,
           s'[c].pc \in UndoLabels,
           Snapshots(c)' \/ /\ meta' = IF s'[c].pc = "undo_cp" /\ s'[c].left = <<"meta">>
                                       THEN NoMeta ELSE s[c].snapMeta
                            /\ Replacing(c)' /\ s'[c].left # All => base' = s[c].snapBase
                            /\ Replacing(c)' /\ s'[c].left = <<"meta">> => runtime' = s[c].snapRuntime
                            /\ s'[c].pc \in {"undo_start", "undo_ports"} => Restored(c)'
    PROVE  EntriesInv' /\ Knows(c)'
<1>a. /\ s[c].taken /\ UseOK(s[c].snapMeta) /\ Entries(s[c].snapMeta) /\ s[c].op # "mixin"
  BY DEF TurnsInv, Knows, Taken, Snapshots, Inside
<1>b. Inside(c)'
  BY <1>a DEF Inside, Kept
<1>1. Snapshots(c)'
  BY <1>a DEF Snapshots, Kept, UseOK, Entries, All
<1>2. meta' = NoMeta \/ meta' = s[c].snapMeta
  BY <1>1, <1>b DEF Snapshots, Kept
<1>3. EntriesInv'
  BY <1>a, <1>2 DEF EntriesInv, UseOK, Entries, NoMeta
<1>4. Knows(c)'
  BY <1>a, <1>1, <1>b DEF Knows, Taken, Outcome, Profiles, Linked, Kept, UndoLabels
<1>5. QED
  BY <1>3, <1>4

\* The rollback is over, and says that it did restore the files only if it did.
LEMMA OnUndone ==
    ASSUME TurnsInv, NEW c \in Sessions, Inside(c), Kept(c), UNCHANGED prof,
           s'[c].pc = "used", s'[c].st \in {1, 2},
           s'[c].st = 1 => Restored(c) /\ UNCHANGED <<base, runtime, meta>>,
           meta' \in {meta, EmptyMeta}
    PROVE  EntriesInv' /\ Knows(c)'
<1>1. EntriesInv' /\ s[c].taken
  BY EntriesKept DEF TurnsInv, Knows, Taken, EntriesInv, UseOK, Entries, EmptyMeta, NoMeta
<1>2. Knows(c)'
  BY <1>1 DEF Knows, Taken, Snapshots, Outcome, Profiles, Linked, Inside, MergeLabels, UndoLabels,
      Replacing, Kept, Restored
<1>3. QED
  BY <1>1, <1>2

LEMMA UndoTurn ==
    ASSUME TurnsInv, NEW c \in Sessions,
           Undo(c) \/ UndoRm(c) \/ UndoCp(c) \/ UndoStart(c) \/ UndoPorts(c)
    PROVE  EntriesInv' /\ Knows(c)'
<1>a. s \in [Sessions -> Locals] /\ s[c] \in Locals /\ Route(c) /\ Snapshots(c)
  BY DEF TurnsInv, Types, LocalsOK, Knows
<1>b. s[c].pc \in UndoLabels /\ s[c].op # "mixin" /\ Inside(c) /\ UNCHANGED prof
  BY <1>a DEF Undo, UndoRm, UndoCp, UndoStart, UndoPorts, At, UndoLabels, Route, Routed,
      Switching, Inside, files
<1>1. CASE Undo(c)
  <2>1. s[c].pc = "undo" /\ s'[c].pc = "undo_rm" /\ s'[c].left = All /\ Kept(c) /\ UNCHANGED meta
    BY <1>1, <1>a DEF Undo, At, Locals, Kept, files, All
  <2>2. meta = s[c].snapMeta
    BY <1>a, <1>b, <2>1 DEF Snapshots
  <2>3. QED
    BY <1>b, <2>1, <2>2, OnUndo DEF UndoLabels, All
<1>2. CASE UndoRm(c)
  <2>1. s[c].pc = "undo_rm" /\ s'[c].pc = "undo_cp" /\ s'[c].left = s[c].left /\ Kept(c)
    BY <1>2, <1>a, JumpFacts, GoFacts DEF UndoRm, Jumps, Labels, UndoLabels, At, Same
  <2>2. s[c].left \in {All, Two, <<"meta">>} /\ meta = s[c].snapMeta
    BY <1>a, <1>b, <2>1 DEF Snapshots, Locals, Lefts, Route, Routed, All, Two
  <2>3. CASE s[c].left = All
    <3>1. UNCHANGED meta /\ All # <<"meta">>
      BY <1>2, <2>3 DEF UndoRm, All
    <3>2. QED
      BY <1>b, <2>1, <2>2, <2>3, <3>1, OnUndo DEF UndoLabels
  <2>4. CASE s[c].left = Two
    <3>1. UNCHANGED <<base, meta>> /\ Two # <<"meta">>
      BY <1>2, <2>4, Lists DEF UndoRm
    <3>2. base = s[c].snapBase
      BY <1>a, <2>1, <2>4, Lists DEF Snapshots, Replacing
    <3>3. QED
      BY <1>b, <2>1, <2>2, <2>4, <3>1, <3>2, OnUndo DEF UndoLabels
  <2>5. CASE s[c].left = <<"meta">>
    <3>1. meta' = NoMeta /\ UNCHANGED <<base, runtime>>
      BY <1>2, <2>5 DEF UndoRm
    <3>2. base = s[c].snapBase /\ runtime = s[c].snapRuntime
      BY <1>a, <2>1, <2>5, Lists DEF Snapshots, Replacing
    <3>3. QED
      BY <1>b, <2>1, <2>2, <2>5, <3>1, <3>2, OnUndo DEF UndoLabels
  <2>6. QED
    BY <2>2, <2>3, <2>4, <2>5
<1>3. CASE UndoCp(c)
  <2>1. s[c].pc = "undo_cp" /\ s[c].left \in {All, Two, <<"meta">>}
    BY <1>3, <1>a DEF UndoCp, At, Locals, Lefts, Route, Routed, All, Two
  <2>2. CASE GoWith(c, "used", 2) /\ meta' \in {meta, EmptyMeta}
    <3>1. s'[c].pc = "used" /\ s'[c].st = 2 /\ Kept(c)
      BY <2>2, <1>a, JumpFacts, GoWithFacts DEF Jumps, Labels
    <3>2. QED
      BY <1>b, <2>2, <3>1, OnUndone
  <2>3. CASE /\ base' = IF Head(s[c].left) = "base" THEN s[c].snapBase ELSE base
             /\ runtime' = IF Head(s[c].left) = "runtime" THEN s[c].snapRuntime ELSE runtime
             /\ meta' = IF Head(s[c].left) = "meta" THEN s[c].snapMeta ELSE meta
             /\ s' = [s EXCEPT ![c].left = Tail(@),
                               ![c].pc = IF Len(s[c].left) > 1 THEN "undo_rm" ELSE "undo_start"]
    <3>1. /\ Kept(c) /\ s'[c].left = Tail(s[c].left)
          /\ s'[c].pc = IF Len(s[c].left) > 1 THEN "undo_rm" ELSE "undo_start"
      BY <1>a, <2>3 DEF Locals, Kept
    <3>2. CASE s[c].left = All
      <4>1. s'[c].left = Two /\ s'[c].pc = "undo_rm" /\ base' = s[c].snapBase
            /\ UNCHANGED meta /\ Two # <<"meta">> /\ All # <<"meta">>
        <5>1. Head(s[c].left) = "base" /\ Tail(s[c].left) = Two /\ Len(s[c].left) > 1
          BY <3>2, Lists
        <5>2. QED
          BY <2>3, <3>1, <5>1, Lists
      <4>2. meta = s[c].snapMeta
        BY <1>a, <1>b, <2>1, <3>2, <4>1 DEF Snapshots
      <4>3. QED
        BY <1>b, <3>1, <4>1, <4>2, OnUndo DEF UndoLabels
    <3>3. CASE s[c].left = Two
      <4>1. s'[c].left = <<"meta">> /\ s'[c].pc = "undo_rm" /\ runtime' = s[c].snapRuntime
            /\ UNCHANGED <<base, meta>> /\ Two # <<"meta">> /\ s[c].left # All
        <5>1. /\ Head(s[c].left) = "runtime" /\ Tail(s[c].left) = <<"meta">> /\ Len(s[c].left) > 1
              /\ s[c].left # All
          BY <3>3, Lists
        <5>2. QED
          BY <2>3, <3>1, <5>1, Lists
      <4>2. meta = s[c].snapMeta /\ base = s[c].snapBase
        BY <1>a, <1>b, <2>1, <3>3, <4>1 DEF Snapshots, Replacing, All
      <4>3. QED
        BY <1>b, <3>1, <4>1, <4>2, OnUndo DEF UndoLabels
    <3>4. CASE s[c].left = <<"meta">>
      <4>1. s'[c].pc = "undo_start" /\ meta' = s[c].snapMeta /\ UNCHANGED <<base, runtime>>
            /\ s[c].left # All
        BY <2>3, <3>1, <3>4 DEF All
      <4>2. base = s[c].snapBase /\ runtime = s[c].snapRuntime
        BY <1>a, <2>1, <3>4, <4>1 DEF Snapshots, Replacing, All
      <4>3. Restored(c)'
        BY <3>1, <4>1, <4>2 DEF Restored, Kept
      <4>4. QED
        BY <1>b, <3>1, <4>1, <4>3, OnUndo DEF UndoLabels, Replacing
    <3>5. QED
      BY <2>1, <3>2, <3>3, <3>4
  <2>4. QED
    BY <1>3, <2>2, <2>3 DEF UndoCp
<1>4. CASE UndoStart(c) \/ UndoPorts(c)
  <2>1. /\ s[c].pc \in {"undo_start", "undo_ports"} /\ UNCHANGED <<base, runtime, meta>>
        /\ Restored(c) /\ meta = s[c].snapMeta
    BY <1>4, <1>a DEF UndoStart, UndoPorts, At, files, Snapshots, Restored
  <2>2. \/ Go(c, "undo_ports")
        \/ \E x \in {1, 2} : GoWith(c, "used", x)
    BY <1>4 DEF UndoStart, UndoPorts
  <2>3. CASE Go(c, "undo_ports")
    <3>1. s'[c].pc = "undo_ports" /\ Kept(c)
      BY <2>3, <1>a, JumpFacts DEF Jumps, Labels, UndoLabels
    <3>2. Restored(c)'
      BY <2>1, <3>1 DEF Restored, Kept
    <3>3. QED
      BY <1>b, <2>1, <3>1, <3>2, OnUndo DEF UndoLabels, Replacing
  <2>4. CASE \E x \in {1, 2} : GoWith(c, "used", x)
    <3>1. s'[c].pc = "used" /\ s'[c].st \in {1, 2} /\ Kept(c)
      BY <2>4, <1>a, JumpFacts, GoWithFacts DEF Jumps, Labels
    <3>2. QED
      BY <1>b, <2>1, <3>1, OnUndone
  <2>5. QED
    BY <2>2, <2>3, <2>4
<1>5. QED
  BY <1>1, <1>2, <1>3, <1>4

\* A file that validates is there.
LEMMA ValidThere == \A f : Valid(f) => f # Absent
BY DEF Valid, Absent, File

LEMMA EmptyThere == Empty # Absent
BY DEF Empty, Absent, File

LEMMA AddTurn ==
    ASSUME TurnsInv, NEW c \in Sessions,
           Add(c) \/ Update(c) \/ Download(c) \/ Check(c) \/ Store(c) \/ Enter(c)
    PROVE  EntriesInv' /\ Knows(c)'
<1>a. s \in [Sessions -> Locals] /\ s[c] \in Locals /\ Route(c) /\ EntriesInv /\ Knows(c)
  BY DEF TurnsInv, Types, LocalsOK
<1>b. ~s[c].taken /\ (s[c].pc # "update" => s[c].url # NoUrl)
  BY <1>a DEF Knows, Taken, Linked, Add, Update, Download, Check, Store, Enter, At
<1>c. ASSUME Exit(c, 1), EntriesInv' PROVE EntriesInv' /\ Knows(c)'
  <2>1. s'[c].pc = "done" /\ s'[c].taken = FALSE
    BY <1>a, <1>b, <1>c, JumpFacts DEF Exit, Jumps, Labels, Kept
  <2>2. QED
    BY <1>c, <2>1, OnExit
<1>1. CASE Add(c)
  <2>1. EntriesInv'
    BY <1>1, <1>a, EntriesKept DEF Add, files
  <2>2. CASE \E i \in Ids : s' = [s EXCEPT ![c].op = "readd", ![c].id = i, ![c].pc = "update"]
    <3>1. s'[c].pc = "update" /\ s'[c].taken = s[c].taken
      BY <1>a, <2>2 DEF Locals
    <3>2. QED
      BY <1>b, <2>1, <3>1, OnApproach
  <2>3. CASE Go(c, "download")
    <3>1. s'[c].pc = "download" /\ s'[c].taken = s[c].taken /\ s'[c].url = s[c].url
      BY <1>a, <2>3, GoFacts DEF Labels, Same
    <3>2. s[c].pc = "add"
      BY <1>1 DEF Add, At
    <3>3. QED
      BY <1>b, <2>1, <3>1, <3>2, OnApproach
  <2>4. QED
    BY <1>1, <1>c, <2>1, <2>2, <2>3 DEF Add
<1>2. CASE Update(c)
  <2>1. EntriesInv'
    BY <1>2, <1>a, EntriesKept DEF Update, files
  <2>2. CASE /\ Listed(s[c].id)
             /\ s' = [s EXCEPT ![c].url = meta.urls[s[c].id], ![c].pc = "download"]
    <3>1. s'[c].pc = "download" /\ s'[c].taken = s[c].taken /\ s'[c].url = meta.urls[s[c].id]
      BY <1>a, <2>2 DEF Locals
    <3>2. QED
      BY <1>b, <2>1, <2>2, <3>1, OnApproach DEF Listed
  <2>3. QED
    BY <1>2, <1>c, <2>1, <2>2 DEF Update
<1>3. CASE Download(c)
  <2>1. EntriesInv'
    BY <1>3, <1>a, EntriesKept DEF Download
  <2>2. s'[c].pc = "check" /\ s'[c].taken = s[c].taken /\ s'[c].url = s[c].url
    BY <1>3, <1>a, GoFacts DEF Download, Labels, Same
  <2>3. QED
    BY <1>3, <1>b, <2>1, <2>2, OnApproach DEF Download, At
<1>4. CASE Check(c)
  <2>1. EntriesInv' /\ UNCHANGED temp
    BY <1>4, <1>a, EntriesKept DEF Check, files
  <2>2. CASE Valid(temp)
    <3>1. Go(c, "store") \/ Go(c, "replace")
      BY <1>4, <2>2 DEF Check
    <3>2. s'[c].pc \in {"store", "replace"} /\ ~s'[c].taken /\ s'[c].url # NoUrl
      BY <1>4, <1>a, <1>b, <3>1, GoFacts DEF Labels, Same, Check, At
    <3>3. Valid(temp)'
      BY <2>1, <2>2
    <3>4. Knows(c)'
      BY <3>2, <3>3 DEF Knows, Taken, Snapshots, Outcome, Profiles, Linked, Inside, MergeLabels,
          UndoLabels, Replacing
    <3>5. QED
      BY <2>1, <3>4
  <2>3. QED
    BY <1>4, <1>c, <2>1, <2>2 DEF Check
<1>5. CASE Store(c)
  <2>1. Valid(temp) /\ temp # Absent
    BY <1>5, <1>a, ValidThere DEF Store, At, Knows, Profiles
  <2>2. CASE ~meta.there
    <3>1. EntriesInv' /\ Exit(c, 1)
      BY <1>5, <1>a, <2>2, EntriesKept DEF Store
    <3>2. QED
      BY <1>c, <3>1
  <2>3. CASE meta.there
    <3>1. /\ NextId \in Ids /\ prof' = [prof EXCEPT ![NextId] = temp] /\ UNCHANGED meta
          /\ s' = [s EXCEPT ![c].id = NextId, ![c].pc = "enter"]
      BY <1>5, <2>3 DEF Store
    <3>2. /\ s'[c].pc = "enter" /\ s'[c].id = NextId /\ s'[c].taken = s[c].taken
          /\ s'[c].url # NoUrl
      BY <1>5, <1>a, <1>b, <3>1 DEF Locals, Store, At
    <3>3. prof'[NextId] = temp /\ \A i \in Ids : prof'[i] \in {prof[i], temp}
      BY <3>1 DEF TurnsInv, Types, FilesOK
    <3>4. EntriesInv'
      BY <1>a, <2>1, <3>1, <3>3 DEF EntriesInv, UseOK, Entries
    <3>5. Knows(c)'
      BY <1>b, <2>1, <3>2, <3>3 DEF Knows, Taken, Snapshots, Outcome, Profiles, Linked, Inside,
          MergeLabels, UndoLabels, Replacing
    <3>6. QED
      BY <3>4, <3>5
  <2>4. QED
    BY <2>2, <2>3
<1>6. CASE Enter(c)
  <2>1. s[c].id \in Ids /\ prof[s[c].id] # Absent /\ UNCHANGED prof /\ s[c].url # NoUrl
    BY <1>6, <1>a, <1>b DEF Enter, At, Knows, Profiles, Route, Routed, Updating, Adding
  <2>2. /\ meta'.use = meta.use /\ \A i \in Ids : meta'.urls[i] = meta.urls[i] \/ i = s[c].id
        /\ meta'.urls[s[c].id] \in {meta.urls[s[c].id], s[c].url}
    BY <1>6, <2>1 DEF Enter, TurnsInv, Types, FilesOK, Metas
  <2>3. EntriesInv'
    BY <1>a, <2>1, <2>2 DEF EntriesInv, Entries, UseOK
  <2>4. CASE Go(c, "use")
    <3>1. s'[c].pc = "use" /\ s'[c].taken = s[c].taken
      BY <1>a, <2>4, GoFacts DEF Labels, Same
    <3>2. QED
      BY <1>b, <2>3, <3>1, OnApproach
  <2>5. QED
    BY <1>6, <1>c, <2>3, <2>4 DEF Enter
<1>7. QED
  BY <1>1, <1>2, <1>3, <1>4, <1>5, <1>6

LEMMA UpdateTurn ==
    ASSUME TurnsInv, NEW c \in Sessions, Replace(c) \/ Used(c) \/ Updated(c)
    PROVE  EntriesInv' /\ Knows(c)'
<1>a. s \in [Sessions -> Locals] /\ s[c] \in Locals /\ Route(c) /\ EntriesInv /\ Knows(c)
  BY DEF TurnsInv, Types, LocalsOK
<1>b. prof \in [Ids -> Files] /\ meta \in Metas
  BY DEF TurnsInv, Types, FilesOK
<1>1. CASE Replace(c)
  <2>1. ~s[c].taken /\ temp # Absent /\ UNCHANGED meta
    BY <1>1, <1>a, ValidThere DEF Replace, At, Knows, Taken, Profiles
  <2>2. \A i \in Ids : prof[i] # Absent => prof'[i] # Absent
    BY <1>1, <1>b, <2>1, EmptyThere DEF Replace
  <2>3. EntriesInv'
    BY <1>a, <2>1, <2>2 DEF EntriesInv, UseOK, Entries
  <2>4. CASE Exit(c, 1)
    <3>1. s'[c].pc = "done" /\ s'[c].taken = s[c].taken
      BY <1>a, <2>4, JumpFacts DEF Exit, Jumps, Labels, Kept
    <3>2. QED
      BY <2>1, <2>3, <3>1, OnExit
  <2> DEFINE inUse == meta.use = s[c].id
  <2>5. CASE \/ s' = [s EXCEPT ![c].old = IF inUse THEN prof[s[c].id] ELSE Absent, ![c].st = 0,
                                ![c].pc = IF inUse THEN "use" ELSE "updated"]
             \/ s' = [s EXCEPT ![c].old = prof[s[c].id], ![c].st = 1, ![c].pc = "done"]
    <3>1. s'[c].pc \in {"use", "updated", "done"} /\ s'[c].taken = s[c].taken
      BY <1>a, <2>5 DEF Locals
    <3>2. Knows(c)'
      BY <2>1, <3>1 DEF Knows, Taken, Snapshots, Outcome, Profiles, Linked, Inside,
          MergeLabels, UndoLabels, Replacing
    <3>3. QED
      BY <2>3, <3>2
  <2>6. QED
    BY <1>1, <2>4, <2>5 DEF Replace
<1>2. CASE Used(c)
  <2>1. /\ s[c].pc = "used" /\ s[c].op \in Switching /\ UNCHANGED <<base, runtime, meta>>
        /\ Outcome(c)
    BY <1>2, <1>a DEF Used, At, Knows, Route, Routed
  <2>2. \A i \in Ids : prof[i] # Absent => prof'[i] # Absent
    <3>1. s[c].old # Absent => Absent \notin Written(s[c].old)
      BY EmptyThere DEF Written
    <3>2. QED
      BY <1>2, <1>b, <3>1 DEF Used
  <2>3. EntriesInv'
    BY <1>a, <2>1, <2>2 DEF EntriesInv, UseOK, Entries
  <2>4. CASE Go(c, "done")
    <3>1. s'[c].pc = "done" /\ s'[c].st = s[c].st /\ Kept(c)
      BY <1>a, <2>4, GoFacts, JumpFacts DEF Jumps, Labels
    <3>2. s[c].st = 1 /\ s[c].taken => Restored(c)'
      BY <2>1, <3>1 DEF Outcome, Restored, Kept
    <3>3. QED
      BY <2>3, <3>1, <3>2, OnExit DEF Kept
  <2>5. CASE s[c].st = 0 /\ Go(c, "updated")
    <3>1. s'[c].pc = "updated" /\ s'[c].id = s[c].id
      BY <1>a, <2>5, JumpFacts DEF Jumps, Labels, Kept
    <3>2. Knows(c)'
      BY <2>1, <2>5, <3>1 DEF Knows, Taken, Snapshots, Outcome, Profiles, Linked, Inside,
          MergeLabels, UndoLabels, Replacing
    <3>3. QED
      BY <2>3, <3>2
  <2>6. QED
    BY <1>2, <2>4, <2>5 DEF Used
<1>3. CASE Updated(c)
  <2>1. EntriesInv'
    BY <1>3, <1>a, EntriesKept DEF Updated, files
  <2>2. CASE Exit(c, 0)
    <3>1. s'[c].pc = "done" /\ s'[c].st = 0
      BY <1>a, <2>2, GoWithFacts DEF Exit, Labels
    <3>2. QED
      BY <2>1, <3>1, OnExit
  <2>3. CASE meta.use # s[c].id /\ s' = [s EXCEPT ![c].old = Absent, ![c].pc = "use"]
    <3>1. ~s[c].taken
      BY <1>3, <1>a, <2>3 DEF Updated, At, Knows, Outcome
    <3>2. s'[c].pc = "use" /\ s'[c].taken = s[c].taken
      BY <1>a, <2>3 DEF Locals
    <3>3. QED
      BY <2>1, <3>1, <3>2, OnApproach
  <2>4. QED
    BY <1>3, <2>2, <2>3 DEF Updated
<1>4. QED
  BY <1>1, <1>2, <1>3

LEMMA DelTurn ==
    ASSUME TurnsInv, NEW c \in Sessions,
           Del(c) \/ DelStop(c) \/ DelCheck(c) \/ DelEntry(c) \/ DelConfig(c) \/ DelProfile(c)
    PROVE  EntriesInv' /\ Knows(c)'
<1>a. s \in [Sessions -> Locals] /\ s[c] \in Locals /\ Route(c) /\ EntriesInv /\ Knows(c)
  BY DEF TurnsInv, Types, LocalsOK
<1>b. s[c].op = "del" /\ s[c].pc \in DelLabels /\ s[c].id \in Ids /\ Profiles(c)
  BY <1>a DEF Del, DelStop, DelCheck, DelEntry, DelConfig, DelProfile, At, DelLabels, Route,
      Routed, Knows
<1>c. prof \in [Ids -> Files] /\ meta \in Metas
  BY DEF TurnsInv, Types, FilesOK
\* whatever the label, these are all that is to be shown of a deletion
<1>d. ASSUME s'[c].op = "del", s'[c].pc \in DelLabels \cup {"done"},
             s'[c].pc \in {"del_stop", "del_check", "del_entry"} =>
                 s'[c].act = (meta'.use = s'[c].id),
             s'[c].pc \in {"del_config", "del_profile"} => ~Listed(s[c].id)' /\ s'[c].id = s[c].id
      PROVE  Knows(c)'
  BY <1>d DEF Knows, Taken, Snapshots, Outcome, Profiles, Linked, Inside, MergeLabels,
      UndoLabels, DelLabels, Replacing, Switching, Listed
<1>1. CASE Del(c)
  <2>1. EntriesInv' /\ UNCHANGED meta
    BY <1>1, <1>a, EntriesKept DEF Del, files
  <2>2. CASE Exit(c, 1)
    <3>1. s'[c].pc = "done" /\ s'[c].op = "del"
      BY <1>a, <1>b, <2>2, JumpFacts DEF Exit, Jumps, Labels, Kept
    <3>2. QED
      BY <1>d, <2>1, <3>1
  <2>3. CASE \E l \in {"del_stop", "del_entry"} :
               s' = [s EXCEPT ![c].act = (meta.use = s[c].id), ![c].pc = l]
    <3>1. /\ s'[c].pc \in {"del_stop", "del_entry"} /\ s'[c].op = "del"
          /\ s'[c].id = s[c].id /\ s'[c].act = (meta.use = s[c].id)
      BY <1>a, <1>b, <2>3 DEF Locals
    <3>2. QED
      BY <1>d, <2>1, <3>1 DEF DelLabels
  <2>4. QED
    BY <1>1, <2>2, <2>3 DEF Del
<1>2. CASE DelStop(c) \/ DelCheck(c)
  <2>1. EntriesInv' /\ UNCHANGED meta /\ s[c].act = (meta.use = s[c].id)
    BY <1>2, <1>a, <1>b, EntriesKept DEF DelStop, DelCheck, files, Profiles, At
  <2>2. Jumps(c, "done") \/ Jumps(c, "del_check") \/ Jumps(c, "del_entry")
    BY <1>2 DEF DelStop, DelCheck, Exit, Jumps
  <2>3. s'[c].pc \in {"done", "del_check", "del_entry"} /\ Kept(c)
    BY <1>a, <2>2, JumpFacts DEF Labels, DelLabels
  <2>4. QED
    BY <1>b, <1>d, <2>1, <2>3 DEF Kept, DelLabels
<1>3. CASE DelEntry(c)
  <2>1. s[c].act = (meta.use = s[c].id) /\ UNCHANGED prof
    BY <1>3, <1>b DEF DelEntry, At, Profiles
  <2>2. CASE Exit(c, 1) /\ UNCHANGED meta
    <3>1. s'[c].pc = "done" /\ s'[c].op = "del"
      BY <1>a, <1>b, <2>2, JumpFacts DEF Exit, Jumps, Labels, Kept
    <3>2. QED
      BY <1>a, <1>d, <2>1, <2>2, <3>1, EntriesKept
  <2>3. CASE /\ meta' = [meta EXCEPT !.urls[s[c].id] = NoUrl,
                                     !.use = IF s[c].act THEN NoId ELSE @]
             /\ Go(c, IF s[c].act THEN "del_config" ELSE "del_profile")
    <3>1. /\ meta'.use = IF meta.use = s[c].id THEN NoId ELSE meta.use
          /\ meta'.urls[s[c].id] = NoUrl
          /\ \A i \in Ids : i # s[c].id => meta'.urls[i] = meta.urls[i]
      BY <1>b, <1>c, <2>1, <2>3 DEF Metas
    <3>2. EntriesInv'
      BY <1>a, <1>b, <2>1, <3>1 DEF EntriesInv, UseOK, Entries
    <3>3. s'[c].pc \in {"del_config", "del_profile"} /\ s'[c].op = "del" /\ s'[c].id = s[c].id
      <4>1. Jumps(c, "del_config") \/ Jumps(c, "del_profile")
        BY <2>3 DEF Jumps
      <4>2. QED
        BY <1>a, <1>b, <4>1, JumpFacts DEF Labels, DelLabels, Kept
    <3>4. ~Listed(s[c].id)'
      BY <3>1, <3>3 DEF Listed
    <3>5. QED
      BY <1>d, <3>2, <3>3, <3>4 DEF DelLabels
  <2>4. QED
    BY <1>3, <2>2, <2>3 DEF DelEntry
<1>4. CASE DelConfig(c)
  <2>1. EntriesInv' /\ UNCHANGED meta /\ ~Listed(s[c].id)
    BY <1>4, <1>a, <1>b, EntriesKept DEF DelConfig, Profiles, At
  <2>2. s'[c].pc = "del_profile" /\ s'[c].op = "del" /\ s'[c].id = s[c].id
    BY <1>4, <1>a, <1>b, JumpFacts DEF DelConfig, Jumps, Labels, DelLabels, Kept
  <2>3. ~Listed(s[c].id)'
    BY <2>1, <2>2 DEF Listed
  <2>4. QED
    BY <1>d, <2>1, <2>2, <2>3 DEF DelLabels
<1>5. CASE DelProfile(c)
  <2>1. UNCHANGED meta /\ ~Listed(s[c].id) /\ prof' = [prof EXCEPT ![s[c].id] = Absent]
    BY <1>5, <1>b DEF DelProfile, Profiles, At
  <2>2. EntriesInv'
    BY <1>a, <1>b, <1>c, <2>1 DEF EntriesInv, UseOK, Entries, Listed
  <2>3. s'[c].pc = "done" /\ s'[c].op = "del"
    BY <1>5, <1>a, <1>b, JumpFacts DEF DelProfile, Exit, Jumps, Labels, Kept
  <2>4. QED
    BY <1>d, <2>2, <2>3
<1>6. QED
  BY <1>1, <1>2, <1>3, <1>4, <1>5

(***************************************************************************)
(* The invariant: a step of one session leaves the others idle.            *)
(***************************************************************************)
LEMMA NothingKnown ==
    ASSUME NEW c \in Sessions, s'[c].pc = "idle", ~s'[c].taken
    PROVE  Knows(c)'
BY DEF Knows, Taken, Snapshots, Outcome, Profiles, Linked, Inside, MergeLabels, UndoLabels,
   Replacing

LEMMA OthersStay ==
    ASSUME Types, NEW c \in Sessions, Step(c) \/ Interrupt(c) \/ \E o \in Commands : Begin(c, o)
    PROVE  \A d \in Sessions \ {c} : s'[d] = s[d]
<1> SUFFICES ASSUME NEW d \in Sessions \ {c}
             PROVE  s'[d] = s[d]
  OBVIOUS
<1>a. s \in [Sessions -> Locals]
  BY DEF Types, LocalsOK
<1> USE <1>a DEF Go, GoWith, Exit
<1>1. CASE Merging(c)
  BY <1>1 DEF Merging, Merge, MergeTruncate, MergeWrite, MergeCheck, Restop, RestopCheck,
      Restart, RestartTun
<1>2. CASE MixinDone(c) \/ Use(c) \/ Snapshot(c) \/ Switch(c) \/ Switched(c) \/ Commit(c)
  BY <1>2 DEF MixinDone, Use, Snapshot, Switch, Switched, Commit
<1>3. CASE Undo(c) \/ UndoRm(c) \/ UndoCp(c) \/ UndoStart(c) \/ UndoPorts(c)
  BY <1>3 DEF Undo, UndoRm, UndoCp, UndoStart, UndoPorts
<1>4. CASE Add(c) \/ Update(c) \/ Download(c) \/ Check(c) \/ Store(c) \/ Enter(c)
  BY <1>4 DEF Add, Update, Download, Check, Store, Enter
<1>5. CASE Replace(c) \/ Used(c) \/ Updated(c)
  BY <1>5 DEF Replace, Used, Updated
<1>6. CASE Del(c) \/ DelStop(c) \/ DelCheck(c) \/ DelEntry(c) \/ DelConfig(c) \/ DelProfile(c)
  BY <1>6 DEF Del, DelStop, DelCheck, DelEntry, DelConfig, DelProfile
<1>7. CASE Finish(c) \/ Interrupt(c)
  BY <1>7 DEF Finish, Interrupt
<1>8. CASE \E o \in Commands : Begin(c, o)
  BY <1>8 DEF Begin
<1>9. QED
  BY <1>1, <1>2, <1>3, <1>4, <1>5, <1>6, <1>7, <1>8 DEF Step, Merging

\* A session that steps has the turn, and the others know nothing.
LEMMA OthersKnowNothing ==
    ASSUME TurnsInv, NEW c \in Sessions, \A d \in Sessions \ {c} : s'[d] = s[d],
           \A d \in Sessions \ {c} : At(d, "idle")
    PROVE  OneAtWork' /\ \A d \in Sessions \ {c} : Knows(d)'
<1>1. \A d \in Sessions \ {c} : s'[d].pc = "idle" /\ ~s'[d].taken
  BY DEF TurnsInv, Knows, Taken, At
<1>2. QED
  BY <1>1, NothingKnown DEF OneAtWork, At

LEMMA StepNotIdle ==
    ASSUME NEW c \in Sessions, Step(c)
    PROVE  s[c].pc # "idle"
BY DEF Step, At, Merge, MergeTruncate, MergeWrite, MergeCheck, Restop, RestopCheck, Restart,
   RestartTun, MixinDone, Use, Snapshot, Switch, Switched, Commit, Undo, UndoRm, UndoCp,
   UndoStart, UndoPorts, Add, Update, Download, Check, Store, Enter, Replace, Used, Updated,
   Del, DelStop, DelCheck, DelEntry, DelConfig, DelProfile, Finish

LEMMA StepTurns ==
    ASSUME TurnsInv, NEW c \in Sessions, Step(c)
    PROVE  TurnsInv'
<1>1. Types'
  BY LocalsStep, FilesStep, ServiceStep DEF TurnsInv, Types
<1>2. EntriesInv' /\ Knows(c)'
  <2>1. CASE Finish(c)
    <3>1. s'[c].pc = "idle" /\ ~s'[c].taken /\ EntriesInv'
      BY <2>1, EntriesKept DEF Finish, TurnsInv, Types, LocalsOK, files, NoSession
    <3>2. QED
      BY <3>1, NothingKnown
  <2>2. QED
    BY <2>1, MergingTurn, SwitchTurn, UndoTurn, AddTurn, UpdateTurn, DelTurn DEF Step, Merging
<1>3. ~At(c, "idle")
  BY StepNotIdle DEF At
<1>4. \A d \in Sessions \ {c} : At(d, "idle")
  BY <1>3 DEF TurnsInv, OneAtWork
<1>5. QED
  BY <1>1, <1>2, <1>4, OthersStay, OthersKnowNothing DEF TurnsInv

LEMMA BeginTurns ==
    ASSUME Serial, TurnsInv, NEW c \in Sessions, NEW o \in Commands, Begin(c, o)
    PROVE  TurnsInv'
<1>a. s[c] \in Locals /\ s \in [Sessions -> Locals] /\ ~s[c].taken /\ o \in CommandNames
  BY CommandsAssumption DEF TurnsInv, Types, LocalsOK, Knows, Taken, Begin, At
<1>1. Types'
  BY BeginTypes DEF TurnsInv
<1>2. EntriesInv'
  BY EntriesKept DEF TurnsInv, Begin
<1>3. Knows(c)'
  <2>1. CASE o \in {"use", "update", "del"}
    <3>1. s'[c].pc = o /\ s'[c].taken = s[c].taken
      BY <1>a, <2>1 DEF Begin, Locals
    <3>2. QED
      BY <1>2, <1>a, <2>1, <3>1, OnApproach
  <2>2. CASE o \in {"add", "add_use"}
    <3>1. s'[c].pc = "add" /\ s'[c].taken = s[c].taken /\ s'[c].url # NoUrl
      BY <1>a, <2>2, UrlsAssumption DEF Begin, Locals
    <3>2. QED
      BY <1>2, <1>a, <3>1, OnApproach
  <2>3. CASE o = "mixin"
    <3>1. s'[c].pc = "merge" /\ s'[c].op = "mixin" /\ UNCHANGED <<meta, prof>>
      BY <1>a, <2>3 DEF Begin, Locals
    <3>2. QED
      BY <3>1, OnMixin DEF MergeLabels
  <2>4. QED
    BY <1>a, <2>1, <2>2, <2>3 DEF CommandNames
<1>4. \A d \in Sessions \ {c} : At(d, "idle")
  BY DEF Begin
<1>5. QED
  BY <1>1, <1>2, <1>3, <1>4, OthersStay, OthersKnowNothing DEF TurnsInv

LEMMA EndTurns ==
    ASSUME TurnsInv, NEW c \in Sessions, Interrupt(c)
    PROVE  TurnsInv'
<1>1. Types' /\ EntriesInv'
  BY Ends, EntriesKept DEF TurnsInv, Interrupt, files
<1>2. s'[c].pc = "idle" /\ ~s'[c].taken
  BY DEF Interrupt, TurnsInv, Types, LocalsOK, NoSession
<1>3. \A d \in Sessions \ {c} : At(d, "idle")
  BY DEF Interrupt, TurnsInv, OneAtWork, At
<1>4. QED
  BY <1>1, <1>2, <1>3, NothingKnown, OthersStay, OthersKnowNothing DEF TurnsInv

LEMMA SameTurns ==
    ASSUME TurnsInv, UNCHANGED <<base, runtime, temp, mixin, meta, prof, s>>, Types'
    PROVE  TurnsInv'
BY DEF TurnsInv, OneAtWork, EntriesInv, Knows, Taken, Snapshots, Outcome, Profiles, Linked,
   Inside, Restored, Replacing, UseOK, Entries, At, Listed

LEMMA InitTurns == Init => TurnsInv
<1> SUFFICES ASSUME Init PROVE TurnsInv
  OBVIOUS
<1>1. Types
  BY InitTypes
<1>2. \A c \in Sessions : s[c].pc = "idle" /\ ~s[c].taken
  BY DEF Init, NoSession
<1>3. OneAtWork
  BY <1>2 DEF OneAtWork, At
<1>4. \A c \in Sessions : Knows(c)
  BY <1>2 DEF Knows, Taken, Snapshots, Outcome, Profiles, Linked, Inside, MergeLabels,
      UndoLabels, Replacing
<1>5. EntriesInv
  <2>1. CASE meta = EmptyMeta
    BY <2>1 DEF EmptyMeta, EntriesInv, UseOK, Entries, NoMeta
  <2>2. CASE \E u \in Urls :
               /\ base = File(u, "good", FALSE)
               /\ meta = [NoMeta EXCEPT !.there = TRUE, !.use = 1, !.urls[1] = u]
               /\ prof = [i \in Ids |-> IF i = 1 THEN base ELSE Absent]
    <3>1. PICK u \in Urls :
               /\ base = File(u, "good", FALSE)
               /\ meta = [NoMeta EXCEPT !.there = TRUE, !.use = 1, !.urls[1] = u]
               /\ prof = [i \in Ids |-> IF i = 1 THEN base ELSE Absent]
      BY <2>2
    <3>2. 1 \in Ids /\ u # NoUrl
      BY MaxIdAssumption, UrlsAssumption DEF Ids
    <3>3. meta.use = 1 /\ meta.urls = [i \in Ids |-> IF i = 1 THEN u ELSE NoUrl]
      BY <3>1, <3>2 DEF NoMeta
    <3>4. base # Absent
      BY <3>1 DEF File, Absent
    <3>5. QED
      BY <3>1, <3>2, <3>3, <3>4 DEF EntriesInv, UseOK, Entries
  <2>3. QED
    BY <2>1, <2>2 DEF Init
<1>6. QED
  BY <1>1, <1>3, <1>4, <1>5 DEF TurnsInv

LEMMA TurnsStep ==
    ASSUME Serial, TurnsInv, [Next]_vars
    PROVE  TurnsInv'
<1>1. ASSUME NEW k \in Slots, Die(k) PROVE TurnsInv'
  BY <1>1, DieTypes, SameTurns DEF TurnsInv, Die, files
<1>2. CASE UNCHANGED vars
  <2>1. Types'
    BY <1>2 DEF TurnsInv, Types, FilesOK, ServiceOK, LocalsOK, Route, vars
  <2>2. QED
    BY <1>2, <2>1, SameTurns DEF vars
<1>3. QED
  BY <1>1, <1>2, StepTurns, BeginTurns, EndTurns DEF Next

LEMMA TurnsInvariant ==
    ASSUME Serial
    PROVE  Spec => []TurnsInv
<1>1. TurnsInv /\ [Next]_vars => TurnsInv'
  BY TurnsStep
<1>2. QED
  BY <1>1, InitTurns, PTL DEF Spec

\* While commands run in turns the profile in use is listed at every instant, whatever
\* write fails and wherever a command is interrupted, its rollback included (sub.sh:205-278).
THEOREM UseIsListed ==
    ASSUME Serial
    PROVE  Spec => []UsedIsListed
<1>1. TurnsInv => UsedIsListed
  BY DEF TurnsInv, EntriesInv, UseOK, UsedIsListed, Listed
<1>2. QED
  BY <1>1, TurnsInvariant, PTL

\* While commands run in turns a listed profile has its file at every instant (sub.sh:122-132,
\* 166-174), under the same faults.
THEOREM EntriesHaveFiles ==
    ASSUME Serial
    PROVE  Spec => []ListedHaveFile
<1>1. TurnsInv => ListedHaveFile
  BY DEF TurnsInv, EntriesInv, Entries, ListedHaveFile, Listed
<1>2. QED
  BY <1>1, TurnsInvariant, PTL

\* A switch that fails and says that the old configuration is back has put the three files
\* back (sub.sh:205-227, 269-273), whichever write failed and whatever the kernels did.
FilesRolledBack ==
    \A c \in Sessions : Ended(c, Switching, 1) /\ s[c].taken => Restored(c)

THEOREM FilesAreBack ==
    ASSUME Serial
    PROVE  Spec => []FilesRolledBack
<1>1. TurnsInv => FilesRolledBack
  BY DEF TurnsInv, Knows, Outcome, FilesRolledBack, Ended, At
<1>2. QED
  BY <1>1, TurnsInvariant, PTL
=============================================================================
