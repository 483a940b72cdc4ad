------------------------------ MODULE SubSwitch ------------------------------
(***************************************************************************)
(* Subscriptions of tools/clashctl: the files that `clashctl sub` and      *)
(* `clashctl mixin` keep in step (profiles.yaml, the profile files,        *)
(* config.yaml, runtime.yaml, temp.yaml), and the kernel that runs one of  *)
(* them.  `sub use` takes a snapshot, switches, and rolls back if any step *)
(* of the switch fails; `sub update` and `sub add --use` end in `sub use`. *)
(*                                                                         *)
(* One action writes one file or makes one call of scripts/lib/service.sh, *)
(* which is abstracted here to what module NohupService shows of it: a     *)
(* start does nothing if a kernel is active, a stop without sudo fails on  *)
(* a kernel of root's, and service_sudo_start forks in any case.           *)
(***************************************************************************)
EXTENDS Naturals, Sequences, FiniteSets

CONSTANTS
    Sessions,      \* terminals and the cron job of `sub update --auto`
    Urls,          \* subscription links
    NoUrl,
    MaxId,         \* bound: profile ids go from 1 to MaxId
    Slots,         \* bound: kernels that can run at a time
    NoSlot,
    Commands,      \* the commands sessions run
    Fetched,       \* qualities a download may have
    Serial,        \* TRUE: a command starts only when no other is running
    Interruptible, \* sessions whose commands Ctrl-C or a closed terminal may end
    Crashes,       \* TRUE: a kernel may end on its own
    WriteFails,    \* TRUE: writing a file may fail (no space left)
    HasWget,       \* FALSE: a failed curl leaves the file of the last download
    Converts       \* TRUE: updates may be given --convert

\* add_use is `clashctl add <url>` and `sub add --use <url>`, add is `sub add <url>`.
CommandNames == {"use", "update", "add", "add_use", "del", "mixin"}
Qualities == {"good", "zero", "bad"}

ASSUME UrlsAssumption == NoUrl \notin Urls
ASSUME SlotsAssumption == NoSlot \notin Slots
ASSUME MaxIdAssumption == MaxId \in Nat \ {0}
ASSUME CommandsAssumption == Commands \subseteq CommandNames
ASSUME FetchedAssumption == Fetched \subseteq Qualities
ASSUME SwitchAssumption == {Serial, Crashes, WriteFails, HasWget, Converts} \subseteq BOOLEAN

VARIABLES
    base,     \* config.yaml: the subscription in effect
    runtime,  \* runtime.yaml: base merged with the mixin, what a kernel loads
    temp,     \* temp.yaml: downloads, and the runtime before a merge
    mixin,    \* mixin.yaml: whether it is broken, whether it enables TUN
    meta,     \* profiles.yaml: the profile in use and the link of each profile
    prof,     \* profiles/<id>.yaml
    kern,     \* the kernels that run: owner, configuration loaded, TUN device
    pidfile,  \* the kernel the pid file names
    s         \* where each session is, with the locals of its command

vars == <<base, runtime, temp, mixin, meta, prof, kern, pidfile, s>>
files == <<base, runtime, temp, mixin, meta, prof>>
service == <<kern, pidfile>>

Ids == 1..MaxId
NoId == 0

(***************************************************************************)
(* A configuration file: the subscription it comes from, whether the       *)
(* kernel accepts it, and whether it enables TUN.                          *)
(*   good   valid, with nodes          zero   valid, without a single node *)
(*   bad    refused by `$BIN_KERNEL -t`                                    *)
(***************************************************************************)
File(u, q, t) == [url |-> u, q |-> q, tun |-> t]
Absent == File(NoUrl, "absent", FALSE)
Empty == File(NoUrl, "empty", FALSE)
Files == [url : Urls \cup {NoUrl}, q : Qualities \cup {"absent", "empty"}, tun : BOOLEAN]

\* _valid_config: refuses a file without a line, else asks the kernel.
Valid(f) == f.q \in {"good", "zero"}

\* No profiles.yaml, and one that is empty.
NoMeta == [there |-> FALSE, use |-> NoId, urls |-> [i \in Ids |-> NoUrl]]
EmptyMeta == [NoMeta EXCEPT !.there = TRUE]
Listed(i) == i \in Ids /\ meta.urls[i] # NoUrl

\* Mutant: the id after the number of profiles.
NextIdByCount == Cardinality({i \in Ids : Listed(i)}) + 1

\* The id after the largest one.
NextId == CHOOSE i \in 1..(MaxId + 1) : (\A j \in Ids : Listed(j) => j < i) /\ (i = 1 \/ Listed(i - 1))

NoKernel == [owner |-> "none", conf |-> Absent, tun |-> FALSE]
Running == {k \in Slots : kern[k].owner # "none"}

\* tunstatus: the device exists.
TunUp == \E k \in Running : kern[k].tun
\* _is_tun_enabled: runtime.yaml says so.
TunEnabled == runtime.tun

NoSession == [op |-> "none", pc |-> "idle", ret |-> "idle", st |-> 0, id |-> NoId, url |-> NoUrl,
              taken |-> FALSE, snapBase |-> Absent, snapRuntime |-> Absent, snapMeta |-> NoMeta,
              old |-> Absent, act |-> FALSE, tun |-> FALSE, mtun |-> FALSE, left |-> <<>>]

Init ==
    /\ temp = Absent
    /\ mixin \in [bad : {FALSE}, tun : {FALSE}]
    /\ s = [c \in Sessions |-> NoSession]
    /\ \/ \* as deployed: no subscription yet
          /\ base = Empty /\ runtime = Absent
          /\ meta = EmptyMeta
          /\ prof = [i \in Ids |-> Absent]
          /\ kern = [k \in Slots |-> NoKernel] /\ pidfile = NoSlot
       \/ \E u \in Urls :
            /\ base = File(u, "good", FALSE) /\ runtime = base
            /\ meta = [NoMeta EXCEPT !.there = TRUE, !.use = 1, !.urls[1] = u]
            /\ prof = [i \in Ids |-> IF i = 1 THEN base ELSE Absent]
            /\ \/ kern = [k \in Slots |-> NoKernel] /\ pidfile = NoSlot
               \/ \E k \in Slots :
                    /\ kern = [j \in Slots |-> IF j # k THEN NoKernel
                                 ELSE [owner |-> "user", conf |-> runtime, tun |-> FALSE]]
                    /\ pidfile = k

-----------------------------------------------------------------------------
(***************************************************************************)
(* scripts/lib/service.sh.  Each operator relates the service before and   *)
(* after a call, and the status x it returns.                              *)
(***************************************************************************)

\* service_resolve_managed_pid: the pid file, else the only kernel there is.
Managed ==
    IF pidfile \in Running THEN pidfile
    ELSE IF \E k \in Running : Running = {k} THEN CHOOSE k \in Running : TRUE
    ELSE NoSlot

ActiveStatus == IF Managed # NoSlot THEN 0 ELSE IF Running = {} THEN 1 ELSE 2

\* service_is_active, with what it does to the pid file.
Look == pidfile' = Managed /\ UNCHANGED kern

Stop(sudo, x) ==
    \/ /\ Managed = NoSlot
       /\ x = IF Running = {} THEN 0 ELSE 2
       /\ Look
    \/ /\ Managed # NoSlot
       /\ sudo \/ kern[Managed].owner = "user"
       /\ kern' = [kern EXCEPT ![Managed] = NoKernel]
       /\ pidfile' = NoSlot
       /\ x = 0
    \/ \* not permitted: a kernel of root's, or sudo refused
       /\ Managed # NoSlot
       /\ sudo \/ kern[Managed].owner = "root"
       /\ x = 1
       /\ Look

\* A new kernel loads runtime.yaml; if it is not accepted the kernel exits, before or
\* after service_wait_active has seen it.
Start(x) ==
    \/ Managed # NoSlot /\ x = 0 /\ Look
    \/ Managed = NoSlot /\ Running # {} /\ x = 1 /\ Look
    \/ /\ Running = {} /\ Valid(runtime)
       /\ \E k \in Slots :
            /\ kern' = [kern EXCEPT ![k] = [owner |-> "user", conf |-> runtime, tun |-> FALSE]]
            /\ pidfile' = k
       /\ x = 0
    \/ Running = {} /\ x \in {0, 1} /\ Look

\* The device may fail to come up.  A kernel that exits leaves the pid file to the scan.
SudoStart(x) ==
    \/ x = 1 /\ UNCHANGED service
    \/ \E k \in Slots \ Running, t \in {FALSE, TunEnabled} :
         /\ Valid(runtime)
         /\ kern' = [kern EXCEPT ![k] = [owner |-> "root", conf |-> runtime, tun |-> t]]
         /\ pidfile' = k
         /\ x = 0
    \/ /\ \E k \in Running : Running = {k} /\ pidfile' = k
       /\ x = 0
       /\ UNCHANGED kern
    \/ /\ ~\E k \in Running : Running = {k}
       /\ pidfile' = NoSlot
       /\ x \in {0, 1}
       /\ UNCHANGED kern

-----------------------------------------------------------------------------
At(c, l) == s[c].pc = l
Go(c, l) == s' = [s EXCEPT ![c].pc = l]
GoWith(c, l, x) == s' = [s EXCEPT ![c].pc = l, ![c].st = x]
Exit(c, x) == GoWith(c, "done", x)

Begin(c, o) ==
    /\ At(c, "idle")
    /\ Serial => \A d \in Sessions : At(d, "idle")
    /\ \/ /\ o \in {"use", "update", "del"}
          /\ \E i \in Ids : s' = [s EXCEPT ![c].op = o, ![c].pc = o, ![c].id = i]
          /\ UNCHANGED mixin
       \/ /\ o \in {"add", "add_use"}
          /\ NextId \in Ids
          /\ \E u \in Urls : s' = [s EXCEPT ![c].op = o, ![c].pc = "add", ![c].url = u]
          /\ UNCHANGED mixin
       \/ \* `mixin -e`: the user edits the file, then it is merged
          /\ o = "mixin"
          /\ mixin' \in [bad : BOOLEAN, tun : BOOLEAN]
          /\ s' = [s EXCEPT ![c].op = o, ![c].pc = "merge", ![c].ret = "mixin_done"]
    /\ UNCHANGED <<base, runtime, temp, meta, prof, service>>

Finish(c) == At(c, "done") /\ s' = [s EXCEPT ![c] = NoSession] /\ UNCHANGED <<files, service>>

Interrupt(c) ==
    /\ c \in Interruptible
    /\ s[c].pc \notin {"idle", "done"}
    /\ s' = [s EXCEPT ![c] = NoSession]
    /\ UNCHANGED <<files, service>>

Die(k) ==
    /\ Crashes
    /\ kern[k].owner # "none"
    /\ kern' = [kern EXCEPT ![k] = NoKernel]
    /\ UNCHANGED <<files, pidfile, s>>

-----------------------------------------------------------------------------
(***************************************************************************)
(* _merge_config and _merge_config_restart, called from label ret.         *)
(***************************************************************************)

\* What a write leaves in a file: all of it, or a file that was only truncated.
Written(f) == {f} \cup (IF WriteFails THEN {Empty} ELSE {})

\* The mixin wins over the subscription; without config.yaml yq has nothing to merge.
Merged(f) ==
    IF f.q = "absent" THEN Empty
    ELSE File(f.url,
              IF mixin.bad \/ f.q = "bad" THEN "bad" ELSE IF f.q = "empty" THEN "zero" ELSE f.q,
              mixin.tun)

\* The old runtime is kept aside.  mtun: TUN is up before the merge.
Merge(c) ==
    /\ At(c, "merge")
    /\ temp' \in Written(IF runtime = Absent THEN Empty ELSE runtime)
    /\ s' = [s EXCEPT ![c].pc = "merge_truncate", ![c].mtun = TunUp]
    /\ UNCHANGED <<base, runtime, mixin, meta, prof, service>>

\* The shell truncates runtime.yaml before yq reads the other two files.
MergeTruncate(c) ==
    /\ At(c, "merge_truncate")
    /\ runtime' = Empty
    /\ Go(c, "merge_write")
    /\ UNCHANGED <<base, temp, mixin, meta, prof, service>>

MergeWrite(c) ==
    /\ At(c, "merge_write")
    /\ runtime' \in Written(Merged(base))
    /\ Go(c, "merge_check")
    /\ UNCHANGED <<base, temp, mixin, meta, prof, service>>

\* Mutant: a runtime that fails validation stays.
MergeCheckWithoutRollback(c) ==
    /\ At(c, "merge_check")
    /\ IF Valid(runtime) THEN Go(c, "restop") ELSE GoWith(c, s[c].ret, 1)
    /\ UNCHANGED <<files, service>>

\* A runtime that fails validation is replaced by the one kept aside.
MergeCheck(c) ==
    /\ At(c, "merge_check")
    /\ IF Valid(runtime)
       THEN Go(c, "restop") /\ UNCHANGED runtime
       ELSE runtime' \in Written(temp) /\ GoWith(c, s[c].ret, 1)
    /\ UNCHANGED <<base, temp, mixin, meta, prof, service>>

\* Mutant: the old kernel is not stopped.
RestopOnlyLooks(c) ==
    /\ At(c, "restop")
    /\ Look
    /\ Go(c, IF s[c].mtun THEN "restop_check" ELSE "restart")
    /\ UNCHANGED files

\* What the stop returned is not looked at.
Restop(c) ==
    /\ At(c, "restop")
    /\ \E x \in 0..2 : Stop(s[c].mtun, x)
    /\ Go(c, IF s[c].mtun THEN "restop_check" ELSE "restart")
    /\ UNCHANGED files

RestopCheck(c) ==
    /\ At(c, "restop_check")
    /\ Look
    /\ IF ActiveStatus = 0 THEN GoWith(c, s[c].ret, 1) ELSE Go(c, "restart")
    /\ UNCHANGED files

\* With TUN the device decides, else what service_start returned.
Restart(c) ==
    /\ At(c, "restart")
    /\ \/ TunEnabled /\ (\E x \in {0, 1} : SudoStart(x)) /\ Go(c, "restart_tun")
       \/ ~TunEnabled /\ \E x \in {0, 1} : Start(x) /\ GoWith(c, s[c].ret, x)
    /\ UNCHANGED files

RestartTun(c) ==
    /\ At(c, "restart_tun")
    /\ GoWith(c, s[c].ret, IF TunUp THEN 0 ELSE 1)
    /\ UNCHANGED <<files, service>>

MixinDone(c) == At(c, "mixin_done") /\ Go(c, "done") /\ UNCHANGED <<files, service>>

-----------------------------------------------------------------------------
(***************************************************************************)
(* sub use.  Any step of the switch that fails leads to the rollback.      *)
(***************************************************************************)
Use(c) ==
    /\ At(c, "use")
    /\ IF Listed(s[c].id) THEN Go(c, "snapshot") ELSE GoWith(c, "used", 1)
    /\ UNCHANGED <<files, service>>

\* act and tun: whether the service and the TUN device were up.
Snapshot(c) ==
    /\ At(c, "snapshot")
    /\ \/ /\ s' = [s EXCEPT ![c].pc = "switch", ![c].taken = TRUE, ![c].snapBase = base,
                            ![c].snapRuntime = runtime, ![c].snapMeta = meta,
                            ![c].act = (ActiveStatus = 0), ![c].tun = TunUp]
          /\ Look
       \/ /\ WriteFails
          /\ GoWith(c, "used", 1)
          /\ UNCHANGED service
    /\ UNCHANGED files

Switch(c) ==
    /\ At(c, "switch")
    /\ \/ /\ prof[s[c].id] # Absent
          /\ base' = prof[s[c].id]
          /\ s' = [s EXCEPT ![c].pc = "merge", ![c].ret = "switched"]
       \/ /\ prof[s[c].id] = Absent \/ WriteFails
          /\ base' = Empty
          /\ Go(c, "undo")
    /\ UNCHANGED <<runtime, temp, mixin, meta, prof, service>>

\* Mutant: nobody looks whether the kernel is active.
SwitchedUnlooked(c) ==
    /\ At(c, "switched")
    /\ \/ s[c].st = 0 /\ Go(c, "commit")
       \/ Go(c, "undo")
    /\ UNCHANGED <<files, service>>

\* The kernel must be active and its ports accept connections, which they may not.
Switched(c) ==
    /\ At(c, "switched")
    /\ Look
    /\ \/ s[c].st = 0 /\ ActiveStatus = 0 /\ Go(c, "commit")
       \/ Go(c, "undo")
    /\ UNCHANGED files

\* Mutant: the link is stored in place of the id.
CommitUrl(c) ==
    /\ At(c, "commit")
    /\ meta' = [meta EXCEPT !.use = meta.urls[s[c].id]] /\ GoWith(c, "used", 0)
    /\ UNCHANGED <<base, runtime, temp, mixin, prof, service>>

Commit(c) ==
    /\ At(c, "commit")
    /\ \/ meta.there /\ meta' = [meta EXCEPT !.use = s[c].id] /\ GoWith(c, "used", 0)
       \/ (WriteFails \/ ~meta.there) /\ Go(c, "undo") /\ UNCHANGED meta
    /\ UNCHANGED <<base, runtime, temp, mixin, prof, service>>

(***************************************************************************)
(* _sub_restore_switch.  Status 1: the old state is back, 2: it is not.    *)
(***************************************************************************)
\* Mutant: runtime.yaml is left to the next merge.
UndoWithoutRuntime(c) ==
    /\ At(c, "undo")
    /\ \E x \in 0..2 : Stop(TunEnabled, x)
    /\ s' = [s EXCEPT ![c].pc = "undo_rm", ![c].left = <<"base", "meta">>]
    /\ UNCHANGED files

\* Mutant: the kernel that failed is left running.
UndoWithoutStop(c) ==
    /\ At(c, "undo")
    /\ s' = [s EXCEPT ![c].pc = "undo_rm", ![c].left = <<"base", "runtime", "meta">>]
    /\ UNCHANGED <<files, service>>

Undo(c) ==
    /\ At(c, "undo")
    /\ \E x \in 0..2 : Stop(TunEnabled, x)
    /\ s' = [s EXCEPT ![c].pc = "undo_rm", ![c].left = <<"base", "runtime", "meta">>]
    /\ UNCHANGED files

\* rm -f, then cp from the snapshot unless there was no such file.
UndoRm(c) ==
    /\ At(c, "undo_rm")
    /\ LET f == Head(s[c].left) IN
         /\ base' = IF f = "base" THEN Absent ELSE base
         /\ runtime' = IF f = "runtime" THEN Absent ELSE runtime
         /\ meta' = IF f = "meta" THEN NoMeta ELSE meta
    /\ Go(c, "undo_cp")
    /\ UNCHANGED <<temp, mixin, prof, service>>

\* The snapshot has file f: one it has not stays removed.
Saved(c, f) ==
    /\ f = "base" => s[c].snapBase # Absent
    /\ f = "runtime" => s[c].snapRuntime # Absent
    /\ f = "meta" => s[c].snapMeta # NoMeta

UndoCp(c) ==
    /\ At(c, "undo_cp")
    /\ LET f == Head(s[c].left) IN
         \/ /\ base' = IF f = "base" THEN s[c].snapBase ELSE base
            /\ runtime' = IF f = "runtime" THEN s[c].snapRuntime ELSE runtime
            /\ meta' = IF f = "meta" THEN s[c].snapMeta ELSE meta
            /\ s' = [s EXCEPT ![c].left = Tail(@),
                              ![c].pc = IF Len(s[c].left) > 1 THEN "undo_rm" ELSE "undo_start"]
         \/ \* cp has not opened the file, or has written nothing
            /\ WriteFails /\ Saved(c, f)
            /\ GoWith(c, "used", 2)
            /\ \E opened \in BOOLEAN :
                 /\ base' = IF opened /\ f = "base" THEN Empty ELSE base
                 /\ runtime' = IF opened /\ f = "runtime" THEN Empty ELSE runtime
                 /\ meta' = IF opened /\ f = "meta" THEN EmptyMeta ELSE meta
    /\ UNCHANGED <<temp, mixin, prof, service>>

UndoStart(c) ==
    /\ At(c, "undo_start")
    /\ \/ ~s[c].act /\ GoWith(c, "used", 1) /\ UNCHANGED service
       \/ /\ s[c].act
          /\ \E x \in {0, 1} :
               /\ IF s[c].tun THEN SudoStart(x) ELSE Start(x)
               /\ IF x = 0 THEN Go(c, "undo_ports") ELSE GoWith(c, "used", 2)
    /\ UNCHANGED files

UndoPorts(c) ==
    /\ At(c, "undo_ports")
    /\ Look
    /\ \/ Running # {} /\ GoWith(c, "used", 1)
       \/ GoWith(c, "used", 2)
    /\ UNCHANGED files

-----------------------------------------------------------------------------
(***************************************************************************)
(* sub add and sub update.  Neither looks at what _download_config returns *)
(* (sub.sh:110, 310-314): what counts is whether temp.yaml validates.      *)
(***************************************************************************)

\* A link that is there is refused, or updated and used; a new one is downloaded.
Add(c) ==
    /\ At(c, "add")
    /\ \/ \E i \in Ids :
            /\ meta.urls[i] = s[c].url
            /\ IF s[c].op = "add" THEN Exit(c, 1)
               ELSE s' = [s EXCEPT ![c].op = "readd", ![c].id = i, ![c].pc = "update"]
       \/ /\ \A i \in Ids : meta.urls[i] # s[c].url
          /\ Go(c, "download")
    /\ UNCHANGED <<files, service>>

Update(c) ==
    /\ At(c, "update")
    /\ IF Listed(s[c].id)
       THEN s' = [s EXCEPT ![c].url = meta.urls[s[c].id], ![c].pc = "download"]
       ELSE Exit(c, 1)
    /\ UNCHANGED <<files, service>>

\* Raw or converted, what arrives may be of any quality.  The file stays as it was when curl
\* fails without a wget to try next, and when `sub update <id> --convert`, which asks only the
\* converter, gets no answer from it or has a file: link.
Untouched(c) == ~HasWget \/ (Converts /\ s[c].op = "update")

Download(c) ==
    /\ At(c, "download")
    /\ \/ \E q \in Fetched : temp' = File(s[c].url, q, FALSE)
       \/ temp' = Empty
       \/ Untouched(c) /\ UNCHANGED temp
    /\ Go(c, "check")
    /\ UNCHANGED <<base, runtime, mixin, meta, prof, service>>

Check(c) ==
    /\ At(c, "check")
    /\ IF ~Valid(temp) THEN Exit(c, 1)
       ELSE Go(c, IF s[c].op \in {"add", "add_use"} THEN "store" ELSE "replace")
    /\ UNCHANGED <<files, service>>

\* The file comes before the entry.  Without profiles.yaml there is no id and the
\* download is lost.
Store(c) ==
    /\ At(c, "store")
    /\ temp' = Absent
    /\ IF meta.there
       THEN /\ NextId \in Ids
            /\ prof' = [prof EXCEPT ![NextId] = temp]
            /\ s' = [s EXCEPT ![c].id = NextId, ![c].pc = "enter"]
       ELSE Exit(c, 1) /\ UNCHANGED prof
    /\ UNCHANGED <<base, runtime, mixin, meta, service>>

\* Without --use the status is that of the last test, 1 although the profile is there.
Enter(c) ==
    /\ At(c, "enter")
    /\ \/ meta' = [meta EXCEPT !.urls[s[c].id] = s[c].url]
       \/ WriteFails /\ UNCHANGED meta
    /\ IF s[c].op = "add_use" THEN Go(c, "use") ELSE Exit(c, 1)
    /\ UNCHANGED <<base, runtime, temp, mixin, prof, service>>

\* Mutant: an update does not switch to the profile in use again.
ReplaceOnly(c) ==
    /\ At(c, "replace")
    /\ prof' = [prof EXCEPT ![s[c].id] = temp]
    /\ GoWith(c, "updated", 0)
    /\ UNCHANGED <<base, runtime, temp, mixin, meta, service>>

\* The profile in use is backed up and then put in use again; any other is only
\* written.  A write that fails leaves the profile as it is and removes the backup.
Replace(c) ==
    /\ At(c, "replace")
    /\ LET i == s[c].id IN
         \/ /\ meta.use = i => prof[i] # Absent
            /\ \/ /\ prof' = [prof EXCEPT ![i] = temp]
                  /\ s' = [s EXCEPT ![c].old = IF meta.use = i THEN prof[i] ELSE Absent, ![c].st = 0,
                                    ![c].pc = IF meta.use = i THEN "use" ELSE "updated"]
               \/ /\ WriteFails
                  /\ prof' = [prof EXCEPT ![i] = Empty]
                  /\ s' = [s EXCEPT ![c].old = prof[i], ![c].st = 1, ![c].pc = "done"]
         \/ \* no backup
            /\ meta.use = i
            /\ WriteFails \/ prof[i] = Absent
            /\ Exit(c, 1)
            /\ UNCHANGED prof
    /\ UNCHANGED <<base, runtime, temp, mixin, meta, service>>

\* Mutant: an update that could not switch keeps the new profile.
UsedWithoutRestore(c) ==
    /\ At(c, "used")
    /\ Go(c, IF s[c].old # Absent /\ s[c].st = 0 THEN "updated" ELSE "done")
    /\ UNCHANGED <<files, service>>

\* An update that could not switch puts the old profile back.
Used(c) ==
    /\ At(c, "used")
    /\ LET updating == s[c].old # Absent IN
         \/ updating /\ s[c].st = 0 /\ Go(c, "updated") /\ UNCHANGED prof
         \/ /\ updating /\ s[c].st # 0
            /\ \E f \in Written(s[c].old) : prof' = [prof EXCEPT ![s[c].id] = f]
            /\ Go(c, "done")
         \/ ~updating /\ Go(c, "done") /\ UNCHANGED prof
    /\ UNCHANGED <<base, runtime, temp, mixin, meta, service>>

\* A link added again is put in use after its update, unless it was in use.
Updated(c) ==
    /\ At(c, "updated")
    /\ IF s[c].op = "readd" /\ meta.use # s[c].id
       THEN s' = [s EXCEPT ![c].old = Absent, ![c].pc = "use"]
       ELSE Exit(c, 0)
    /\ UNCHANGED <<files, service>>

-----------------------------------------------------------------------------
(***************************************************************************)
(* sub del.  act: the profile to delete is the one in use.                 *)
(***************************************************************************)
\* Mutant: the service is not stopped.
DelUnstopped(c) ==
    /\ At(c, "del")
    /\ IF ~Listed(s[c].id) THEN Exit(c, 1)
       ELSE s' = [s EXCEPT ![c].act = (meta.use = s[c].id), ![c].pc = "del_entry"]
    /\ UNCHANGED <<files, service>>

\* Mutant: the file goes first.
DelFileFirst(c) ==
    /\ At(c, "del")
    /\ IF ~Listed(s[c].id) THEN Exit(c, 1) /\ UNCHANGED prof
       ELSE /\ s' = [s EXCEPT ![c].act = (meta.use = s[c].id),
                              ![c].pc = IF meta.use = s[c].id THEN "del_stop" ELSE "del_entry"]
            /\ prof' = [prof EXCEPT ![s[c].id] = Absent]
    /\ UNCHANGED <<base, runtime, temp, mixin, meta, service>>

Del(c) ==
    /\ At(c, "del")
    /\ IF ~Listed(s[c].id) THEN Exit(c, 1)
       ELSE s' = [s EXCEPT ![c].act = (meta.use = s[c].id),
                           ![c].pc = IF meta.use = s[c].id THEN "del_stop" ELSE "del_entry"]
    /\ UNCHANGED <<files, service>>

DelStop(c) ==
    /\ At(c, "del_stop")
    /\ \E x \in 0..2 : Stop(FALSE, x) /\ IF x = 0 THEN Go(c, "del_check") ELSE Exit(c, 1)
    /\ UNCHANGED files

DelCheck(c) ==
    /\ At(c, "del_check")
    /\ Look
    /\ IF ActiveStatus = 0 THEN Exit(c, 1) ELSE Go(c, "del_entry")
    /\ UNCHANGED files

\* Mutant: the entry goes and .use keeps naming it.
DelEntryKeepsUse(c) ==
    /\ At(c, "del_entry")
    /\ meta' = [meta EXCEPT !.urls[s[c].id] = NoUrl]
    /\ Go(c, IF s[c].act THEN "del_config" ELSE "del_profile")
    /\ UNCHANGED <<base, runtime, temp, mixin, prof, service>>

DelEntry(c) ==
    /\ At(c, "del_entry")
    /\ \/ /\ meta' = [meta EXCEPT !.urls[s[c].id] = NoUrl,
                                  !.use = IF s[c].act THEN NoId ELSE @]
          /\ Go(c, IF s[c].act THEN "del_config" ELSE "del_profile")
       \/ WriteFails /\ Exit(c, 1) /\ UNCHANGED meta
    /\ UNCHANGED <<base, runtime, temp, mixin, prof, service>>

DelConfig(c) ==
    /\ At(c, "del_config")
    /\ base' = Absent /\ runtime' = Absent /\ temp' = Absent
    /\ Go(c, "del_profile")
    /\ UNCHANGED <<mixin, meta, prof, service>>

DelProfile(c) ==
    /\ At(c, "del_profile")
    /\ prof' = [prof EXCEPT ![s[c].id] = Absent]
    /\ Exit(c, 0)
    /\ UNCHANGED <<base, runtime, temp, mixin, meta, service>>

-----------------------------------------------------------------------------
Step(c) ==
    \/ Merge(c) \/ MergeTruncate(c) \/ MergeWrite(c) \/ MergeCheck(c)
    \/ Restop(c) \/ RestopCheck(c) \/ Restart(c) \/ RestartTun(c) \/ MixinDone(c)
    \/ Use(c) \/ Snapshot(c) \/ Switch(c) \/ Switched(c) \/ Commit(c)
    \/ Undo(c) \/ UndoRm(c) \/ UndoCp(c) \/ UndoStart(c) \/ UndoPorts(c)
    \/ Add(c) \/ Update(c) \/ Download(c) \/ Check(c) \/ Store(c) \/ Enter(c)
    \/ Replace(c) \/ Used(c) \/ Updated(c)
    \/ Del(c) \/ DelStop(c) \/ DelCheck(c) \/ DelEntry(c) \/ DelConfig(c) \/ DelProfile(c)
    \/ Finish(c)

Next ==
    \/ \E c \in Sessions : Step(c) \/ Interrupt(c)
    \/ \E c \in Sessions, o \in Commands : Begin(c, o)
    \/ \E k \in Slots : Die(k)

Spec == Init /\ [][Next]_vars

-----------------------------------------------------------------------------
(* Properties *)

\* Every variable keeps its range: in particular the profile in use and the session's
\* own profile are ids, never links.
TypeOK ==
    /\ {base, runtime, temp} \subseteq Files
    /\ mixin \in [bad : BOOLEAN, tun : BOOLEAN]
    /\ meta \in [there : BOOLEAN, use : Ids \cup {NoId}, urls : [Ids -> Urls \cup {NoUrl}]]
    /\ prof \in [Ids -> Files]
    /\ kern \in [Slots -> [owner : {"none", "user", "root"}, conf : Files, tun : BOOLEAN]]
    /\ pidfile \in Slots \cup {NoSlot}
    /\ \A c \in Sessions :
         /\ s[c].op \in CommandNames \cup {"none", "readd"}
         /\ s[c].id \in Ids \cup {NoId}
         /\ {s[c].snapBase, s[c].snapRuntime, s[c].old} \subseteq Files

Switching == {"use", "add_use", "update", "readd"}
Ended(c, ops, x) == At(c, "done") /\ s[c].op \in ops /\ s[c].st = x
NothingRuns == \A c \in Sessions : At(c, "idle")

\* A switch that fails and says "the old configuration is back" (sub.sh:269-273) has put
\* config.yaml, runtime.yaml and profiles.yaml back as they were, whichever step failed,
\* and a kernel of the user's runs that runtime and not the one that was given up.
RolledBack ==
    \A c \in Sessions :
        Ended(c, Switching, 1) /\ s[c].taken =>
            /\ base = s[c].snapBase /\ runtime = s[c].snapRuntime /\ meta = s[c].snapMeta
            /\ Managed # NoSlot /\ kern[Managed].owner = "user" => kern[Managed].conf = runtime

\* A switch that succeeds (sub.sh:264-278) has the profile in use, in config.yaml and,
\* merged, in runtime.yaml, and the kernel runs that: any kernel of the user's, and any
\* of root's whose TUN device is up.
InEffect ==
    \A c \in Sessions :
        Ended(c, {"use", "add_use", "readd"}, 0) =>
            /\ meta.use = s[c].id /\ base = prof[s[c].id] /\ runtime = Merged(base)
            /\ Managed # NoSlot \/ Crashes
            /\ Managed # NoSlot /\ (kern[Managed].owner = "user" \/ kern[Managed].tun)
                 => kern[Managed].conf = runtime

\* What `clashctl add` promises: the subscription is active.  The kernel that answers
\* runs it, whoever owns the kernel.
Activated ==
    \A c \in Sessions :
        Ended(c, {"add_use", "readd"}, 0) /\ Managed # NoSlot => kern[Managed].conf = runtime

\* Between commands the kernels of the user's run what runtime.yaml says: a command that
\* rewrites it (config.sh:102-221, sub.sh:205-227) restarts them, or puts it back.
KernelRunsRuntime ==
    NothingRuns => \A k \in Running : kern[k].owner = "user" => kern[k].conf = runtime

\* Between commands config.yaml is the profile in use: one that is updated is switched
\* to again (sub.sh:336), or put back.
UsedIsBase == NothingRuns /\ meta.use # NoId => base = prof[meta.use]

\* An update that fails leaves the profile as it was (sub.sh:336-341).
UpdateKeepsProfile ==
    \A c \in Sessions :
        At(c, "done") /\ s[c].op \in {"update", "readd"} /\ s[c].st # 0 /\ s[c].old # Absent
            => prof[s[c].id] = s[c].old

\* A profile holds what came from the link it is listed with, through ids that are
\* freed and given again, a shared download file and links added twice.
FromOwnLink == \A i \in Ids : Listed(i) => prof[i].url = meta.urls[i]

\* After the profile in use is deleted no kernel runs and no runtime is left to start
\* one with (sub.sh:152-170).
DeletedIsDown ==
    \A c \in Sessions : Ended(c, {"del"}, 0) /\ s[c].act => Running = {} /\ runtime = Absent

\* A listed profile has its file at every instant, a command being interrupted anywhere:
\* the file comes before the entry (sub.sh:122-132) and goes after it (sub.sh:166-174).
ListedHaveFile == \A i \in Ids : Listed(i) => prof[i] # Absent

\* The profile in use is listed at every instant, also when a rollback that puts
\* profiles.yaml back is interrupted.
UsedIsListed == meta.use # NoId => Listed(meta.use)
=============================================================================
