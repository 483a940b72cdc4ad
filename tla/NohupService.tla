---------------------------- MODULE NohupService ----------------------------
(***************************************************************************)
(* The proxy-kernel service of tools/clashctl under INIT_TYPE=nohup: one   *)
(* pid file, the process table, and the clashctl sessions (terminals, the  *)
(* cron job of `clashctl sub update --auto`, mse deploy) that run          *)
(* scripts/lib/service.sh and the commands `on`, `off` and `tun` of        *)
(* scripts/cmd against them.  Nothing in the code serialises sessions.     *)
(*                                                                         *)
(* One action is one access to what sessions share: reading, writing or    *)
(* removing the pid file, looking at one process under /proc, forking,     *)
(* signalling.  Shell statements that touch only a session's own variables *)
(* are folded into the access before them.  The functions a command calls  *)
(* (service_resolve_managed_pid, service_is_active, service_start, ...)    *)
(* are labels of the session's program counter; `ret` holds the label the  *)
(* innermost call returns to and `st` the exit status it returned.         *)
(***************************************************************************)
EXTENDS Naturals, FiniteSets

CONSTANTS
    Clients,     \* clashctl sessions
    Pids,        \* process ids
    NoPid,       \* an absent, empty or malformed pid file
    Ops,         \* the commands sessions run
    Attempts,    \* iterations of a bounded wait loop (10, 30 or 50 in the code)
    Bystanders,  \* kinds of process that are not ours and may take a free pid
    Serial,      \* TRUE: a command starts only when no other is running
    ExecWindow,  \* TRUE: a forked kernel may take long to exec
    Interruptible, \* sessions whose commands Ctrl-C or a closed terminal may end
    Crashes,     \* TRUE: a kernel may end on its own
    WriteFails   \* TRUE: writing the pid file may fail

OpNames == {"start", "stop", "restart", "active", "on", "off", "tunon", "tunoff"}
BystanderKinds == {"other", "probe"}

ASSUME PidsAssumption == NoPid \notin Pids
ASSUME OpsAssumption == Ops \subseteq OpNames
ASSUME AttemptsAssumption == Attempts \in Nat \ {0}
ASSUME BystandersAssumption == Bystanders \subseteq BystanderKinds
ASSUME InterruptibleAssumption == Interruptible \subseteq Clients
ASSUME FlagsAssumption == {Serial, ExecWindow, Crashes, WriteFails} \subseteq BOOLEAN

VARIABLES
    proc,     \* what runs under each pid
    pidfile,  \* content of $CLASH_RESOURCES_DIR/mihomo.pid
    op,       \* the command a session runs; "on" turns into "on_new" and "tunon"
              \* into "tunon2" once they have got past their first check
    pc,       \* where it is
    ret,      \* where the call in progress returns to
    st,       \* exit status of the last call that returned
    pid,      \* the caller's `local pid`: the process it started or is stopping
    rp,       \* the pid service_resolve_managed_pid has read or found
    todo,     \* /proc entries the scan has yet to look at
    tries     \* iterations left of the current wait loop

vars == <<proc, pidfile, op, pc, ret, st, pid, rp, todo, tries>>

-----------------------------------------------------------------------------
(***************************************************************************)
(* Processes.  A kernel is known by its argv: service_pid_matches asks for *)
(* $BIN_KERNEL, service_pid_matches_managed_config also for the resources  *)
(* directory and runtime.yaml.                                             *)
(*   none    the pid is free                                               *)
(*   other   a process of the user that has nothing to do with clashctl    *)
(*   probe   $BIN_KERNEL on another configuration                          *)
(*   shell   forked by service_start, argv still that of the shell         *)
(*   kernel  the nohup kernel, owned by the user                           *)
(*   root    the kernel started through sudo                               *)
(*   check   `$BIN_KERNEL -d <dir> -f runtime.yaml -t`, run by             *)
(*           _valid_config: its argv contains the three strings too        *)
(***************************************************************************)
Kinds == {"none", "other", "probe", "shell", "kernel", "root", "check"}

\* Mutant: a process counts as ours as soon as it exists, as `kill -0` would tell.
AnyArgv(k) == k # "none"

KernelArgv(k) == k \in {"probe", "kernel", "root", "check"}
Managed(k) == k \in {"kernel", "root", "check"}

\* A kernel of ours, running or about to exec.
Ours(k) == k \in {"shell", "kernel", "root"}
Kernels == {p \in Pids : Ours(proc[p])}

\* Whether kill(1), run by the user or through sudo, reaches a process.
Reachable(k, sudo) == k # "none" /\ (sudo \/ k # "root")

PlainLabels ==
    {"idle", "done", "read", "check", "unlink", "scan", "adopt", "match",
     "start_rm", "start_fork", "start_write", "start_giveup", "start_failed",
     "sudo_fork", "sudo_write", "sudo_read", "sudo_giveup",
     "term_chk", "term", "term_wait", "term_kill", "term_wait2",
     "kill", "kill_failed", "stop_wait", "stop_kill", "stop_wait2", "stop_rm",
     "validate", "validating", "ports"}
\* Labels that follow a call and look at its exit status.
ReturnLabels ==
    {"active_end", "start_dec", "start_wait", "sudo_wait", "stop_dec", "sudo_stop_dec",
     "stopped", "sudo_stopped", "started", "sudo_started", "restart_dec",
     "on_validated", "on_dec", "on_ports", "on_merged", "on_up", "ports_dec",
     "off_dec", "off_tun", "off_final", "tunon_dec", "tunon_merged", "tunoff_dec",
     "tunoff_stopped", "tunoff_merged"}
Labels == PlainLabels \cup ReturnLabels

KillLabels == {"kill", "stop_kill", "term", "term_kill"}

(***************************************************************************)
(* A pid that cannot be recycled: of a child not waited for yet, and of a  *)
(* process just verified that is about to be signalled.  The latter takes  *)
(* a moment and pids are handed out cyclically.  During the wait loops,    *)
(* which last seconds, the model does recycle pids.                        *)
(***************************************************************************)
Pinned(c) ==
    IF pc[c] \in KillLabels \cup {"validating"} THEN {pid[c]}
    ELSE IF pc[c] \in {"scan", "adopt", "stop_dec", "sudo_stop_dec"} THEN {rp[c]}
    ELSE {}

Free(q) == proc[q] = "none" /\ \A c \in Clients : q \notin Pinned(c)

\* The TUN device exists only while a kernel with the privilege to create it runs.
TunMayBeUp == \E p \in Pids : proc[p] = "root"

TypeOK ==
    /\ proc \in [Pids -> Kinds]
    /\ pidfile \in Pids \cup {NoPid}
    /\ op \in [Clients -> OpNames \cup {"none", "on_new", "tunon2"}]
    /\ pc \in [Clients -> Labels]
    /\ ret \in [Clients -> Labels]
    /\ st \in [Clients -> 0..2]
    /\ pid \in [Clients -> Pids \cup {NoPid}]
    /\ rp \in [Clients -> Pids \cup {NoPid}]
    /\ todo \in [Clients -> SUBSET Pids]
    /\ tries \in [Clients -> 0..Attempts]

-----------------------------------------------------------------------------
(***************************************************************************)
(* A pid file of an earlier boot may name anything, a process of somebody  *)
(* else included, and one kernel of an earlier release may be running.     *)
(***************************************************************************)
Init ==
    /\ proc \in [Pids -> {"none", "kernel"} \cup Bystanders]
    /\ \A p, q \in Kernels : p = q
    /\ pidfile \in Pids \cup {NoPid}
    /\ op = [c \in Clients |-> "none"]
    /\ pc = [c \in Clients |-> "idle"]
    /\ ret = [c \in Clients |-> "idle"]
    /\ st = [c \in Clients |-> 0]
    /\ pid = [c \in Clients |-> NoPid]
    /\ rp = [c \in Clients |-> NoPid]
    /\ todo = [c \in Clients |-> {}]
    /\ tries = [c \in Clients |-> 0]

Go(c, l) == pc' = [pc EXCEPT ![c] = l]
Status(c, s) == st' = [st EXCEPT ![c] = s]

\* Call service_is_active (or service_resolve_managed_pid) and return to label r.
Resolve(c, r) == Go(c, "read") /\ ret' = [ret EXCEPT ![c] = r]

\* Return from the call in progress with exit status s.
Return(c, s) == Go(c, ret[c]) /\ Status(c, s)

\* End of the command, with exit status s.
Exit(c, s) == Go(c, "done") /\ Status(c, s)

shared == <<proc, pidfile>>
locals == <<pid, rp, todo, tries>>

(***************************************************************************)
(* Commands.  First(o) is where the first call of a command returns to.    *)
(***************************************************************************)
First(o) ==
    CASE o = "start" -> "start_dec"
      [] o \in {"stop", "restart"} -> "stop_dec"
      [] o = "active" -> "active_end"
      [] o = "off" -> "off_dec"
      [] OTHER -> "idle"

Begin(c, o) ==
    /\ pc[c] = "idle"
    /\ Serial => \A d \in Clients : pc[d] = "idle"
    /\ op' = [op EXCEPT ![c] = o]
    /\ IF o = "on" THEN Go(c, "validate") /\ ret' = [ret EXCEPT ![c] = "on_validated"]
       ELSE IF o = "tunon" THEN Go(c, "tunon_dec") /\ UNCHANGED ret
       ELSE IF o = "tunoff" THEN Go(c, "tunoff_dec") /\ UNCHANGED ret
       ELSE Resolve(c, First(o))
    /\ UNCHANGED <<shared, st, locals>>

\* Back to an idle session: the locals of the command are gone.
Forget(c) ==
    /\ op' = [op EXCEPT ![c] = "none"]
    /\ pc' = [pc EXCEPT ![c] = "idle"]
    /\ ret' = [ret EXCEPT ![c] = "idle"]
    /\ st' = [st EXCEPT ![c] = 0]
    /\ pid' = [pid EXCEPT ![c] = NoPid]
    /\ rp' = [rp EXCEPT ![c] = NoPid]
    /\ todo' = [todo EXCEPT ![c] = {}]
    /\ tries' = [tries EXCEPT ![c] = 0]

Finish(c) == pc[c] = "done" /\ Forget(c) /\ UNCHANGED shared

ActiveEnd(c) ==
    /\ pc[c] = "active_end"
    /\ Go(c, "done")
    /\ UNCHANGED <<shared, op, ret, st, locals>>

-----------------------------------------------------------------------------
(***************************************************************************)
(* service_resolve_managed_pid: trust the pid file if the process it names *)
(* is a managed kernel, else remove it and look through /proc for exactly  *)
(* one.  service_is_active calls it and then looks at the process again.   *)
(***************************************************************************)

\* service_stop and service_sudo_stop take the pid as it is.
RawCall(c) == ret[c] \in {"stop_dec", "sudo_stop_dec"}

Resolved(c) ==
    IF RawCall(c) THEN Return(c, 0) ELSE Go(c, "match") /\ UNCHANGED st

ReadPid(c) ==
    /\ pc[c] = "read"
    /\ rp' = [rp EXCEPT ![c] = pidfile]
    /\ Go(c, "check")
    /\ UNCHANGED <<shared, op, ret, st, pid, todo, tries>>

CheckPid(c) ==
    /\ pc[c] = "check"
    /\ \/ /\ rp[c] \in Pids /\ Managed(proc[rp[c]])
          /\ Resolved(c)
          /\ UNCHANGED rp
       \/ /\ ~(rp[c] \in Pids /\ Managed(proc[rp[c]]))
          /\ rp' = [rp EXCEPT ![c] = NoPid]
          /\ Go(c, "unlink")
          /\ UNCHANGED st
    /\ UNCHANGED <<shared, op, ret, pid, todo, tries>>

\* Mutant: no scan of /proc once the pid file is of no use.
UnlinkWithoutScan(c) ==
    /\ pc[c] = "unlink"
    /\ pidfile' = NoPid
    /\ Go(c, "scan")
    /\ UNCHANGED <<proc, op, ret, st, pid, rp, todo, tries>>

\* rm -f the pid file; the glob of the scan is expanded right after.
Unlink(c) ==
    /\ pc[c] = "unlink"
    /\ pidfile' = NoPid
    /\ todo' = [todo EXCEPT ![c] = {p \in Pids : proc[p] # "none"}]
    /\ Go(c, "scan")
    /\ UNCHANGED <<proc, op, ret, st, pid, rp, tries>>

\* One iteration over /proc; a second match is ambiguous and ends the scan.
Scan(c) ==
    /\ pc[c] = "scan"
    /\ \E p \in todo[c] :
         IF ~Managed(proc[p])
         THEN /\ todo' = [todo EXCEPT ![c] = @ \ {p}]
              /\ UNCHANGED <<pc, st, rp>>
         ELSE IF rp[c] = NoPid
         THEN /\ rp' = [rp EXCEPT ![c] = p]
              /\ todo' = [todo EXCEPT ![c] = @ \ {p}]
              /\ UNCHANGED <<pc, st>>
         ELSE /\ rp' = [rp EXCEPT ![c] = NoPid]
              /\ todo' = [todo EXCEPT ![c] = {}]
              /\ Return(c, 2)
    /\ UNCHANGED <<shared, op, ret, pid, tries>>

\* Mutant: what the scan found is not adopted.
ScanEndWithoutAdopting(c) ==
    /\ pc[c] = "scan" /\ todo[c] = {}
    /\ Return(c, 1)
    /\ rp' = [rp EXCEPT ![c] = NoPid]
    /\ UNCHANGED <<shared, op, ret, pid, todo, tries>>

ScanEnd(c) ==
    /\ pc[c] = "scan" /\ todo[c] = {}
    /\ IF rp[c] = NoPid THEN Return(c, 1) ELSE Go(c, "adopt") /\ UNCHANGED st
    /\ UNCHANGED <<shared, op, ret, locals>>

\* service_write_pid writes a temporary file and renames it.
Adopt(c) ==
    /\ pc[c] = "adopt"
    /\ \/ /\ pidfile' = rp[c]
          /\ Resolved(c)
          /\ UNCHANGED rp
       \/ /\ WriteFails
          /\ Return(c, 1)
          /\ rp' = [rp EXCEPT ![c] = NoPid]
          /\ UNCHANGED pidfile
    /\ UNCHANGED <<proc, op, ret, pid, todo, tries>>

Match(c) ==
    /\ pc[c] = "match"
    /\ Return(c, IF Managed(proc[rp[c]]) THEN 0 ELSE 1)
    /\ rp' = [rp EXCEPT ![c] = NoPid]
    /\ UNCHANGED <<shared, op, ret, pid, todo, tries>>

-----------------------------------------------------------------------------
\* Mutant: the wait loop never counts its attempts.
WaitForever(c, l, gone, late) ==
    /\ pc[c] = l
    /\ ~(pid[c] \in Pids /\ KernelArgv(proc[pid[c]])) /\ gone
    /\ UNCHANGED <<shared, op, ret, pid, rp, todo, tries>>

\* Mutant: `attempts -ge 0` for `attempts -gt 0`, the count running below zero.
WaitOnceMore(c, l, gone, late) ==
    /\ pc[c] = l
    /\ IF ~(pid[c] \in Pids /\ KernelArgv(proc[pid[c]]))
       THEN gone /\ UNCHANGED tries
       ELSE IF tries[c] >= 0
       THEN /\ tries' = [tries EXCEPT ![c] = @ - 1]
            /\ UNCHANGED <<pc, st>>
       ELSE late /\ UNCHANGED tries
    /\ UNCHANGED <<shared, op, ret, pid, rp, todo>>

(***************************************************************************)
(* service_wait_inactive, called from label l: done once the process no    *)
(* longer has the kernel's argv, given up after Attempts looks.            *)
(***************************************************************************)
WaitInactive(c, l, gone, late) ==
    /\ pc[c] = l
    /\ IF ~(pid[c] \in Pids /\ KernelArgv(proc[pid[c]]))
       THEN gone /\ UNCHANGED tries
       ELSE IF tries[c] > 1
       THEN /\ tries' = [tries EXCEPT ![c] = @ - 1]
            /\ UNCHANGED <<pc, st>>
       ELSE late /\ UNCHANGED tries
    /\ UNCHANGED <<shared, op, ret, pid, rp, todo>>

\* A kernel may ignore SIGTERM; nothing survives SIGKILL.
Terminate(p, sudo) ==
    \/ proc' = IF Reachable(proc[p], sudo) THEN [proc EXCEPT ![p] = "none"] ELSE proc
    \/ KernelArgv(proc[p]) /\ proc' = proc

Kill(p, sudo) ==
    proc' = IF Reachable(proc[p], sudo) THEN [proc EXCEPT ![p] = "none"] ELSE proc

\* A started service that did not become active is terminated, through sudo if it
\* was started so, which sudo may refuse; then control returns to ret.
Elevated(c) == ret[c] = "sudo_giveup"

TermCheck(c) ==
    /\ pc[c] = "term_chk"
    /\ IF pid[c] \in Pids /\ KernelArgv(proc[pid[c]]) THEN Go(c, "term") ELSE Go(c, ret[c])
    /\ UNCHANGED <<shared, op, ret, st, locals>>

TermSignal(c) ==
    /\ pc[c] = "term"
    /\ Terminate(pid[c], Elevated(c))
    /\ tries' = [tries EXCEPT ![c] = Attempts]
    /\ Go(c, "term_wait")
    /\ UNCHANGED <<pidfile, op, ret, st, pid, rp, todo>>

TermWait(c) ==
    WaitInactive(c, "term_wait", Go(c, ret[c]) /\ UNCHANGED st, Go(c, "term_kill") /\ UNCHANGED st)

TermKill(c) ==
    /\ pc[c] = "term_kill"
    /\ \/ Kill(pid[c], Elevated(c))
       \/ Elevated(c) /\ UNCHANGED proc
    /\ tries' = [tries EXCEPT ![c] = Attempts]
    /\ Go(c, "term_wait2")
    /\ UNCHANGED <<pidfile, op, ret, st, pid, rp, todo>>

TermWait2(c) ==
    WaitInactive(c, "term_wait2", Go(c, ret[c]) /\ UNCHANGED st, Go(c, ret[c]) /\ UNCHANGED st)

-----------------------------------------------------------------------------
\* Mutant: an ambiguous state is no reason not to start.
StartDespiteAmbiguity(c) ==
    /\ pc[c] = "start_dec"
    /\ \/ st[c] = 0 /\ Go(c, "started") /\ UNCHANGED st
       \/ st[c] # 0 /\ Go(c, "start_rm") /\ UNCHANGED st
    /\ UNCHANGED <<shared, op, ret, locals>>

(***************************************************************************)
(* service_start: nothing to do if a kernel is active, refuse if several   *)
(* are, else fork one, record its pid and wait until it counts as active.  *)
(***************************************************************************)
StartDecide(c) ==
    /\ pc[c] = "start_dec"
    /\ \/ st[c] = 0 /\ Go(c, "started") /\ UNCHANGED st
       \/ st[c] = 2 /\ Go(c, "started") /\ Status(c, 1)
       \/ st[c] = 1 /\ Go(c, "start_rm") /\ UNCHANGED st
    /\ UNCHANGED <<shared, op, ret, locals>>

StartRm(c) ==
    /\ pc[c] = "start_rm"
    /\ pidfile' = NoPid
    /\ Go(c, "start_fork")
    /\ UNCHANGED <<proc, op, ret, st, locals>>

StartFork(c) ==
    /\ pc[c] = "start_fork"
    /\ \/ \E q \in Pids :
            /\ Free(q)
            /\ proc' = [proc EXCEPT ![q] = IF ExecWindow THEN "shell" ELSE "kernel"]
            /\ pid' = [pid EXCEPT ![c] = q]
            /\ Go(c, "start_write")
            /\ UNCHANGED st
       \/ /\ \A q \in Pids : ~Free(q)
          /\ Go(c, "started") /\ Status(c, 1)
          /\ UNCHANGED <<proc, pid>>
    /\ UNCHANGED <<pidfile, op, ret, rp, todo, tries>>

StartWrite(c) ==
    /\ pc[c] = "start_write"
    /\ \/ /\ pidfile' = pid[c]
          /\ tries' = [tries EXCEPT ![c] = Attempts]
          /\ Resolve(c, "start_wait")
       \/ /\ WriteFails
          /\ Go(c, "term_chk") /\ ret' = [ret EXCEPT ![c] = "start_failed"]
          /\ UNCHANGED <<pidfile, tries>>
    /\ UNCHANGED <<proc, op, st, pid, rp, todo>>

\* service_wait_active, for the kernel just started by service_start or service_sudo_start.
WaitActive(c, l, up, down) ==
    /\ pc[c] = l
    /\ IF st[c] = 0 THEN Go(c, up) /\ UNCHANGED <<ret, tries>>
       ELSE IF tries[c] > 1
       THEN /\ tries' = [tries EXCEPT ![c] = @ - 1]
            /\ Resolve(c, l)
       ELSE down /\ UNCHANGED tries
    /\ UNCHANGED <<shared, op, st, pid, rp, todo>>

StartWait(c) ==
    WaitActive(c, "start_wait", "started",
               Go(c, "term_chk") /\ ret' = [ret EXCEPT ![c] = "start_giveup"])

\* The kernel never became active: forget it.
StartGiveUp(c) ==
    /\ pc[c] = "start_giveup"
    /\ pidfile' = NoPid
    /\ Go(c, "started") /\ Status(c, 1)
    /\ UNCHANGED <<proc, op, ret, locals>>

\* Its pid could not be recorded: the pid file stays as it is.
StartFailed(c) ==
    /\ pc[c] = "start_failed"
    /\ Go(c, "started") /\ Status(c, 1)
    /\ UNCHANGED <<shared, op, ret, locals>>

(***************************************************************************)
(* service_sudo_start: a root shell forks the kernel without looking for a *)
(* running one.  Its failure path reads the pid to kill back from the file.*)
(* Until that shell has written the pid it and its sudo carry the kernel's *)
(* arguments in their own argv: only another session's scan at that very   *)
(* time could meet them, and it is left out.                               *)
(***************************************************************************)
SudoFork(c) ==
    /\ pc[c] = "sudo_fork"
    /\ \/ \E q \in Pids :
            /\ Free(q)
            /\ proc' = [proc EXCEPT ![q] = "root"]
            /\ pid' = [pid EXCEPT ![c] = q]
            /\ Go(c, "sudo_write")
            /\ UNCHANGED st
       \/ \* sudo refuses, or no process can be created
          /\ Go(c, "sudo_started") /\ Status(c, 1)
          /\ UNCHANGED <<proc, pid>>
    /\ UNCHANGED <<pidfile, op, ret, rp, todo, tries>>

SudoWrite(c) ==
    /\ pc[c] = "sudo_write"
    /\ \/ /\ pidfile' = pid[c]
          /\ tries' = [tries EXCEPT ![c] = Attempts]
          /\ Resolve(c, "sudo_wait")
          /\ UNCHANGED <<proc, st>>
       \/ /\ WriteFails
          /\ proc' = [proc EXCEPT ![pid[c]] = IF @ = "root" THEN "none" ELSE @]
          /\ Go(c, "sudo_started") /\ Status(c, 1)
          /\ UNCHANGED <<pidfile, ret, tries>>
    /\ UNCHANGED <<op, pid, rp, todo>>

SudoWait(c) ==
    WaitActive(c, "sudo_wait", "sudo_started", Go(c, "sudo_read") /\ UNCHANGED ret)

SudoRead(c) ==
    /\ pc[c] = "sudo_read"
    /\ pid' = [pid EXCEPT ![c] = pidfile]
    /\ Go(c, "term_chk") /\ ret' = [ret EXCEPT ![c] = "sudo_giveup"]
    /\ UNCHANGED <<shared, op, st, rp, todo, tries>>

SudoGiveUp(c) ==
    /\ pc[c] = "sudo_giveup"
    /\ pidfile' = NoPid
    /\ Go(c, "sudo_started") /\ Status(c, 1)
    /\ UNCHANGED <<proc, op, ret, locals>>

-----------------------------------------------------------------------------
(***************************************************************************)
(* service_stop, and service_sudo_stop which differs in signalling through *)
(* sudo and in returning elsewhere.                                        *)
(***************************************************************************)
StopElevated(c) == ret[c] = "sudo_stop_dec"

StopReturn(c, s) ==
    Go(c, IF StopElevated(c) THEN "sudo_stopped" ELSE "stopped") /\ Status(c, s)

StopDecide(c) ==
    /\ pc[c] \in {"stop_dec", "sudo_stop_dec"}
    /\ \/ st[c] = 1 /\ StopReturn(c, 0) /\ UNCHANGED pid
       \/ st[c] = 2 /\ StopReturn(c, 2) /\ UNCHANGED pid
       \/ st[c] = 0 /\ Go(c, "kill") /\ pid' = [pid EXCEPT ![c] = rp[c]] /\ UNCHANGED st
    /\ rp' = [rp EXCEPT ![c] = NoPid]
    /\ UNCHANGED <<shared, op, ret, todo, tries>>

\* sudo(8) may refuse to signal at all (no password given), the process alive or not.
StopSignal(c) ==
    /\ pc[c] = "kill"
    /\ \/ /\ Terminate(pid[c], StopElevated(c))
          /\ Go(c, IF Reachable(proc[pid[c]], StopElevated(c)) THEN "stop_wait" ELSE "kill_failed")
       \/ /\ StopElevated(c)
          /\ Go(c, "kill_failed")
          /\ UNCHANGED proc
    /\ tries' = [tries EXCEPT ![c] = Attempts]
    /\ UNCHANGED <<pidfile, op, ret, st, pid, rp, todo>>

\* kill failed: the process is gone, or it is not ours to signal, or sudo refused.
StopSignalFailed(c) ==
    /\ pc[c] = "kill_failed"
    /\ IF KernelArgv(proc[pid[c]]) THEN StopReturn(c, 1) ELSE Go(c, "stop_rm") /\ UNCHANGED st
    /\ UNCHANGED <<shared, op, ret, locals>>

\* Mutant: a stop that has waited long enough reports success.
StopWaitWithoutKill(c) ==
    WaitInactive(c, "stop_wait", Go(c, "stop_rm") /\ UNCHANGED st, Go(c, "stop_rm") /\ UNCHANGED st)

StopWait(c) ==
    WaitInactive(c, "stop_wait", Go(c, "stop_rm") /\ UNCHANGED st, Go(c, "stop_kill") /\ UNCHANGED st)

StopKill(c) ==
    /\ pc[c] = "stop_kill"
    /\ \/ /\ Reachable(proc[pid[c]], StopElevated(c))
          /\ Kill(pid[c], StopElevated(c))
          /\ tries' = [tries EXCEPT ![c] = Attempts]
          /\ Go(c, "stop_wait2") /\ UNCHANGED st
       \/ /\ StopElevated(c) \/ ~Reachable(proc[pid[c]], FALSE)
          /\ StopReturn(c, 1)
          /\ UNCHANGED <<proc, tries>>
    /\ UNCHANGED <<pidfile, op, ret, pid, rp, todo>>

StopWait2(c) ==
    WaitInactive(c, "stop_wait2", Go(c, "stop_rm") /\ UNCHANGED st, StopReturn(c, 1))

StopRm(c) ==
    /\ pc[c] = "stop_rm"
    /\ pidfile' = NoPid
    /\ StopReturn(c, 0)
    /\ UNCHANGED <<proc, op, ret, locals>>

-----------------------------------------------------------------------------
(***************************************************************************)
(* _valid_config on runtime.yaml runs the kernel with -t and waits for it. *)
(* Killed or not, what it says of the configuration is left open; it fails *)
(* at once if runtime.yaml is missing, no process can be created, or, for  *)
(* `on`, clashctl_require_runtime_ready refuses the installation.          *)
(***************************************************************************)
Validate(c) ==
    /\ pc[c] = "validate"
    /\ \/ /\ \E q \in Pids :
               /\ Free(q)
               /\ proc' = [proc EXCEPT ![q] = "check"]
               /\ pid' = [pid EXCEPT ![c] = q]
          /\ Go(c, "validating")
          /\ UNCHANGED st
       \/ Return(c, 1) /\ UNCHANGED <<proc, pid>>
    /\ UNCHANGED <<pidfile, op, ret, rp, todo, tries>>

Validated(c) ==
    /\ pc[c] = "validating"
    /\ proc[pid[c]] # "check"
    /\ \E s \in {0, 1} : Return(c, s)
    /\ UNCHANGED <<shared, op, ret, locals>>

MergeConfig(c, r) == Go(c, "validate") /\ ret' = [ret EXCEPT ![c] = r]

(***************************************************************************)
(* service_restart, on_service_only, off_service_only, tunon and tunoff:   *)
(* what each does with the status of the call that returned.               *)
(***************************************************************************)
Stopped(c) ==
    /\ pc[c] = "stopped"
    /\ CASE op[c] = "stop" -> Exit(c, st[c]) /\ UNCHANGED ret
         [] op[c] = "restart" ->
              IF st[c] # 0 THEN Exit(c, 1) /\ UNCHANGED ret
              ELSE Resolve(c, "restart_dec") /\ UNCHANGED st
         [] op[c] = "off" -> Resolve(c, "off_tun") /\ UNCHANGED st
         [] op[c] = "tunon" -> MergeConfig(c, "tunon_merged") /\ UNCHANGED st
         [] OTHER -> Exit(c, 1) /\ UNCHANGED ret
    /\ UNCHANGED <<shared, op, locals>>

SudoStopped(c) ==
    /\ pc[c] = "sudo_stopped"
    /\ CASE op[c] = "off" ->
              IF st[c] # 0 THEN Exit(c, 1) /\ UNCHANGED ret
              ELSE Resolve(c, "off_final") /\ UNCHANGED st
         [] op[c] = "tunoff" -> Resolve(c, "tunoff_stopped") /\ UNCHANGED st
         [] OTHER -> Go(c, "sudo_fork") /\ UNCHANGED <<ret, st>>
    /\ UNCHANGED <<shared, op, locals>>

Started(c) ==
    /\ pc[c] = "started"
    /\ CASE op[c] = "on_new" ->
              IF st[c] # 0 THEN Exit(c, 1) /\ UNCHANGED ret
              ELSE Resolve(c, "on_up") /\ UNCHANGED st
         [] op[c] = "tunoff" -> Exit(c, 0) /\ UNCHANGED ret
         [] OTHER -> Exit(c, st[c]) /\ UNCHANGED ret
    /\ UNCHANGED <<shared, op, locals>>

\* tunon: with the device missing, merge again and restart the kernel once.
SudoStarted(c) ==
    /\ pc[c] = "sudo_started"
    /\ \/ /\ op[c] = "tunon" /\ st[c] # 0
          /\ Exit(c, 1) /\ UNCHANGED <<op, ret>>
       \/ /\ op[c] = "tunon" /\ st[c] = 0
          /\ op' = [op EXCEPT ![c] = "tunon2"]
          /\ MergeConfig(c, "tunon_merged") /\ UNCHANGED st
       \/ /\ op[c] = "tunon2" \/ st[c] = 0
          /\ TunMayBeUp
          /\ Exit(c, 0) /\ UNCHANGED <<op, ret>>
       \/ /\ op[c] = "tunon2"
          /\ Exit(c, 1) /\ UNCHANGED <<op, ret>>
    /\ UNCHANGED <<shared, locals>>

RestartDecide(c) ==
    /\ pc[c] = "restart_dec"
    /\ IF st[c] = 0 THEN Exit(c, 1) /\ UNCHANGED ret ELSE Resolve(c, "start_dec") /\ UNCHANGED st
    /\ UNCHANGED <<shared, op, locals>>

OnValidated(c) ==
    /\ pc[c] = "on_validated"
    /\ IF st[c] = 0 THEN Resolve(c, "on_dec") /\ UNCHANGED st ELSE Exit(c, 1) /\ UNCHANGED ret
    /\ UNCHANGED <<shared, op, locals>>

\* A running kernel only has to open its ports; else look for free ports and start one.
OnDecide(c) ==
    /\ pc[c] = "on_dec"
    /\ IF st[c] = 0
       THEN /\ Go(c, "ports")
            /\ tries' = [tries EXCEPT ![c] = Attempts]
            /\ UNCHANGED <<op, ret>>
       ELSE /\ op' = [op EXCEPT ![c] = "on_new"]
            /\ Resolve(c, "on_ports")
            /\ UNCHANGED tries
    /\ UNCHANGED <<shared, st, pid, rp, todo>>

\* _detect_proxy_port: no free port, ports moved and configuration merged, or nothing to do.
OnPorts(c) ==
    /\ pc[c] = "on_ports"
    /\ \/ st[c] # 0 /\ Exit(c, 1) /\ UNCHANGED ret
       \/ st[c] # 0 /\ MergeConfig(c, "on_merged") /\ UNCHANGED st
       \/ Resolve(c, "start_dec") /\ UNCHANGED st
    /\ UNCHANGED <<shared, op, locals>>

\* The merged configuration counts whether it was valid or rolled back.
OnMerged(c) ==
    /\ pc[c] = "on_merged"
    /\ Resolve(c, "start_dec")
    /\ UNCHANGED <<shared, op, st, locals>>

OnUp(c) ==
    /\ pc[c] = "on_up"
    /\ IF st[c] = 0
       THEN /\ Go(c, "ports")
            /\ tries' = [tries EXCEPT ![c] = Attempts]
            /\ UNCHANGED st
       ELSE Exit(c, 1) /\ UNCHANGED tries
    /\ UNCHANGED <<shared, op, ret, pid, rp, todo>>

\* Mutant: `on` does not take down a kernel whose ports never opened.
PortsFailedKernelStays(c) == Exit(c, 1) /\ UNCHANGED ret

\* clashctl_wait_proxy_ports: ready as soon as both ports accept, hopeless once the
\* kernel is no longer active.  `on` takes down a kernel it started in vain.
PortsFailed(c) ==
    IF op[c] = "on" THEN Exit(c, 1) /\ UNCHANGED ret ELSE Resolve(c, "stop_dec") /\ UNCHANGED st

Ports(c) ==
    /\ pc[c] = "ports"
    /\ \/ Exit(c, 0) /\ UNCHANGED ret
       \/ Resolve(c, "ports_dec") /\ UNCHANGED st
    /\ UNCHANGED <<shared, op, locals>>

PortsDecide(c) ==
    /\ pc[c] = "ports_dec"
    /\ IF st[c] = 0 /\ tries[c] > 1
       THEN /\ tries' = [tries EXCEPT ![c] = @ - 1]
            /\ Go(c, "ports")
            /\ UNCHANGED <<ret, st>>
       ELSE PortsFailed(c) /\ UNCHANGED tries
    /\ UNCHANGED <<shared, op, pid, rp, todo>>

\* off: any status but 0 counts as stopped already.
OffDecide(c) ==
    /\ pc[c] = "off_dec"
    /\ IF st[c] = 0 THEN Resolve(c, "stop_dec") /\ UNCHANGED st ELSE Exit(c, 0) /\ UNCHANGED ret
    /\ UNCHANGED <<shared, op, locals>>

\* off: a kernel left after the stop may be the privileged one of TUN mode.
OffTun(c) ==
    /\ pc[c] = "off_tun"
    /\ \/ st[c] = 0 /\ TunMayBeUp /\ Resolve(c, "sudo_stop_dec")
       \/ Resolve(c, "off_final")
    /\ UNCHANGED <<shared, op, st, locals>>

OffFinal(c) ==
    /\ pc[c] = "off_final"
    /\ Exit(c, IF st[c] = 0 THEN 1 ELSE 0)
    /\ UNCHANGED <<shared, op, ret, locals>>

TunOnDecide(c) ==
    /\ pc[c] = "tunon_dec"
    /\ \/ TunMayBeUp /\ Exit(c, 0) /\ UNCHANGED ret
       \/ Resolve(c, "stop_dec") /\ UNCHANGED st
    /\ UNCHANGED <<shared, op, locals>>

\* The outcome of the merge is ignored.
TunOnMerged(c) ==
    /\ pc[c] = "tunon_merged"
    /\ IF op[c] = "tunon" THEN Go(c, "sudo_fork") /\ UNCHANGED ret ELSE Resolve(c, "sudo_stop_dec")
    /\ UNCHANGED <<shared, op, st, locals>>

TunOffDecide(c) ==
    /\ pc[c] = "tunoff_dec"
    /\ \/ Exit(c, 0) /\ UNCHANGED ret
       \/ TunMayBeUp /\ Resolve(c, "sudo_stop_dec") /\ UNCHANGED st
    /\ UNCHANGED <<shared, op, locals>>

TunOffStopped(c) ==
    /\ pc[c] = "tunoff_stopped"
    /\ IF st[c] = 0 THEN Exit(c, 1) /\ UNCHANGED ret
       ELSE MergeConfig(c, "tunoff_merged") /\ UNCHANGED st
    /\ UNCHANGED <<shared, op, locals>>

TunOffMerged(c) ==
    /\ pc[c] = "tunoff_merged"
    /\ Resolve(c, "start_dec")
    /\ UNCHANGED <<shared, op, st, locals>>

-----------------------------------------------------------------------------
(***************************************************************************)
(* The world.  A forked kernel execs; any process of ours may end on its   *)
(* own, as may a validation; a freed pid may go to somebody else's         *)
(* process; Ctrl-C or a closed terminal ends a command between any two of  *)
(* its steps, the validation it waits for with it, but not a nohup kernel. *)
(***************************************************************************)
Exec(p) ==
    /\ proc[p] = "shell"
    /\ proc' = [proc EXCEPT ![p] = "kernel"]
    /\ UNCHANGED <<pidfile, op, pc, ret, st, locals>>

Die(p) ==
    /\ \/ proc[p] \in {"shell", "probe", "check"}
       \/ Crashes /\ Ours(proc[p])
    /\ proc' = [proc EXCEPT ![p] = "none"]
    /\ UNCHANGED <<pidfile, op, pc, ret, st, locals>>

Recycle(p, k) ==
    /\ Free(p)
    /\ proc' = [proc EXCEPT ![p] = k]
    /\ UNCHANGED <<pidfile, op, pc, ret, st, locals>>

Interrupt(c) ==
    /\ c \in Interruptible
    /\ pc[c] \notin {"idle", "done"}
    /\ Forget(c)
    /\ proc' = IF pc[c] = "validating"
               THEN [proc EXCEPT ![pid[c]] = IF @ = "check" THEN "none" ELSE @]
               ELSE proc
    /\ UNCHANGED pidfile

Step(c) ==
    \/ Finish(c) \/ ActiveEnd(c)
    \/ ReadPid(c) \/ CheckPid(c) \/ Unlink(c) \/ Scan(c) \/ ScanEnd(c) \/ Adopt(c) \/ Match(c)
    \/ TermCheck(c) \/ TermSignal(c) \/ TermWait(c) \/ TermKill(c) \/ TermWait2(c)
    \/ StartDecide(c) \/ StartRm(c) \/ StartFork(c) \/ StartWrite(c) \/ StartWait(c)
    \/ StartGiveUp(c) \/ StartFailed(c)
    \/ SudoFork(c) \/ SudoWrite(c) \/ SudoWait(c) \/ SudoRead(c) \/ SudoGiveUp(c)
    \/ StopDecide(c) \/ StopSignal(c) \/ StopSignalFailed(c) \/ StopWait(c) \/ StopKill(c)
    \/ StopWait2(c) \/ StopRm(c)
    \/ Validate(c) \/ Validated(c)
    \/ Stopped(c) \/ SudoStopped(c) \/ Started(c) \/ SudoStarted(c) \/ RestartDecide(c)
    \/ OnValidated(c) \/ OnDecide(c) \/ OnPorts(c) \/ OnMerged(c) \/ OnUp(c)
    \/ Ports(c) \/ PortsDecide(c)
    \/ OffDecide(c) \/ OffTun(c) \/ OffFinal(c)
    \/ TunOnDecide(c) \/ TunOnMerged(c) \/ TunOffDecide(c) \/ TunOffStopped(c) \/ TunOffMerged(c)

World ==
    \/ \E p \in Pids : Exec(p) \/ Die(p)
    \/ \E p \in Pids, k \in Bystanders : Recycle(p, k)

Next ==
    \/ \E c \in Clients : Step(c) \/ Interrupt(c)
    \/ \E c \in Clients, o \in Ops : Begin(c, o)
    \/ World

Spec == Init /\ [][Next]_vars

(***************************************************************************)
(* A running shell keeps running, a forked kernel gets to exec or fails,   *)
(* and a validation ends.  Nothing forces a user to type commands, a       *)
(* kernel to die or a signal to be obeyed.                                 *)
(***************************************************************************)
Fairness ==
    /\ \A c \in Clients : WF_vars(Step(c))
    /\ \A p \in Pids : WF_vars(Exec(p)) /\ WF_vars(proc[p] = "check" /\ Die(p))

FairSpec == Spec /\ Fairness

-----------------------------------------------------------------------------
(* Properties *)

\* Whatever sessions do at the same time and whatever a stale pid file names, no
\* command signals a process that is not a proxy kernel (service_stop, service.sh:304-320,
\* and service_terminate_started_pid verify the argv of what they are about to signal).
BystandersSafe == [][\A p \in Pids : proc[p] = "other" => proc'[p] = "other"]_vars

\* While sessions take turns, there is never a second kernel: service_start starts one
\* only if the pid file and the scan of /proc both came up empty.
AtMostOneKernel == \A p, q \in Kernels : p = q

\* While sessions take turns, a `stop` or `off` that reports success leaves no kernel
\* running, whatever the pid file said.
StopLeavesNone ==
    \A c \in Clients :
        pc[c] = "done" /\ op[c] \in {"stop", "off"} /\ st[c] = 0 => Kernels = {}

\* While sessions take turns, service_is_active answers "not running" only if no kernel
\* runs, even though a kernel may have lost its pid file.
InactiveIsTrue ==
    \A c \in Clients : pc[c] = "done" /\ op[c] = "active" /\ st[c] = 1 => Kernels = {}

\* While sessions take turns, a start that reports failure has taken down what it
\* started (service_start, service.sh:215-224; on_service_only, on.sh:55-59).
FailedStartLeavesNone ==
    \A c \in Clients :
        pc[c] = "done" /\ op[c] \in {"start", "restart", "on_new"} /\ st[c] # 0 => Kernels = {}

\* Two sessions that run start, stop, restart and off at the same time can each start a
\* kernel (service.sh:206-211), but no session adds a second one of its own, whatever the
\* other stops meanwhile.  With a third session this fails: two that saw the same kernel
\* pass service.sh:389 both take it for gone when the third stops it, and each start one.
KernelsOfTwoSessions == Cardinality(Clients) <= 2 => Cardinality(Kernels) <= 2

\* service.sh:71-73: several kernels are refused "so callers cannot start a third instance
\* or kill the wrong process".  First half: there are never three.
NoThirdInstance == Cardinality(Kernels) <= 2

\* Second half: what a command signals is a kernel that serves, not the `-t` run of another
\* session's _valid_config.
OnlyKernelsSignalled ==
    [][\A c \in Clients :
         StopSignal(c) \/ StopKill(c) \/ TermSignal(c) \/ TermKill(c)
            => proc[pid[c]] # "check"]_vars

\* Every command ends: each of its loops is bounded, even when a kernel ignores SIGTERM,
\* dies, is slow to exec, or leaves its pid to somebody else.
CommandsEnd == \A c \in Clients : op[c] # "none" ~> op[c] = "none"
=============================================================================
