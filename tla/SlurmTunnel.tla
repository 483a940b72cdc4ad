---------------------------- MODULE SlurmTunnel ----------------------------
(***************************************************************************)
(* The autossh tunnel of a Slurm compute node (zsh/zshrc): the shells of   *)
(* one user on one node run proxy.on and proxy.off, which find, keep,      *)
(* start, record and stop the tunnel to a login node.  Nothing serialises  *)
(* the shells, and another user of the node may run the same program.      *)
(*                                                                         *)
(* One action is one access to what shells share: reading or removing the  *)
(* two state files, one look through /proc, starting autossh, a kill, one  *)
(* rename.  A look through /proc yields what ran at one moment; what it    *)
(* returns is used later, when the processes may be others.                *)
(*                                                                         *)
(* Whether the local ports are open and the proxy answers is up to the     *)
(* network, the login node and whoever else holds the port (an ssh child   *)
(* that survived the SIGKILL of its autossh, for one): either outcome may  *)
(* be met at every look.                                                   *)
(***************************************************************************)
EXTENDS Naturals, Sequences, FiniteSets

CONSTANTS
    Shells,      \* interactive shells of the user on the node
    Pids,        \* process ids
    NoPid,       \* no process, or an absent pid file
    Hosts,       \* login nodes
    Ports,       \* values of MSE_PROXY_PORT: the current one and earlier ones
    NoCmd,       \* no command line, or an absent command file
    Candidates,  \* _mse_proxy_upstream_candidates, the order of attempts
    PrefixOf,    \* pairs of hosts the first of which begins the name of the second
    Initial      \* kinds of process that may run at the start

Commands == Hosts \X Ports
Kinds == {"managed", "legacy", "theirs", "foreign"}

ASSUME PidsAssumption == NoPid \notin Pids
ASSUME PortsAssumption == Ports # {}
ASSUME CommandAssumption == NoCmd \notin Commands
ASSUME CandidatesAssumption == Candidates \in Seq(Hosts) /\ Candidates # <<>>
ASSUME PrefixAssumption == PrefixOf \subseteq Hosts \X Hosts
ASSUME InitialAssumption == Initial \subseteq Kinds

VARIABLES
    kind,     \* what runs under each pid
    cmd,      \* login node and local port in the command line of a tunnel
    pidFile,  \* state/proxy-tunnels/<node>.pid
    cmdFile,  \* state/proxy-tunnels/<node>.command
    op,       \* the command a shell runs
    pc,       \* where it is
    then,     \* where _mse_proxy_state_tunnel_pid returns to
    back,     \* where _mse_proxy_stop_all_tunnels returns to
    nth,      \* index of the candidate being tried
    mine,     \* the shell's MSE_PROXY_PORT
    val,      \* what _mse_proxy_state_tunnel_pid printed
    have,     \* existing_pid, later started_pid
    seen,     \* pids the last look of stop_all printed, the kept one removed
    st,       \* exit status of stop_all, at the end of the command
    clean,    \* history: no other command overlapped, no look was cut short
    after     \* history: shells that held the pid when the process started

procs == <<kind, cmd, after>>
files == <<pidFile, cmdFile>>
locals == <<nth, mine, val, have, seen>>
vars == <<procs, files, op, pc, then, back, locals, st, clean>>

-----------------------------------------------------------------------------
(***************************************************************************)
(* Processes.                                                              *)
(*   managed  an autossh of the user with HostKeyAlias=mse-proxy-<node>    *)
(*   legacy   one of an earlier MSE version, known by its other options    *)
(*   theirs   a marked autossh of another user of the node                 *)
(*   foreign  any other process of the user, other autossh included        *)
(***************************************************************************)
Marked(p) == kind[p] \in {"managed", "theirs"}

\* Mutant of Listed: tunnels of the old versions are overlooked.
MarkedOnly(p) == Marked(p)

\* The processes _mse_proxy_all_tunnel_pids prints: comm autossh, and the marker or the
\* signature of the old versions in the command line.
Listed(p) == Marked(p) \/ kind[p] = "legacy"

\* Tunnels the user can end.
OwnTunnels == {p \in Pids : kind[p] \in {"managed", "legacy"}}

\* `[[ $cmdline =~ "autossh .* -L ...:<port>.* <host>" ]]`: the end is not anchored.
Matches(p, h, q) == cmd[p][2] = q /\ (cmd[p][1] = h \/ <<h, cmd[p][1]>> \in PrefixOf)

Labels == {"idle", "state", "clear", "find", "list", "term", "relist", "kill", "last",
           "unlink", "spawn", "identify", "rec_cmd", "rec_pid", "done"}

\* Every variable has the values the code can give it.
TypeOK ==
    /\ kind \in [Pids -> Kinds \cup {"none"}]
    /\ cmd \in [Pids -> Commands \cup {NoCmd}]
    /\ pidFile \in Pids \cup {NoPid}
    /\ cmdFile \in Commands \cup {NoCmd}
    /\ op \in [Shells -> {"none", "on", "off"}]
    /\ pc \in [Shells -> Labels]
    /\ then \in [Shells -> {"idle", "find", "identify", "list", "relist", "last"}]
    /\ back \in [Shells -> {"idle", "kept", "fresh", "gaveup", "off"}]
    /\ nth \in [Shells -> 1..Len(Candidates)]
    /\ mine \in [Shells -> Ports]
    /\ val \in [Shells -> Pids \cup {NoPid}]
    /\ have \in [Shells -> Pids \cup {NoPid}]
    /\ seen \in [Shells -> SUBSET Pids]
    /\ st \in [Shells -> 0..1]
    /\ clean \in [Shells -> BOOLEAN]
    /\ after \in [Pids -> SUBSET Shells]

AnyPort == CHOOSE q \in Ports : TRUE

(***************************************************************************)
(* The node as a shell finds it: tunnels of earlier sessions and versions, *)
(* of which at most one was recorded, or state files of an earlier job.    *)
(***************************************************************************)
Init ==
    /\ kind \in [Pids -> Initial \cup {"none"}]
    /\ cmd \in [Pids -> Commands \cup {NoCmd}]
    /\ \A p \in Pids : cmd[p] = NoCmd <=> kind[p] \in {"none", "foreign"}
    /\ \/ pidFile = NoPid /\ cmdFile = NoCmd
       \/ pidFile \in Pids /\ cmdFile \in Commands
    /\ op = [c \in Shells |-> "none"]
    /\ pc = [c \in Shells |-> "idle"]
    /\ then = [c \in Shells |-> "idle"]
    /\ back = [c \in Shells |-> "idle"]
    /\ nth = [c \in Shells |-> 1]
    /\ mine = [c \in Shells |-> AnyPort]
    /\ val = [c \in Shells |-> NoPid]
    /\ have = [c \in Shells |-> NoPid]
    /\ seen = [c \in Shells |-> {}]
    /\ st = [c \in Shells |-> 0]
    /\ clean = [c \in Shells |-> FALSE]
    /\ after = [p \in Pids |-> {}]

Go(c, l) == pc' = [pc EXCEPT ![c] = l]
Status(c, s) == st' = [st EXCEPT ![c] = s]

\* Call _mse_proxy_state_tunnel_pid; what follows it is label l.
AskState(c, l) == Go(c, "state") /\ then' = [then EXCEPT ![c] = l]

\* Call _mse_proxy_stop_all_tunnels and return to label r.
StopAll(c, r) == AskState(c, "list") /\ back' = [back EXCEPT ![c] = r]

(***************************************************************************)
(* After a call of stop_all.  proxy.off returns its status.  In            *)
(* _mse_proxy_start_tunnel a status of 0 goes on to record the kept tunnel *)
(* or, if the ports are free, to start one; otherwise, and after the stop  *)
(* that follows a failed start, whose status is not looked at, proxy.on    *)
(* tries the next candidate or gives up.                                   *)
(***************************************************************************)
Returned(c, s) ==
    \/ /\ back[c] = "off"
       /\ Go(c, "done") /\ Status(c, s) /\ UNCHANGED <<nth, then, back>>
    \/ /\ back[c] \in {"kept", "fresh"} /\ s = 0
       /\ Go(c, IF back[c] = "kept" THEN "rec_cmd" ELSE "spawn")
       /\ Status(c, 0) /\ UNCHANGED <<nth, then, back>>
    \/ /\ back[c] = "gaveup" \/ (back[c] # "off" /\ s # 0) \/ (back[c] = "fresh" /\ s = 0)
       /\ back' = [back EXCEPT ![c] = "idle"]
       /\ IF nth[c] < Len(Candidates)
          THEN nth' = [nth EXCEPT ![c] = @ + 1] /\ AskState(c, "find") /\ Status(c, 0)
          ELSE Go(c, "done") /\ Status(c, 1) /\ UNCHANGED <<nth, then>>

-----------------------------------------------------------------------------
(***************************************************************************)
(* Commands.                                                               *)
(***************************************************************************)
Overlap(c) == \E d \in Shells \ {c} : pc[d] # "idle"

Begin(c, o) ==
    /\ pc[c] = "idle"
    /\ op' = [op EXCEPT ![c] = o]
    /\ IF o = "on" THEN AskState(c, "find") /\ UNCHANGED back ELSE StopAll(c, "off")
    /\ \E q \in Ports : mine' = [mine EXCEPT ![c] = q]
    /\ clean' = [d \in Shells |-> d = c /\ ~Overlap(c)]
    /\ UNCHANGED <<procs, files, nth, val, have, seen, st>>

\* Back to the prompt: the locals of the command are gone.
Forget(c) ==
    /\ op' = [op EXCEPT ![c] = "none"]
    /\ Go(c, "idle")
    /\ then' = [then EXCEPT ![c] = "idle"]
    /\ back' = [back EXCEPT ![c] = "idle"]
    /\ nth' = [nth EXCEPT ![c] = 1]
    /\ mine' = [mine EXCEPT ![c] = AnyPort]
    /\ val' = [val EXCEPT ![c] = NoPid]
    /\ have' = [have EXCEPT ![c] = NoPid]
    /\ seen' = [seen EXCEPT ![c] = {}]
    /\ Status(c, 0)
    /\ clean' = [clean EXCEPT ![c] = FALSE]
    /\ after' = [p \in Pids |-> after[p] \ {c}]
    /\ UNCHANGED <<kind, cmd, files>>

Finish(c) == pc[c] = "done" /\ Forget(c)

\* Ctrl-C: files and processes stay as they are.
Interrupt(c) == pc[c] \notin {"idle", "done"} /\ Forget(c)

-----------------------------------------------------------------------------
(***************************************************************************)
(* _mse_proxy_state_tunnel_pid: the recorded pid, if the process that has  *)
(* it now runs the recorded command and carries the marker; else both      *)
(* files are removed, in a step of its own.                                *)
(***************************************************************************)
\* Mutant of StateValid: the command is not compared, a live process is enough.
StateAlive == pidFile # NoPid /\ cmdFile # NoCmd /\ kind[pidFile] # "none"

StateValid ==
    /\ pidFile # NoPid
    /\ cmdFile # NoCmd
    /\ Marked(pidFile)
    /\ cmdFile = cmd[pidFile]

ReadState(c) ==
    /\ pc[c] = "state"
    /\ IF StateValid
       THEN val' = [val EXCEPT ![c] = pidFile] /\ Go(c, then[c]) /\ then' = [then EXCEPT ![c] = "idle"]
       ELSE val' = [val EXCEPT ![c] = NoPid] /\ Go(c, "clear") /\ UNCHANGED then
    /\ UNCHANGED <<procs, files, op, back, nth, mine, have, seen, st, clean>>

\* _mse_proxy_clear_tunnel_state
ClearFiles == pidFile' = NoPid /\ cmdFile' = NoCmd

ClearState(c) ==
    /\ pc[c] = "clear"
    /\ ClearFiles
    /\ Go(c, then[c])
    /\ then' = [then EXCEPT ![c] = "idle"]
    /\ UNCHANGED <<procs, op, back, locals, st, clean>>

(***************************************************************************)
(* _mse_proxy_tunnel_pid: the recorded tunnel if it is one to this host on *)
(* this port, else the first such tunnel of the scan, which ends with what *)
(* it has at the time limit.                                               *)
(***************************************************************************)
Tunnels(c) == {p \in Pids : Marked(p) /\ Matches(p, Candidates[nth[c]], mine[c])}

FoundPids(c) == IF val[c] \in Tunnels(c) THEN {val[c]} ELSE Tunnels(c) \cup {NoPid}

Found(c, p) ==
    /\ clean' = [clean EXCEPT ![c] = @ /\ (p = NoPid => Tunnels(c) = {})]
    /\ val' = [val EXCEPT ![c] = NoPid]

\* An existing tunnel is kept if the ports are open and the proxy answers through it.
Find(c) ==
    /\ pc[c] = "find"
    /\ \E p \in FoundPids(c) :
        /\ Found(c, p)
        /\ \/ p # NoPid /\ StopAll(c, "kept") /\ have' = [have EXCEPT ![c] = p]
           \/ StopAll(c, "fresh") /\ have' = [have EXCEPT ![c] = NoPid]
    /\ UNCHANGED <<procs, files, op, nth, mine, seen, st>>

-----------------------------------------------------------------------------
(***************************************************************************)
(* _mse_proxy_stop_all_tunnels [keep_pid]: list, TERM, list again, KILL,   *)
(* list again.  _mse_proxy_all_tunnel_pids prints the recorded pid and two *)
(* scans, each with its own time limit.                                    *)
(***************************************************************************)
\* Mutant of Keep: every tunnel to the same login node is kept.
KeepAll(c) == IF back[c] = "kept" THEN Tunnels(c) ELSE {}

Keep(c) == IF back[c] = "kept" THEN {have[c]} ELSE {}

\* Mutant of Look: the blank line of an empty result counts as a pid.
BlankLook(c) ==
    LET there == {p \in Pids : Listed(p)} \ Keep(c)
    IN /\ \E got \in SUBSET there :
           /\ seen' = [seen EXCEPT ![c] = got \cup ({val[c]} \ Keep(c))]
           /\ clean' = [clean EXCEPT ![c] = @ /\ there \subseteq got]
       /\ val' = [val EXCEPT ![c] = NoPid]

Look(c) ==
    LET there == {p \in Pids : Listed(p)} \ Keep(c)
    IN /\ \E got \in SUBSET there :
           /\ seen' = [seen EXCEPT ![c] = got \cup ({val[c]} \ (Keep(c) \cup {NoPid}))]
           /\ clean' = [clean EXCEPT ![c] = @ /\ there \subseteq got]
       /\ val' = [val EXCEPT ![c] = NoPid]

\* The end of stop_all with status s: the state files go unless a tunnel is kept.
Stopped(c, s) ==
    IF back[c] = "kept" THEN Returned(c, s)
    ELSE Go(c, "unlink") /\ Status(c, s) /\ UNCHANGED <<nth, then, back>>

List(c) ==
    /\ pc[c] = "list"
    /\ Look(c)
    /\ IF seen'[c] = {} THEN Stopped(c, 0) ELSE Go(c, "term") /\ UNCHANGED <<nth, then, back, st>>
    /\ UNCHANGED <<procs, files, op, mine, have>>

\* The end of a process with everything that was its own.
Ended(S) ==
    /\ kind' = [p \in Pids |-> IF p \in S THEN "none" ELSE kind[p]]
    /\ cmd' = [p \in Pids |-> IF p \in S THEN NoCmd ELSE cmd[p]]
    /\ after' = [p \in Pids |-> IF p \in S THEN {} ELSE after[p]]

\* A signal to another user's process is refused.
Signalled(c) == {p \in seen[c] : kind[p] \in {"managed", "legacy", "foreign"}}

\* SIGTERM: autossh takes its ssh child with it, unless it hangs.
Term(c) ==
    /\ pc[c] = "term"
    /\ \E hang \in SUBSET (Signalled(c) \cap OwnTunnels) : Ended(Signalled(c) \ hang)
    /\ seen' = [seen EXCEPT ![c] = {}]
    /\ AskState(c, "relist")
    /\ UNCHANGED <<files, op, back, nth, mine, val, have, st, clean>>

Relist(c) ==
    /\ pc[c] = "relist"
    /\ Look(c)
    /\ IF seen'[c] = {} THEN Stopped(c, 0) ELSE Go(c, "kill") /\ UNCHANGED <<nth, then, back, st>>
    /\ UNCHANGED <<procs, files, op, mine, have>>

\* SIGKILL ends autossh without a word to its ssh child, which keeps the port.
Kill(c) ==
    /\ pc[c] = "kill"
    /\ Ended(Signalled(c))
    /\ seen' = [seen EXCEPT ![c] = {}]
    /\ AskState(c, "last")
    /\ UNCHANGED <<files, op, back, nth, mine, val, have, st, clean>>

LastLook(c) ==
    /\ pc[c] = "last"
    /\ LET there == {p \in Pids : Listed(p)} \ Keep(c)
       IN \E got \in SUBSET there :
            /\ Stopped(c, IF got \cup ({val[c]} \ (Keep(c) \cup {NoPid})) = {} THEN 0 ELSE 1)
            /\ clean' = [clean EXCEPT ![c] = @ /\ there \subseteq got]
    /\ val' = [val EXCEPT ![c] = NoPid]
    /\ UNCHANGED <<procs, files, op, mine, have, seen>>

Unlink(c) ==
    /\ pc[c] = "unlink"
    /\ ClearFiles
    /\ Returned(c, st[c])
    /\ UNCHANGED <<procs, op, mine, val, have, seen, clean>>

-----------------------------------------------------------------------------
(***************************************************************************)
(* _mse_proxy_start_tunnel starts and records a tunnel.                     *)
(***************************************************************************)

Born(p, k, m) ==
    /\ kind[p] = "none"
    /\ kind' = [kind EXCEPT ![p] = k]
    /\ cmd' = [cmd EXCEPT ![p] = m]
    /\ after' = [after EXCEPT ![p] = {c \in Shells : p \in seen[c] \cup {val[c], have[c]}}]

\* autossh -f returns before its ssh is connected; with GATETIME 0 it keeps trying.
Spawn(c) ==
    /\ pc[c] = "spawn"
    /\ \/ /\ \E p \in Pids : Born(p, "managed", <<Candidates[nth[c]], mine[c]>>)
          /\ AskState(c, "identify")
          /\ UNCHANGED <<nth, back, st>>
       \/ Returned(c, 1) /\ UNCHANGED procs
    /\ UNCHANGED <<files, op, mine, val, have, seen, clean>>

\* A second later: which process is it?
Identify(c) ==
    /\ pc[c] = "identify"
    /\ \E p \in FoundPids(c) :
        /\ Found(c, p)
        /\ have' = [have EXCEPT ![c] = p]
        /\ IF p = NoPid THEN StopAll(c, "gaveup")
           ELSE Go(c, "rec_cmd") /\ UNCHANGED <<then, back>>
    /\ UNCHANGED <<procs, files, op, nth, mine, seen, st>>

(***************************************************************************)
(* _mse_proxy_record_tunnel_state: refused when the process is no longer a *)
(* marked one; then two renames, the command first.  The caller that keeps *)
(* a tunnel ignores the outcome.  Where the state directory cannot be made *)
(* there are no files, and nothing to clear either.                        *)
(***************************************************************************)
NotRecorded(c) ==
    /\ IF back[c] = "kept" THEN Go(c, "done") /\ UNCHANGED <<then, back>> ELSE StopAll(c, "gaveup")
    /\ have' = [have EXCEPT ![c] = NoPid]

RecordCommand(c) ==
    /\ pc[c] = "rec_cmd"
    /\ \/ /\ Marked(have[c])
          /\ cmdFile' = cmd[have[c]]
          /\ Go(c, "rec_pid")
          /\ UNCHANGED <<pidFile, then, back, have>>
       \/ Marked(have[c]) /\ ClearFiles /\ NotRecorded(c)  \* a file could not be written
       \/ ~Marked(have[c]) /\ NotRecorded(c) /\ UNCHANGED files
    /\ UNCHANGED <<procs, op, nth, mine, val, seen, st, clean>>

\* A new tunnel must have its ports and an answer through it now, or it is stopped.
RecordPid(c) ==
    /\ pc[c] = "rec_pid"
    /\ \/ /\ pidFile' = have[c]
          /\ \/ Go(c, "done") /\ UNCHANGED <<then, back>>
             \/ back[c] # "kept" /\ StopAll(c, "gaveup")
          /\ have' = [have EXCEPT ![c] = NoPid]
          /\ UNCHANGED cmdFile
       \/ ClearFiles /\ NotRecorded(c)
    /\ UNCHANGED <<procs, op, nth, mine, val, seen, st, clean>>

Step(c) ==
    \/ ReadState(c) \/ ClearState(c) \/ Find(c)
    \/ List(c) \/ Term(c) \/ Relist(c) \/ Kill(c) \/ LastLook(c) \/ Unlink(c)
    \/ Spawn(c) \/ Identify(c) \/ RecordCommand(c) \/ RecordPid(c)

-----------------------------------------------------------------------------
(***************************************************************************)
(* The rest of the node: processes end, and others start under free pids.  *)
(***************************************************************************)
shells == <<op, pc, then, back, locals, st, clean>>

Dies(p) == kind[p] # "none" /\ Ended({p}) /\ UNCHANGED <<files, shells>>

ForeignStarts(p) == Born(p, "foreign", NoCmd) /\ UNCHANGED <<files, shells>>

Next ==
    \/ \E c \in Shells : \/ \E o \in {"on", "off"} : Begin(c, o)
                        \/ Step(c) \/ Finish(c) \/ Interrupt(c)
    \/ \E p \in Pids : Dies(p) \/ ForeignStarts(p)

Spec == Init /\ [][Next]_vars

-----------------------------------------------------------------------------
\* A command that has ended with status 0, not overlapped, every look complete.
Succeeded(c, o) == pc[c] = "done" /\ op[c] = o /\ st[c] = 0 /\ clean[c]

\* When proxy.off reports success, having run alone with complete scans, no tunnel of the
\* user is left (README.md:561; zshrc:1087).
OffLeavesNone == \A c \in Shells : Succeeded(c, "off") => OwnTunnels = {}

\* When proxy.on reports success under the same conditions the user has at most one
\* tunnel, whatever ran before on whatever port ("A compute node owns at most one MSE
\* tunnel", zshrc:1028).
OnLeavesOne == \A c \in Shells : Succeeded(c, "on") => Cardinality(OwnTunnels) <= 1

\* A process about to be signalled is a tunnel, or got a pid that was in the hands of
\* this shell when it started: no other process is ever taken for a tunnel (README.md:561,
\* "other autossh/SSH tunnels are not touched").
BystandersSafe ==
    \A c \in Shells : pc[c] \in {"term", "kill"} =>
        \A p \in seen[c] : kind[p] = "foreign" => c \in after[p]
=============================================================================
