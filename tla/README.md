# Verification of my_shell_envs

TLA+ models of the parts of this repository whose behaviour depends on the order of
things: processes and files that several shells share, commands that fail half way, and
the commands that must clean up after them. Five parts are modelled and proved about: the
clashctl service and its subscriptions, the tunnel of a Slurm compute
node, `mse deploy`, and the proxychains-ng that `proxy.exec` runs. The rest is inventoried
below, with a plan.

Every definition follows a piece of code; `PROJECT.json` ("map") names the lines. A name
in `typewriter` is a definition of a module when it is in CamelCase, and a function or
file of the repository otherwise.

## 1. The system

The repository is a set of dotfiles with four programs of its own in it.

| Component | State it keeps | Operations | What is hard |
|---|---|---|---|
| clashctl service: `tools/clashctl/scripts/lib/service.sh`, `cmd/on.sh`, `off.sh`, `tun.sh` | the kernel process (mihomo), `mihomo.pid` | `service_start`, `service_sudo_start`, `service_stop`, `service_sudo_stop`, `service_restart`, `service_is_active`; `clashctl on`, `off`, `tun on/off` | no lock between terminals, cron and deploy; stale pid files, reused pids, crashes, kernels owned by root, bounded waits |
| clashctl subscriptions: `cmd/sub.sh`, `cmd/mixin.sh`, `lib/config.sh`, `lib/convert.sh` | `profiles.yaml`, `profiles/<id>.yaml`, `config.yaml`, `mixin.yaml`, `runtime.yaml`, `temp.yaml` | `sub add/use/update/del`, `mixin -e` | six files and a kernel kept in step without transactions; snapshot and rollback; every step can fail or be interrupted |
| clashctl deploy: `tools/clashctl/mse-deploy.sh`, `scripts/preflight.sh` | binaries, `state/env`, first versions of the files above | install, restart of a running service | replaces binaries under a kernel that runs |
| other clashctl commands: `secret`, `upgrade`, `ui`, `status`, `log` | none of their own | one edit or one request each | little |
| `mse` (2142 lines) | `.mse_env` preferences, links in `$HOME` with `_bak` backups, the selected steps | `deploy`, `update`, the `step_*` functions | order of network and proxy steps, partial failure, settings reused by a later run |
| Slurm tunnel of `zsh/zshrc` | two state files per node (on shared storage), autossh processes | `proxy.on`, `proxy.off` on a compute node | several shells at a time, process scans with a time limit, pids used after they were looked at |
| proxy environment of `zsh/zshrc` | environment variables | `proxy.on`, `off`, `status`, `test`, `exec` | nested shells, a user who sets the same variables |
| `tools/proxychains-ng` (C) | name table, pipes and mutex shared with forked children; proxy states and round robin offset of the process | the hooked `getaddrinfo`, `gethostbyname`, `connect` | threads and processes on one pair of pipes, processes that end, chains that share unlocked state |
| `zsh/proxy_external.zsh` | `MSE_PROXY_*` variables | endpoint discovery | grouping of candidates |
| `bin/macupdatectl` | managed block of `/etc/hosts`, update preferences, launchd services | `block`, `restore`, `status` | six privileged steps under `set -e`; round trip of the hosts file |
| `zsh/zshrc` trash and ssh wrappers, `tools/jcat` | files in the trash | move, print | little |

proxychains-ng is third-party code kept in the tree as source; it is modelled because it is
the repository's one concurrent C program and `proxy.exec` depends on it. The other vendored
and static material (jsoncons, nvim and vscode settings, conda lists, fonts, binaries) is
left aside.

**How they interact.** `mse deploy` runs the clashctl deploy script, then `clashctl on`, and
uses the proxy for its later steps. `proxy.on` in a shell of a login node calls
`clashctl on`; on a compute node it reads `runtime.yaml` through shared storage and forwards
its ports with an autossh tunnel. `proxy.exec` wraps a command in proxychains-ng with a
strict chain of that one proxy and remote DNS. `sub use`, `sub update` (also from cron) and `mixin -e`
rewrite `runtime.yaml` and restart the service. `on` may rewrite `mixin.yaml` and
`runtime.yaml` when ports are taken. Everything meets in `runtime.yaml`, the pid file and
the process table, and nothing takes a lock.

**What makes each part correct.**

- *Service*: never a second kernel; no process but a kernel is signalled; a reported
  success or failure is true of the process table; every command ends.
- *Subscriptions*: a switch is in effect or undone; the profile in use, `config.yaml`,
  `runtime.yaml` and the kernel agree between commands; a profile holds what its link
  gave; deleting leaves no proxy behind.
- *mse*: a user's file is never lost; the saved selection is the one that is reused; no
  step needs the network before the proxy is there.
- *Tunnels*: at most one tunnel per node; no foreign ssh is killed; a reported success is
  true.
- *proxychains-ng*: nobody gets the answer to another's question, an address keeps its
  name; a chain goes through the proxies its type promises.
- *Environment*: off gives back what on found, in any nesting.
- *macupdatectl*: restore undoes block after any partial run; foreign lines of the hosts
  file survive.

## 2. Modules

| Module | Models | Proofs |
|---|---|---|
| `NohupService` | the service under `INIT_TYPE=nohup` and the commands that call it | `NohupServiceProofs`, `NohupTurnsProofs` |
| `MCNohupService` | the symmetry set of its TLC instances | |
| `SubSwitch` | subscriptions and mixin, over an abstraction of the service | `SubSwitchProofs`, `SubOutcomeProofs` |
| `MCSubSwitch` | the symmetry set of its TLC instances | |
| `SlurmTunnel` | `proxy.on` and `proxy.off` of the shells of one compute node | `SlurmTunnelProofs` |
| `MCSlurmTunnel` | two login nodes, one of whose names begins the other's | |
| `MseDeploy` | `mse deploy` and `mse update`, and `mse-deploy.sh` around a running kernel | `MseDeployProofs` |
| `MCMseDeploy` | the order of steps and their files | |
| `NameTable` | abstract: what the remote DNS of proxychains-ng promises | |
| `DnsThread` | its allocator thread, with pipes, mutex, forked children | `DnsThreadProofs` (implements `NameTable`) |
| `ProxyChain` | `connect_proxy_chain`, the four chain types | |
| `Proxified` | `DnsThread` and `ProxyChain` composed: resolve a name, connect to it | `ProxifiedProofs` (still implements `NameTable`; chains) |
| `MCProxified` | configuration files and name lengths | |

### NohupService

State: `proc` (what runs under each pid), `pidfile`, and for each session its command
(`op`), program counter (`pc`), the label the innermost call returns to (`ret`), the exit
status of the last call (`st`), and the shell locals `pid`, `rp`, `todo`, `tries`.

Granularity: one action is one access to what sessions share - one read, write or removal
of the pid file, a look at one process under `/proc`, a fork, a signal. Statements that
touch only the shell's own variables are folded into the access before them. Functions are
labels: a command that calls `service_is_active` goes to label `read` with `ret` set, and
every function that ends sets `st` and jumps to `ret` (`Return`).

| Actions | Code |
|---|---|
| `ReadPid CheckPid Unlink Scan ScanEnd Adopt Match` | `service_resolve_managed_pid`, `service_find_managed_pid`, `service_is_active` |
| `StartDecide ... StartFailed` | `service_start`, nohup branch |
| `SudoFork ... SudoGiveUp` | `service_sudo_start` |
| `StopDecide ... StopRm`, `StopElevated` | `service_stop`, `service_sudo_stop` |
| `TermCheck ... TermWait2` | `service_terminate_started_pid` |
| `Validate Validated` | `_valid_config` (the kernel's `-t` run is a process of its own) |
| `On*`, `Off*`, `TunOn*`, `TunOff*`, `Ports*` | `on_service_only`, `off_service_only`, `tunon`, `tunoff`, `clashctl_wait_proxy_ports` |
| `Exec Die Recycle Interrupt` | the system: exec of a forked child, death, reuse of a pid, Ctrl-C |

A process is one of seven kinds, told apart by what the code's argv tests see: a kernel of
the user's, of root's, a forked child that is still a shell, a `-t` run, a kernel on another
configuration, an unrelated process, nothing.

Assumptions, all in the module: the caller is not root (the `_is_root` branches are not
taken); a pid is not reused between the check of a process and the signal right after it
(`Pinned`; service.sh:126 and the last sleep before :317 included), while it can be during
the wait loops, which last seconds; wait loops run `Attempts` times for the 10, 30 or 50 of
the code; the `sudo sh -c` that forks root's kernel has the kernel's arguments in its own
argv for a moment (service.sh:233), which only another session's scan at that moment could
meet, and only the kernel is modelled. sudo may refuse a start or a signal at any time.

### SubSwitch

State: the six files, the kernels with the configuration each has loaded, the pid file, and
per session a record with the place it is at and the locals of its command (the snapshot,
the backup of a profile, whether service and TUN were up).

A file is the link it came from, its quality (good, valid without nodes, refused by the
kernel, truncated, absent) and whether it enables TUN. One action writes one file or makes
one call of `service.sh`. The calls are the relations `Stop`, `Start`, `SudoStart`, `Look`:
what `NohupService` shows of the service when sessions take turns, including that a start
beside an active kernel does nothing, that a kernel of root's is not stopped without sudo,
that `service_sudo_start` forks in any case and that a kernel may exit right after its start
was seen.

| Actions | Code |
|---|---|
| `Merge MergeTruncate MergeWrite MergeCheck` | `_merge_config` |
| `Restop RestopCheck Restart RestartTun` | `_merge_config_restart` |
| `Use Snapshot Switch Switched Commit` | `_sub_use` |
| `Undo UndoRm UndoCp UndoStart UndoPorts` | `_sub_restore_switch`, `_sub_restore_file` |
| `Add Download Check Store Enter` | `sub_add` |
| `Update Download Check Replace Used Updated` | `_sub_update` |
| `Del DelStop DelCheck DelEntry DelConfig DelProfile` | `_sub_del` |

Status 1 of a switch stands for "the old configuration is back", 2 for the same message
preceded by "could not be restored" (sub.sh:270); the code returns 1 for both. `sub add`
without `--use` returns 1 when it has succeeded, because its last command is the test of
`use_after_add` (sub.sh:136); the model keeps that.

The snapshot is one action although it is three copies: with `Serial` nothing can come
between them. A download is one action: curl, wget and the converter leave a file of the
link, an empty file, or the file that was there (`Untouched`). The last happens where curl
fails and wget is missing, and, with wget too, when `sub update <id> --convert` gets no
answer from the converter or has a file: link (convert.sh:117-135); the constant `Converts`
says whether sessions use that option.

### SlurmTunnel

State: what runs under each pid (`kind`, with login node and port in `cmd`), the two state
files, and per shell its command, place and locals. A process is an autossh marked by this
version, one of an earlier version, one of another user, or anything else: what the patterns
of zshrc:730-749 tell apart.

| Actions | Code |
|---|---|
| `ReadState ClearState` | `_mse_proxy_state_tunnel_pid` (the recorded pid, checked against process and command) |
| `Find` | the adoption of a running tunnel in `_mse_proxy_start_tunnel` |
| `List Term Relist Kill LastLook Unlink` | `_mse_proxy_stop_all_tunnels` |
| `Spawn Identify RecordCommand RecordPid` | the rest of `_mse_proxy_start_tunnel`, `_mse_proxy_record_tunnel_state` |
| `Begin Forget Finish` | `_func_proxy_on`, `_func_proxy_off` |

A look through `/proc` sees what ran at one moment and may be cut short by its time limit
(zshrc:833); what it returned is used by later actions, when the pids may belong to others.
`after` records for a process which shells had its pid in hand when it started: such a
process can be signalled and nothing in the code prevents it. `clean` records that no other
command overlapped and no scan was cut short.

### MseDeploy

State: for each file of the user what is at its path and at `_bak` (a version of the
user's, a link or clone of ours, nothing), the preferences, the entries of the repository
`bin`, whether the kernel's binary there can be executed (`bin`), the kernel and whether it
runs that binary or an older one (`kern`), and the command: the step it
is at (`pos`), the selection, whether it reuses a saved one (`saved`).

| Actions | Code |
|---|---|
| `Deploy Update` | `command_deploy`, `choose_steps`, `update_from_git` |
| `Preflight Check Unpack Restart Bootstrap` | the clashctl step, which runs first, and `mse-deploy.sh` |
| `Skip Enter Clear Move Place EntryGone EntryMade` | `run_step`; `backup_and_link`, cloned repositories, `force_link` |
| `ZClear ZMove ZUnlink ZLink` | `apply_zprofile_template` |
| `Sync Open Header Key KeysDone Finish` | `sync_optional_bin_entries`, `persist_deploy_settings` |
| `Interrupt` | a signal, anywhere |
| `Write EditPrefs KernelStarts KernelEnds` | the user between commands, clashctl in another terminal at any time |

One action is one command that changes the disk, or one question asked of it. Each may fail
where the code looks at its status, and does nothing silently where the code does not.

`Check` asks for a running kernel only where the binary is executable (mse-deploy.sh:59),
and may be told that several run, which counts as none. `Unpack` may be cut short inside
`install` (preflight.sh:221), which has by then replaced the binary and sets its mode last:
the old kernel runs on beside a binary that cannot be executed, and the next deploy does not
ask. `unseen` remembers a kernel that escaped the check.

### DnsThread, ProxyChain, Proxified

`DnsThread` has the table, the mutex, the two pipes as sequences of messages, and for each
client where it is, its question and its answer. `Enter Acquire Send Refuse SendAborts
Receive Release` are `at_get_ip_for_host` and `at_get_host_for_ip`; `ServeKnown ServeNew
ServeNone ServeName ServeAborts` are `threadfunc`. A process may end at any moment (`Exits`,
a failed assertion) and leaves mutex and pipes as they are. A message is one element: header
and body go in one write, below PIPE_BUF. A name too long jumps over the initialisation of
the message whose type is asserted afterwards: an outcome either way (`Refuse`,
`SendAborts`).

`NameTable` is the abstract specification: a table in which a question is answered in one
step between call and return. The refinement maps the table to itself and a client's place
to the phase of its call (`Call`); the step is the thread's write to the answer pipe, or the
refusal of a name for its length.

`ProxyChain` has the states of the proxies and the round robin offset per process, and for
each thread its place in `connect_proxy_chain` and its locals. One action is one call of
`calc_alive`, `select_proxy`, `start_chain`, `chain_step`, `release_all`. A proxy answers or
not at every attempt; the state PLAY that `start_chain` sets and overwrites before it
returns is not seen. `Proxified` composes the two as `connect` does: an address of the
reserved subnet is turned back into its name, by a second question to the table, when the
last proxy is told where to go.

The mutex is initialised without attributes (mutex.h:7, allocator_thread.c:339), not as one
that processes share. That it excludes parent and child from each other all the same is
taken for granted (`Acquire`); whether one that waits for it is woken is left open.

## 3. Runs

| Run | Instance | Question | Distinct states |
|---|---|---|---|
| `service_turns` | 2 sessions in turns, 3 pids, crashes, interrupts, stale pids | is there ever a second kernel, is what start, stop, off and is_active report true | 12 814 |
| `service_sessions` | 2 sessions at once, 3 pids, interrupts | do two sessions get a third kernel (`KernelsOfTwoSessions`)? is a bystander signalled? | 1 087 629 |
| `service_faults` | 1 session, every command, every fault | does every command end, is a bystander signalled | 69 260 |
| `service_third` (violation) | 1 session, `tun on` | never three kernels | |
| `service_wrong` (violation) | 2 sessions, `on` and `stop` | only kernels are signalled | |
| `sub_switch` | all commands in sequence, 2 links, 2 ids, TUN | is a switch in effect or undone, do files and kernel agree | 5.5 million |
| `sub_faults` | without mixin; interrupts, crashes, failed writes | entries and files, truth of later switches | 1.2 million |
| `slurm_tunnel` | 2 shells at once, 2 pids, 2 login nodes, every fault | are reported successes true, is a bystander signalled | 3.0 million |
| `mse_deploy` | 3 steps (nvim, sqtop, clashctl), `.zshrc` and `.zprofile`, 2 versions of a file | selection, preferences, entries, files, kernel | 6.3 million |
| `proxified` | 2 threads in 1 or 2 processes, 2 names, 1 to 3 proxies, 6 configurations | does the thread implement the table, are chains whole | 1.35 million |
| `sub_active` (violation) | `add`, `mixin -e` | a subscription that was added is active | |
| `sub_download` (violation) | no wget | a profile comes from its link | |

**Bounds.** Three pids are a kernel, a second one and a process in between, and every
property that fails in this code does so with two or three. Two sessions are enough for every
check-then-act pair. `Attempts` 1 or 2 has both a loop that ends by its condition and one
that runs out. Two links and two ids make the id given again, the link added twice and the
profile not in use; two kernels are the one a command meant and the one that was there.
Links, kernels, sessions and pids are symmetric: no action compares or orders them.
`slurm_tunnel`: two pids are a tunnel and a second one or a stranger; every process, of every
kind, may be there at the start and may be replaced by any other at any time; one value of
`Ports` keeps it within minutes, the theorems hold for any. `mse_deploy`: the clone and
`.zshrc` are the two ways a file is taken over, the tool is the one kind of entry that goes;
two versions of a file make the backup that is older than the file (`MaxEdits`). `proxified`:
one name that fits every message and one that fits the request only; three proxies with
chains of two make a proxy that is skipped, one that is left and a wrap of the round robin
offset; a round robin chain of one on two proxies makes the chain that is found by wrapping,
after which the offset stays where it was; `MaxHops` 3 is
the length of the list, which only chains that overlap could exceed, and `RRLoopMax` is 1 for
the code's 14. Names, addresses and remote DNS are checked with the
strict chain of one proxy that `proxy.exec` writes, the chain types without them: the two
touch in the last step only.

**What is switched off where, and why.** Properties of sessions in turns are about
commands that do not overlap, which the code does not enforce; the runs with `Serial`
FALSE say what is left without that. `KernelsOfTwoSessions` is checked without kernel crashes
and without `on`: with a crash between service.sh:389 and :390 the second look fails, start
takes the service for inactive and forks beside a second kernel; with a concurrent `on` its
`-t` run is taken for a kernel. It speaks of two sessions because the same happens with a third
in the place of the crash: two that saw one kernel take it for gone when the third stops it, and
each start one, so that three sessions reach four kernels. `sub_faults` leaves out `mixin -e` (its states with faults
exceed what TLC does in minutes), and `sub_switch` leaves out faults. `OffLeavesNone` and
`OnLeavesOne` speak of commands that no other overlapped and whose scans were complete
(`clean`), which are all the same interleaved with everything else in the run: two `proxy.on`
at once can each stop the other's tunnel or leave two. The chain properties speak of connects
that ran alone in their process (`alone`). `UpdateKeepsSelection` and `UnwantedStaysOut` speak
of updates that had a selection to reuse: when no step is saved as enabled `mse update` runs
all of them (mse:1010). `KernelIsCurrent` excepts a kernel the check before the replacement
did not see (`unseen`): one another terminal started meanwhile, one that was not asked about,
or several. `Converts` is FALSE in the runs: with TRUE `FromOwnLink` fails (see below) and
`sub_faults` holds but has 6 million states; the theorems but that one are for either value.

CHECK_DEADLOCK is FALSE only in `proxified`: with the parent gone its children wait for ever,
as in the code.

**Fairness** is used by one property, `CommandsEnd`: a shell that can take a step takes it,
a forked child gets to exec, a `-t` run ends. No fairness is assumed of users, of a kernel
dying or of a signal being obeyed. It is checked for one session; with two the liveness
graph is too large.

**Findings.** The four violation runs show disagreements between code and documentation:

1. `service_third`: `tun on`, repeated after a failure, reaches three kernels, which the
   comment at service.sh:71 rules out: `service_sudo_start` does not look for a kernel and
   the failed stop before it is ignored.
2. `service_wrong`: a `stop` can signal the `-t` run of another session's `on`, which has
   the argv of a kernel.
3. `sub_active`: a TUN start whose device does not come up leaves a kernel of root's. After
   that `clashctl add` and `mixin -e` report success and the kernel keeps its old
   configuration, since the stop that failed is ignored (config.sh:208) and the start finds
   an active service.
4. `sub_download`: the status of a download is ignored (sub.sh:110, :311-313). `temp.yaml`
   is the download file and also holds the last runtime, so where wget is missing a
   failed `clashctl add` stores another subscription's runtime as the new profile.

Seen while modelling and not given a run, though the modules reach them:

- `sub update <id> --convert` ignores that the converter gave no answer (sub.sh:310-311,
  convert.sh:119, :135) or that the link is a file: one (convert.sh:117), and stores whatever
  valid file lies in `temp.yaml`. With `HasWget` and `Converts` TRUE TLC violates
  `FromOwnLink`: after `clashctl add` of a second link `temp.yaml` holds the merge's copy of the
  first one's runtime (config.sh:103), and `sub update 2 --convert` stores it as profile 2.
  This is `sub_download` on a machine with wget. Without an id the option does not work
  at all: `--convert` is then taken for the id (sub.sh:302).
- proxychains.conf:32-33 says that a round robin chain starts at "the proxy after the last
  proxy in the previously invoked proxy chain". Where a selection wraps, `select_proxy`
  returns proxy 0 and leaves the offset where it was (core.c:493-495). Three proxies and
  chains of two give 0 1, then 2 0, and then a chain that starts at 0 again and not at 1.
  `RoundRobinInTurn` says what the code does: in turn from the offset that was noted.
- An install cut short (preflight.sh:221) leaves the binary without its mode and the old
  kernel running; the next deploy does not ask for a kernel then (mse-deploy.sh:59), nor does
  it restart when the answer is that several run, and the old kernel outlives it.
  `KernelIsCurrent` excepts both.
- `UpdateKeepsProfile` fails when writing the profile fails (sub.sh:332-335 removes the only
  backup).
- A subscription without nodes is stored, the status of `_valid_sub_nodes` being part of the
  ignored one.
- `off` takes the ambiguous answer for "stopped".

Every property of a passing run has a mutant in `PROJECT.json`, an operator marked "Mutant"
in the module: a plausible bug of that code under which the property fails.

## 4. Proofs

TLAPS checks these for every value of the constants: any number of sessions, shells,
threads, processes and pids, any number of attempts, any links, files, steps, names and
lengths. Apart from the column "Assumes" they rest on the ASSUMEs of the modules alone,
which TLC evaluates in every run.

| Theorem | Statement | Assumes |
|---|---|---|
| `NohupServiceProofs`: `TypeCorrect` | `Spec => []TypeOK` | |
| `SignalsVerified` | `Spec => []SignalInv` | |
| `BystandersAreSafe` | `Spec => BystandersSafe` | nothing: concurrent sessions and every fault included |
| `NohupTurnsProofs`: `NeverTwoKernels` | `Spec => []AtMostOneKernel` | sessions in turns, exec is immediate, the pid file can be written, no TUN commands |
| `StopIsTrue` | `Spec => []StopLeavesNone` | the same four |
| `NotActiveIsTrue` | `Spec => []InactiveIsTrue` | the same four |
| `FailedStartIsClean` | `Spec => []FailedStartLeavesNone` | the same four |
| `TwoSessionsTwoKernels` | `Spec => []KernelsOfTwoSessions` | sessions at the same time; start, stop, restart, off and is_active; finitely many sessions, exec is immediate, the pid file can be written, no kernel crashes |
| `SubSwitchProofs`: `TypeCorrect` | `Spec => []TypeOK` | |
| `UseIsListed` | `Spec => []UsedIsListed` | commands in turns (`Serial`) |
| `EntriesHaveFiles` | `Spec => []ListedHaveFile` | in turns |
| `FilesAreBack` | `Spec => []FilesRolledBack` | in turns |
| `SubOutcomeProofs`: `DeletedRunsNowhere` | `Spec => []DeletedIsDown` | in turns |
| `FailedUpdateKeepsProfile` | `Spec => []UpdateKeepsProfile` | in turns, writes do not fail |
| `ProfilesFromTheirLinks` | `Spec => []FromOwnLink` | in turns, writes do not fail, wget is there, no `update --convert` |
| `BaseIsTheProfile` | `Spec => []UsedIsBase` | in turns, writes do not fail, no interrupts |
| `KernelsRunRuntime` | `Spec => []KernelRunsRuntime` | the same three |
| `SwitchRolledBack` | `Spec => []RolledBack` | the same three |
| `SwitchInEffect` | `Spec => []InEffect` | the same three, no kernel crashes |
| `PlainSwitchRolledBack` | `Spec => []RolledBack` | in turns, no `mixin -e` |
| `PlainSwitchInEffect` | `Spec => []InEffect` | the same two |
| `PlainAddIsActive` | `Spec => []Activated` | the same two |
| `SlurmTunnelProofs`: `TypeCorrect` | `Spec => []TypeOK` | |
| `TunnelsOnly` | `Spec => BystandersSafe` | nothing: concurrent shells, short scans |
| `OffLeavesNoTunnel` | `Spec => []OffLeavesNone` | |
| `OnLeavesOneTunnel` | `Spec => []OnLeavesOne` | |
| `MseDeployProofs`: `TypeCorrect` | `Spec => []TypeOK` | |
| `FilesAreKept` | `Spec => []UserFilesKept` | |
| `EntriesAreLast` | `Spec => EntriesGoLast` | |
| `UpdateIsFaithful` | `Spec => []UpdateKeepsSelection` | |
| `UnwantedIsOut` | `Spec => []UnwantedStaysOut` | |
| `EntriesAgree` | `Spec => []EntriesMatchPrefs` | |
| `KernelNotOld` | `Spec => []KernelIsCurrent` | |
| `DnsThreadProofs`: `Implements` | `DnsSpec => PromisedSpec` | |
| `ProxifiedProofs`: `StillPromised` | `Spec => PromisedSpec` | |
| `NameIsRight` | `Spec => []RightName` | |
| `TypeCorrect` | `Spec => []TypeOK` | |
| `ChainImplemented` | `Spec => Chain!Spec` | |
| `StrictChainIsWhole` | `Spec => []StrictIsWhole` | |
| `NoChainTurnsBack` | `Spec => []NoProxyTwice` | |
| `RoundRobinGoesRound` | `Spec => []RoundRobinInTurn` | |

**No bystander is signalled (service).** `BystandersSafe` is an action property and says
nothing of what a session knows. `SignalInv` adds, for each session, which labels each
function can return to (`ReturnsInv`), so that `stop` is the only caller that gets a pid it
will signal, and (`HeldInv`) that at every label between the check of a process and the
signal the pid held is of a process that was verified and cannot have become a bystander. A
step then signals only what `HeldInv` speaks of.

**The service in turns.** None of the four properties is inductive: that `stop` may report
success depends on what it saw many steps earlier. `TurnsInv` has three parts per session:
`Route` (which commands reach which function), `Calls` (which locals belong to which label)
and `Knows` (what the session knows of the process table at each label: the kernel, if there
is one, is the pid in its hand; no kernel is left; the pid file was of no kernel). Turns make
the knowledge stable: while one session is at work only the system moves, and it can end a
kernel but not add one. The assumptions are needed and not for convenience: with a slow exec
`service_terminate_started_pid` does not recognise the child it should end, a failed write
of the pid file makes an active service look inactive, and `tun on` does start a second
kernel.

**Two sessions at the same time.** What a session knows is then not stable: between its look
and its fork the other may start or stop a kernel. `Core` says that without `on` and TUN mode
every kernel is the user's and no `-t` run looks like one. A session has `Passed` the kernels when
its start will fork whatever is running now: the scan is beyond their pids, or the status by
which the fork is decided is already set. Only such a session forks. `Counted` bounds the
kernels by that: two at most, one while some session has passed them, none when both have. A
fork adds a kernel and uses up the pass of its session; a stop can make the other session pass
what is left, which is then one kernel fewer. The assumptions are again what the code leaves open:
a crash is a stop by nobody, which makes a session pass a kernel without the count having been
one too high; a slow exec hides a child from both sessions; a pid file that cannot be written
makes `service_is_active` fail beside a running kernel; the `-t` run of `on` is a second pid
that matches and makes the answer ambiguous.

**The subscriptions.** `TurnsInv` says of the one session at work what it knows of the files
at each label: that snapshot and `profiles.yaml` agree (`Snapshots`), which of the three
files the rollback has put back, that an id to be entered has a file and an id to be removed
no entry (`Profiles`), what a switch that ended has left (`Outcome`). It holds under every
fault; `FilesRolledBack` is the part of `RolledBack` that does.

`KernelsInv` has the fact on which everything about kernels turns: a kernel of the user's is
the only kernel. `service_sudo_start` is the one call that forks without looking, and a
session comes to it only after a stop with sudo, or after TUN was up, which makes the kernels
root's (`Switches`). `UpdatesInv` and `LinksInv` follow an update's backup and the link of
what is in `temp.yaml`. The id that `NextId` gives is new: it is the one proof that goes by
well-founded induction over ids. `BasisInv` follows `config.yaml`: it is the profile in use,
or its old version while that is updated, or the profile switched to. `LoadInv` follows which
file a kernel has loaded: `runtime.yaml`, the copy kept in `temp.yaml` while that is merged,
the snapshot while it is restored. `EffectInv` adds what a successful merge has shown: where
TUN was not up before, a TUN device that is up later belongs to the kernel just started;
where it was, the restart went on only when no kernel answered any more.

The assumptions mark what the code does not protect: given the fault, TLC finds the property
violated. An interrupt between two writes, or a write that fails, leaves `config.yaml`,
`runtime.yaml` and kernel out of step until the next switch (`UsedIsBase`,
`KernelRunsRuntime`); with interrupts and a mixin that turns TUN on, `RolledBack` fails too,
and with crashes and such a mixin `InEffect` does: a kernel of root's on an older
configuration can be the one that is left. Without `mixin -e` both hold under every fault: `sub_faults`
checks it and `PlainInv` proves it. TUN is then never on, so that sudo is never used and no kernel
is root's (`NoTun`); a stop leaves no kernel and a start loads `runtime.yaml`. `PlainInv` says nothing
of the files between commands, which an interrupt or a failed write leaves out of step, but only
what a switch has reached at each label on its way to the new configuration (`Forward`) or back
(`Back`), from whatever it found. With it `PlainAddIsActive` shows that the finding
`sub_active` needs a mixin with TUN. `FromOwnLink` without wget is the finding `sub_download`;
with `--convert` it fails as described above.

**The tunnel.** Here pids can be reused at any moment, so nothing a shell holds stays true
of the process table. What stays true is history: `Held` says of every pid a shell will
signal that the process under it was a tunnel when it was looked at, or started after that
(`after`), and `BystandersSafe` excepts only the latter. For the other two, `Sound` has
`Control` (labels and locals), `OffStops` (what a shell that ran alone with complete scans
knows after each look: every tunnel is in its list, none is left, none but the one in its
hand) and `Alone` (a shell whose command no other overlapped is the only one not idle).

**mse deploy.** The invariant has seven parts. `Places` is the heart of `FilesAreKept`: at
every label of the take-over of a file it says whether the newest version of the user's is
at the path or at its backup, and that a move is reached only when nothing newer would be
overwritten. `RanOK` counts the steps run as those of the selection before `pos`, whatever
their order. `PrefsOK` relates a preferences file cut short after any key to the selection
it was written from, which is what keeps unwanted steps out. `EntriesOK`, `KernelOK`,
`Flags` and `FilesInv` do the same for entries, kernel, flags and types.

**The allocator thread.** `Implements` is a refinement: each step of `DnsThread` is a step
of `NameTable` or leaves it as it was, under the mapping of section 2. The invariant it
needs, `DnsInv`, is `DnsTypeOK`, `Mutex` (one client of a family of processes past the lock,
unless a process ended holding it, and then none), `Messages` (at most one message is
under way, it is the request of the client that waits or the answer to it) and `Fitting` (a
name in the table has a length that the request could carry, so that refusing a longer one
is an answer the table allows).

**The composition.** `Proxified` adds a second question per connect and the chains between
the two. `ConnectInv` adds to `DnsInv` that answers stay true because the table is only
appended to (`Truthful`), and that a thread that asks for a name asks for the address it was
given for its own (`Asks`, `Goes`). The steps of the chains leave the table alone;
the end of a connect resets the client, which the mapping sees as the end of its call. In the
other direction a step of the table leaves the chains alone, so that `Proxified` implements
`ProxyChain` as it stands (`ChainImplemented`).

For the chain properties `ChainInv` has three parts. `ChainTypes` bounds offsets and loop
counts by label. `LoneInv` is about a thread whose chain no other of its process overlapped:
the others are idle, the busy proxies of the process are those it went through (so that a
proxy it selects, being in play, is a new one), a dynamic or strict chain has them in the order
of the list, a strict one without a gap, and a round robin chain (`GoesRound`) has them in
turn from the place it started at, with every proxy in play still ahead of it and of the
offset (`OnTheWay`), and of the length its label says. `StrictMends` is about the
process and not the chain: in a strict chain no proxy stays down or blocked past the end of a
connect, which is why the next chain has the whole list again. Where
the next round robin chain starts follows from the offset and not from the last proxy, which
lie apart once a selection has wrapped: that is why `RoundRobinInTurn` is about the order
within a chain.

Every inductive invariant was checked by TLC as an invariant of the component's run before
it was proved. Every property of a passing run has its theorem but one: `CommandsEnd`, since
liveness is out of the prover's reach. That an earlier `KernelsOfTwoSessions`, stated for any
number of sessions, is false was found by the attempt to prove it.

## 5. Not modelled

- Branches of `service.sh` for systemd, sysvinit, openrc and runit, which hand the work to
  that manager, and `install_service`, which writes its unit file. Deploy sets
  `INIT_TYPE=nohup` (mse-deploy.sh:54).
- `_is_root` branches: commands run by root.
- Port numbers: `on` chooses them when taken; the model has the decision and the merge.
- Two sessions at once in `SubSwitch`. `Serial` FALSE is there for it; `temp.yaml` is then
  shared by a merge and a download.
- Of the tunnel: `proxy.status`, the choice of login nodes and of ports, and the ssh process
  that autossh starts, which keeps the port for a while after a kill -9 of its parent. The
  tunnel of another user on the same node makes `_mse_proxy_stop_all_tunnels` fail by its
  last look; the model has such processes only as bystanders.
- Of `mse`: the git method and branch of an update, steps that replace no file of the user
  and leave no entry that goes (packages, conda, fonts, jcat), `micromamba`, macOS and Windows
  branches; `wd`, which clones a dictionary and writes a wrapper over its old one instead of
  linking (mse:1921-1957); the second file of `vim` (mse:1665-1667) and the caches `nvim`
  removes before it clones (mse:1683-1685).
  Preferences cut short may have any prefix of the keys; a prefix without a step key makes
  an update run every step (mse:1010), which is why two properties except it. The second
  application of the zprofile template loses the user's `.zprofile`, which mse:735 means to
  keep, and a symbolic link of the user's own is replaced without a backup: both are
  exceptions of `UserFilesKept` and listed as hazards.
- Of proxychains-ng: parsing of the configuration, handshakes of SOCKS and HTTP proxies (a
  step succeeds or fails), the resolver as a daemon, `dnat`, `localnet`, the hooks of
  `close`; lookups that only log; the state PLAY that `start_chain` sets and overwrites.
- `proxy.exec`, `proxy.test` and the environment variables, `zsh/proxy_external.zsh`,
  `bin/macupdatectl`, trash and ssh wrappers: no concurrency, see the plan.
- `tools/jcat`: one `main` around vendored jsoncons headers. Those headers are nearly all of
  the repository's C and C++ (58 of 62 thousand lines) and third-party, so that the share of
  C and C++ lines modelled here stays small whatever is added: the repository's own logic is
  in shell, and that is what the modules above follow.

## 6. Plan

In this order, for whoever takes the project further:

1. `SubSwitch` with two sessions at once: what is left of `FromOwnLink` and `UsedIsListed`
   when the cron job of `sub update --auto` shares `temp.yaml` with a terminal. The module
   has the switch (`Serial`); the state space needs commands picked in pairs.
2. An abstract specification of a switch - one step from the old configuration to the new or
   back to the old - and the proof that `SubSwitch` in turns implements it. `SwitchInEffect`
   and `SwitchRolledBack`, and the same two without a mixin, are its two outcomes.
3. `ProxyEnv`: the proxy variables and `GIT_SSH_COMMAND` across `proxy.on`, `proxy.off`,
   `proxy.exec` and nested shells.
4. `MacUpdate`: `block` and `restore` of `macupdatectl` as sequences of steps any of which may
   fail, and the managed block of the hosts file.
5. The grouping of candidates in `zsh/proxy_external.zsh` as an operator, against a reference
   definition over bounded lists.
