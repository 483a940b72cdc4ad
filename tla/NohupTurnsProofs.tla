--------------------------- MODULE NohupTurnsProofs ---------------------------
(***************************************************************************)
(* What service_start, service_stop and service_is_active promise when     *)
(* sessions take turns, for any number of sessions, pids and attempts.     *)
(* Proved for the commands that do not touch TUN mode, with a kernel that  *)
(* has exec'ed by the time its pid is recorded and a pid file that can be  *)
(* written; kernels may crash and sessions may be interrupted at any step. *)
(* The last section is about two sessions that do not take turns.          *)
(***************************************************************************)
EXTENDS NohupServiceProofs, FiniteSetTheorems

(***************************************************************************)
(* Where a command is: the label a call in progress returns to, or the     *)
(* label itself.  Each label belongs to the commands that pass through it. *)
(***************************************************************************)
ResolveLabels == {"read", "check", "unlink", "scan", "adopt", "match"}
TermLabels == {"term_chk", "term", "term_wait", "term_kill", "term_wait2"}
StopLabels == {"stop_dec", "kill", "kill_failed", "stop_wait", "stop_kill", "stop_wait2",
               "stop_rm", "stopped"}
StartLabels == {"start_dec", "start_rm", "start_fork", "start_write", "start_wait",
                "start_giveup", "started"}

Place(c) ==
    IF pc[c] \in ResolveLabels \cup TermLabels \cup {"validate", "validating"}
    THEN ret[c] ELSE pc[c]

Route(c) ==
    \/ Place(c) = "idle"
    \/ Place(c) = "done"
    \/ Place(c) \in StartLabels /\ op[c] \in {"start", "restart", "on_new"}
    \/ Place(c) \in StopLabels /\ op[c] \in {"stop", "restart", "off", "on_new"}
    \/ Place(c) = "active_end" /\ op[c] = "active"
    \/ Place(c) = "restart_dec" /\ op[c] = "restart"
    \/ Place(c) \in {"on_validated", "on_dec"} /\ op[c] = "on"
    \/ Place(c) \in {"on_ports", "on_merged", "on_up"} /\ op[c] = "on_new"
    \/ Place(c) \in {"ports", "ports_dec"} /\ op[c] \in {"on", "on_new"}
    \/ Place(c) \in {"off_dec", "off_tun", "off_final"} /\ op[c] = "off"

\* A call returns to a label its caller looks at the status from; a stop keeps the label
\* its resolve returned to.
Calls(c) ==
    /\ pc[c] \in ResolveLabels
         => ret[c] \in {"active_end", "start_dec", "start_wait", "stop_dec", "restart_dec",
                        "on_dec", "on_ports", "on_up", "ports_dec", "off_dec", "off_tun",
                        "off_final"}
    /\ pc[c] = "match" => ret[c] # "stop_dec"
    /\ pc[c] \in TermLabels => ret[c] = "start_giveup"
    /\ pc[c] \in {"validate", "validating"} => ret[c] \in {"on_validated", "on_merged"}
    /\ pc[c] \in StopLabels \ {"stopped"} => ret[c] = "stop_dec"

Only(x) == \A p \in Kernels : p = x
NoKernel == Kernels = {}

\* What a session that has its turn knows of the kernel.
Knows(c) ==
    /\ pc[c] = "unlink" => rp[c] = NoPid
    /\ pc[c] = "scan" /\ rp[c] = NoPid => Kernels \subseteq todo[c]
    /\ pc[c] = "scan" /\ rp[c] # NoPid => Only(rp[c]) /\ rp[c] \notin todo[c]
    /\ pc[c] \in {"adopt", "match"} => rp[c] \in Pids /\ Only(rp[c])
    /\ pc[c] \in ResolveLabels \cup {"start_wait"} /\ ret[c] = "start_wait" => Only(pid[c])
    /\ pc[c] \in {"active_end", "start_dec", "start_wait", "stop_dec", "restart_dec",
                  "on_dec", "on_ports", "on_up", "ports_dec", "off_dec", "off_tun",
                  "off_final"}
         => st[c] \in {0, 1} /\ (st[c] = 1 => NoKernel)
    /\ pc[c] = "stop_dec" /\ st[c] = 0 => Only(rp[c])
    /\ pc[c] = "start_wait" => ret[c] = "start_wait"
    /\ pc[c] \in {"kill", "stop_wait", "stop_kill", "start_write"} => Only(pid[c])
    /\ pc[c] \in {"kill_failed", "stop_wait2", "stop_rm", "stopped", "start_rm", "start_fork",
                  "start_giveup"} \cup TermLabels => NoKernel
    /\ Place(c) = "restart_dec" => NoKernel
    /\ pc[c] = "started" /\ st[c] # 0 => NoKernel
    /\ pc[c] = "done" /\ op[c] \in {"stop", "off"} /\ st[c] = 0 => NoKernel
    /\ pc[c] = "done" /\ op[c] = "active" /\ st[c] # 0 => NoKernel
    /\ pc[c] = "done" /\ op[c] \in {"start", "restart", "on_new"} /\ st[c] # 0 => NoKernel

TurnsInv ==
    /\ TypeOK
    /\ \A c, d \in Clients : pc[c] # "idle" /\ pc[d] # "idle" => c = d
    /\ \A p, q \in Kernels : p = q
    /\ \A p \in Pids : proc[p] \notin {"shell", "root"}
    /\ \A p \in Pids : proc[p] = "check" =>
         \E c \in Clients : pc[c] = "validating" /\ pid[c] = p
    /\ \A c \in Clients : Route(c) /\ Calls(c) /\ Knows(c)

\* TurnsInv without its first conjunct, which StepTypes takes care of.
Turn ==
    /\ \A c, d \in Clients : pc[c] # "idle" /\ pc[d] # "idle" => c = d
    /\ \A p, q \in Kernels : p = q
    /\ \A p \in Pids : proc[p] \notin {"shell", "root"}
    /\ \A p \in Pids : proc[p] = "check" =>
         \E c \in Clients : pc[c] = "validating" /\ pid[c] = p
    /\ \A c \in Clients : Route(c) /\ Calls(c) /\ Knows(c)

LEMMA StepTurns ==
    ASSUME TurnsInv, NEW c \in Clients, Step(c), ~ExecWindow, ~WriteFails PROVE Turn'
<1> USE PidsAssumption, AttemptsAssumption DEF TurnsInv, Turn, TypeOK, Kernels, Ours, Kinds, Route,
      Calls, Knows, Place, Only, NoKernel, ResolveLabels, TermLabels, StopLabels, StartLabels
<1>1. ASSUME Finish(c) PROVE Turn'
  BY <1>1 DEF Finish, shared, locals, Forget
<1>2. ASSUME ActiveEnd(c) PROVE Turn'
  BY <1>2 DEF ActiveEnd, shared, locals, Go
<1>3. ASSUME ReadPid(c) PROVE Turn'
  BY <1>3 DEF ReadPid, shared, locals, Go
<1>4. ASSUME CheckPid(c) PROVE Turn'
  BY <1>4 DEF CheckPid, shared, locals, Go, RawCall, Resolved, Return,
      Status, Managed
<1>5. ASSUME Unlink(c) PROVE Turn'
  BY <1>5 DEF Unlink, shared, locals, Go
<1>6. ASSUME Scan(c) PROVE Turn'
  BY <1>6 DEF Scan, shared, locals, Go, Return, Status, Managed
<1>7. ASSUME ScanEnd(c) PROVE Turn'
  BY <1>7 DEF ScanEnd, shared, locals, Go, Return, Status
<1>8. ASSUME Adopt(c) PROVE Turn'
  BY <1>8 DEF Adopt, shared, locals, Go, RawCall, Resolved, Return, Status
<1>9. ASSUME Match(c) PROVE Turn'
  BY <1>9 DEF Match, shared, locals, Go, Return, Status, Managed
<1>10. ASSUME TermCheck(c) PROVE Turn'
  BY <1>10 DEF TermCheck, shared, locals, Go, KernelArgv
<1>11. ASSUME TermSignal(c) PROVE Turn'
  BY <1>11 DEF TermSignal, shared, locals, Elevated, Go, Reachable,
      Terminate, KernelArgv
<1>12. ASSUME TermWait(c) PROVE Turn'
  BY <1>12 DEF TermWait, shared, locals, Go, WaitInactive, KernelArgv
<1>13. ASSUME TermKill(c) PROVE Turn'
  BY <1>13 DEF TermKill, shared, locals, Elevated, Go, Kill, Reachable
<1>14. ASSUME TermWait2(c) PROVE Turn'
  BY <1>14 DEF TermWait2, shared, locals, Go, WaitInactive, KernelArgv
<1>15. ASSUME StartDecide(c) PROVE Turn'
  BY <1>15 DEF StartDecide, shared, locals, Go, Status
<1>16. ASSUME StartRm(c) PROVE Turn'
  BY <1>16 DEF StartRm, shared, locals, Go
<1>17. ASSUME StartFork(c) PROVE Turn'
  BY <1>17 DEF StartFork, shared, locals, Go, Status, Free
<1>18. ASSUME StartWrite(c) PROVE Turn'
  BY <1>18 DEF StartWrite, shared, locals, Go, Resolve
<1>19. ASSUME StartWait(c) PROVE Turn'
  BY <1>19 DEF StartWait, shared, locals, Go, Resolve, WaitActive
<1>20. ASSUME StartGiveUp(c) PROVE Turn'
  BY <1>20 DEF StartGiveUp, shared, locals, Go, Status
<1>21. ASSUME StartFailed(c) PROVE Turn'
  BY <1>21 DEF StartFailed, shared, locals, Go, Status
<1>22. ASSUME SudoFork(c) PROVE Turn'
  BY <1>22 DEF SudoFork, shared, locals, Go, Status, Free
<1>23. ASSUME SudoWrite(c) PROVE Turn'
  BY <1>23 DEF SudoWrite, shared, locals, Go, Resolve, Status
<1>24. ASSUME SudoWait(c) PROVE Turn'
  BY <1>24 DEF SudoWait, shared, locals, Go, Resolve, WaitActive
<1>25. ASSUME SudoRead(c) PROVE Turn'
  BY <1>25 DEF SudoRead, shared, locals, Go
<1>26. ASSUME SudoGiveUp(c) PROVE Turn'
  BY <1>26 DEF SudoGiveUp, shared, locals, Go, Status
<1>27. ASSUME StopDecide(c) PROVE Turn'
  BY <1>27 DEF StopDecide, shared, locals, Go, Status, StopElevated,
      StopReturn
<1>28. ASSUME StopSignal(c) PROVE Turn'
  BY <1>28 DEF StopSignal, shared, locals, Go, Reachable, StopElevated,
      Terminate, KernelArgv
<1>29. ASSUME StopSignalFailed(c) PROVE Turn'
  BY <1>29 DEF StopSignalFailed, shared, locals, Go, Status, StopElevated,
      StopReturn, KernelArgv
<1>30. ASSUME StopWait(c) PROVE Turn'
  BY <1>30 DEF StopWait, shared, locals, Go, WaitInactive, KernelArgv
<1>31. ASSUME StopKill(c) PROVE Turn'
  BY <1>31 DEF StopKill, shared, locals, Go, Kill, Reachable, Status,
      StopElevated, StopReturn
<1>32. ASSUME StopWait2(c) PROVE Turn'
  BY <1>32 DEF StopWait2, shared, locals, Go, Status, StopElevated,
      StopReturn, WaitInactive, KernelArgv
<1>33. ASSUME StopRm(c) PROVE Turn'
  BY <1>33 DEF StopRm, shared, locals, Go, Status, StopElevated, StopReturn
<1>34. ASSUME Validate(c) PROVE Turn'
  BY <1>34 DEF Validate, shared, locals, Go, Return, Status, Free
<1>35. ASSUME Validated(c) PROVE Turn'
  BY <1>35 DEF Validated, shared, locals, Go, Return, Status
<1>36. ASSUME Stopped(c) PROVE Turn'
  BY <1>36 DEF Stopped, shared, locals, Exit, Go, MergeConfig, Resolve, Status
<1>37. ASSUME SudoStopped(c) PROVE Turn'
  BY <1>37 DEF SudoStopped, shared, locals, Exit, Go, Resolve, Status
<1>38. ASSUME Started(c) PROVE Turn'
  BY <1>38 DEF Started, shared, locals, Exit, Go, Resolve, Status
<1>39. ASSUME SudoStarted(c) PROVE Turn'
  BY <1>39 DEF SudoStarted, shared, locals, Exit, Go, MergeConfig, Status,
      TunMayBeUp
<1>40. ASSUME RestartDecide(c) PROVE Turn'
  BY <1>40 DEF RestartDecide, shared, locals, Exit, Go, Resolve, Status
<1>41. ASSUME OnValidated(c) PROVE Turn'
  BY <1>41 DEF OnValidated, shared, locals, Exit, Go, Resolve, Status
<1>42. ASSUME OnDecide(c) PROVE Turn'
  BY <1>42 DEF OnDecide, shared, locals, Go, Resolve
<1>43. ASSUME OnPorts(c) PROVE Turn'
  BY <1>43 DEF OnPorts, shared, locals, Exit, Go, MergeConfig, Resolve, Status
<1>44. ASSUME OnMerged(c) PROVE Turn'
  BY <1>44 DEF OnMerged, shared, locals, Go, Resolve
<1>45. ASSUME OnUp(c) PROVE Turn'
  BY <1>45 DEF OnUp, shared, locals, Exit, Go, Status
<1>46. ASSUME Ports(c) PROVE Turn'
  BY <1>46 DEF Ports, shared, locals, Exit, Go, Resolve, Status
<1>47. ASSUME PortsDecide(c) PROVE Turn'
  BY <1>47 DEF PortsDecide, shared, locals, Exit, Go, PortsFailed, Resolve,
      Status
<1>48. ASSUME OffDecide(c) PROVE Turn'
  BY <1>48 DEF OffDecide, shared, locals, Exit, Go, Resolve, Status
<1>49. ASSUME OffTun(c) PROVE Turn'
  BY <1>49 DEF OffTun, shared, locals, Go, Resolve, TunMayBeUp
<1>50. ASSUME OffFinal(c) PROVE Turn'
  BY <1>50 DEF OffFinal, shared, locals, Exit, Go, Status
<1>51. ASSUME TunOnDecide(c) PROVE Turn'
  BY <1>51 DEF TunOnDecide, shared, locals, Exit, Go, Resolve, Status,
      TunMayBeUp
<1>52. ASSUME TunOnMerged(c) PROVE Turn'
  BY <1>52 DEF TunOnMerged, shared, locals, Go, Resolve
<1>53. ASSUME TunOffDecide(c) PROVE Turn'
  BY <1>53 DEF TunOffDecide, shared, locals, Exit, Go, Resolve, Status,
      TunMayBeUp
<1>54. ASSUME TunOffStopped(c) PROVE Turn'
  BY <1>54 DEF TunOffStopped, shared, locals, Exit, Go, MergeConfig, Status
<1>55. ASSUME TunOffMerged(c) PROVE Turn'
  BY <1>55 DEF TunOffMerged, shared, locals, Go, Resolve
<1> QED
  BY <1>1, <1>2, <1>3, <1>4, <1>5, <1>6, <1>7, <1>8, <1>9, <1>10, <1>11,
      <1>12, <1>13, <1>14, <1>15, <1>16, <1>17, <1>18, <1>19, <1>20, <1>21,
      <1>22, <1>23, <1>24, <1>25, <1>26, <1>27, <1>28, <1>29, <1>30, <1>31,
      <1>32, <1>33, <1>34, <1>35, <1>36, <1>37, <1>38, <1>39, <1>40, <1>41,
      <1>42, <1>43, <1>44, <1>45, <1>46, <1>47, <1>48, <1>49, <1>50, <1>51,
      <1>52, <1>53, <1>54, <1>55 DEF Step

\* An interrupted command leaves no validation behind, a new command starts when no other
\* is running, and a kernel that dies takes nothing from what is known.
LEMMA OtherTurns ==
    ASSUME TurnsInv, [Next]_vars, \A c \in Clients : ~Step(c),
           Serial, {"tunon", "tunoff"} \cap Ops = {}
    PROVE  Turn'
<1> USE PidsAssumption DEF TurnsInv, Turn, TypeOK, Kernels, Ours, Kinds, Route, Calls, Knows,
      Place, Only, NoKernel, ResolveLabels, TermLabels, StopLabels, StartLabels
<1>1. ASSUME NEW c \in Clients, Interrupt(c) PROVE Turn'
  BY <1>1 DEF Interrupt, Forget
<1>2. ASSUME NEW c \in Clients, NEW o \in Ops, Begin(c, o) PROVE Turn'
  BY <1>2, OpsAssumption DEF Begin, Resolve, Go, First, OpNames, shared, locals
<1>3. ASSUME NEW p \in Pids, Exec(p) \/ Die(p) PROVE Turn'
  BY <1>3 DEF Exec, Die, locals
<1>4. ASSUME NEW p \in Pids, NEW k \in Bystanders, Recycle(p, k) PROVE Turn'
  BY <1>4, BystandersAssumption DEF Recycle, Free, BystanderKinds, locals
<1>5. CASE UNCHANGED vars
  BY <1>5 DEF vars
<1>6. QED
  BY <1>1, <1>2, <1>3, <1>4, <1>5 DEF Next, World

LEMMA InitTurns == Init => TurnsInv
<1> SUFFICES ASSUME Init PROVE TurnsInv
  OBVIOUS
<1>1. \A p \in Pids : proc[p] \notin {"shell", "root", "check"}
  BY BystandersAssumption DEF Init, BystanderKinds
<1>2. \A c \in Clients : Route(c) /\ Calls(c) /\ Knows(c)
  BY DEF Init, Route, Calls, Knows, Place, ResolveLabels, TermLabels, StopLabels, StartLabels
<1>3. QED
  BY <1>1, <1>2, InitTypes DEF Init, TurnsInv

LEMMA TurnsInvariant ==
    ASSUME Serial, ~ExecWindow, ~WriteFails, {"tunon", "tunoff"} \cap Ops = {}
    PROVE  Spec => []TurnsInv
<1>1. TurnsInv /\ [Next]_vars => TurnsInv'
  <2> SUFFICES ASSUME TurnsInv, [Next]_vars PROVE TurnsInv'
    OBVIOUS
  <2>1. TypeOK'
    BY NextTypes DEF TurnsInv
  <2>2. Turn'
    BY StepTurns, OtherTurns
  <2>3. QED
    BY <2>1, <2>2 DEF TurnsInv, Turn
<1>2. QED
  BY <1>1, InitTurns, PTL DEF Spec

\* While sessions take turns there is never a second kernel: service_start forks one only
\* when the pid file and the scan of /proc came up empty (service.sh:59-99, 188-227).
THEOREM NeverTwoKernels ==
    ASSUME Serial, ~ExecWindow, ~WriteFails, {"tunon", "tunoff"} \cap Ops = {}
    PROVE  Spec => []AtMostOneKernel
<1>1. TurnsInv => AtMostOneKernel
  BY DEF TurnsInv, AtMostOneKernel
<1>2. QED
  BY <1>1, TurnsInvariant, PTL

\* While sessions take turns, `stop` and `off` report success only when no kernel is left
\* (service.sh:286-323, off.sh:27-39), even if the kernel had lost its pid file.
THEOREM StopIsTrue ==
    ASSUME Serial, ~ExecWindow, ~WriteFails, {"tunon", "tunoff"} \cap Ops = {}
    PROVE  Spec => []StopLeavesNone
<1>1. TurnsInv => StopLeavesNone
  BY DEF TurnsInv, StopLeavesNone, Knows, NoKernel
<1>2. QED
  BY <1>1, TurnsInvariant, PTL

\* While sessions take turns, service_is_active says "not running" only when no kernel
\* runs (service.sh:372-393).
THEOREM NotActiveIsTrue ==
    ASSUME Serial, ~ExecWindow, ~WriteFails, {"tunon", "tunoff"} \cap Ops = {}
    PROVE  Spec => []InactiveIsTrue
<1>1. TurnsInv => InactiveIsTrue
  BY DEF TurnsInv, InactiveIsTrue, Knows, NoKernel
<1>2. QED
  BY <1>1, TurnsInvariant, PTL

\* While sessions take turns, a start that reports failure leaves no kernel behind
\* (service.sh:215-224, on.sh:31-60).
THEOREM FailedStartIsClean ==
    ASSUME Serial, ~ExecWindow, ~WriteFails, {"tunon", "tunoff"} \cap Ops = {}
    PROVE  Spec => []FailedStartLeavesNone
<1>1. TurnsInv => FailedStartLeavesNone
  BY DEF TurnsInv, FailedStartLeavesNone, Knows, NoKernel
<1>2. QED
  BY <1>1, TurnsInvariant, PTL

-----------------------------------------------------------------------------
(***************************************************************************)
(* Two sessions at the same time.  A start forks without looking again, so *)
(* it forks beside every kernel its session has passed: one that was not   *)
(* there yet, or no longer where it looked.  The invariant counts those:   *)
(* two kernels at most, one if a session has passed them all, none if both *)
(* have.  A fork uses its session's pass up.  Stopping the kernel another  *)
(* session was about to find makes it pass what is left, one kernel fewer. *)
(***************************************************************************)
ServiceOps == {"start", "stop", "restart", "active", "off"}
Callers == {"start_dec", "start_wait", "start_giveup", "stop_dec", "active_end", "restart_dec",
            "off_dec", "off_tun", "off_final"}

CoreLabels == ResolveLabels \cup TermLabels \cup StopLabels \cup StartLabels \cup Callers
                \cup {"idle", "done"}

\* Without `on` and TUN mode no `-t` run and no kernel of root's is there, and a session is
\* at a label of the five commands.
Core ==
    /\ \A p \in Pids : proc[p] \notin {"shell", "root", "check"}
    /\ \A c \in Clients :
         /\ op[c] \in ServiceOps \cup {"none"}
         /\ pc[c] \in CoreLabels
         /\ ret[c] \in Callers \cup {"idle"}
         /\ pc[c] \in ResolveLabels => ret[c] \notin {"idle", "start_giveup"}
         /\ pc[c] \in TermLabels => ret[c] = "start_giveup"

\* No session takes a step of `on` or of TUN mode.
LEMMA NeverSteps ==
    ASSUME Core, NEW c \in Clients,
           SudoFork(c) \/ SudoWrite(c) \/ SudoWait(c) \/ SudoRead(c) \/ SudoGiveUp(c) \/
           Validate(c) \/ Validated(c) \/ SudoStopped(c) \/ SudoStarted(c) \/
           OnValidated(c) \/ OnDecide(c) \/ OnPorts(c) \/ OnMerged(c) \/ OnUp(c) \/
           Ports(c) \/ PortsDecide(c) \/ TunOnDecide(c) \/ TunOnMerged(c) \/
           TunOffDecide(c) \/ TunOffStopped(c) \/ TunOffMerged(c)
    PROVE  FALSE
  BY DEF Core, CoreLabels, Callers, ServiceOps, ResolveLabels, TermLabels, StopLabels,
      StartLabels, SudoFork, SudoWrite, SudoWait, SudoRead, SudoGiveUp, Validate, Validated,
      SudoStopped, SudoStarted, OnValidated, OnDecide, OnPorts, OnMerged, OnUp, Ports,
      PortsDecide, TunOnDecide, TunOnMerged, TunOffDecide, TunOffStopped, TunOffMerged,
      WaitActive

\* No step leaves the five commands.
LEMMA StepCore ==
    ASSUME TypeOK, Core, NEW c \in Clients, Step(c), ~ExecWindow, ~WriteFails PROVE Core'
<1> USE PidsAssumption, AttemptsAssumption DEF TypeOK, Core, CoreLabels, Callers, ServiceOps,
      Kinds, ResolveLabels, TermLabels, StopLabels, StartLabels
<1>1. ASSUME Finish(c) PROVE Core'
  BY <1>1 DEF Finish, shared, locals, Forget
<1>2. ASSUME ActiveEnd(c) PROVE Core'
  BY <1>2 DEF ActiveEnd, shared, locals, Go
<1>3. ASSUME ReadPid(c) PROVE Core'
  BY <1>3 DEF ReadPid, shared, locals, Go
<1>4. ASSUME CheckPid(c) PROVE Core'
  BY <1>4 DEF CheckPid, shared, locals, Go, RawCall, Resolved, Return,
      Status, Managed
<1>5. ASSUME Unlink(c) PROVE Core'
  BY <1>5 DEF Unlink, shared, locals, Go
<1>6. ASSUME Scan(c) PROVE Core'
  BY <1>6 DEF Scan, shared, locals, Go, Return, Status, Managed
<1>7. ASSUME ScanEnd(c) PROVE Core'
  BY <1>7 DEF ScanEnd, shared, locals, Go, Return, Status
<1>8. ASSUME Adopt(c) PROVE Core'
  BY <1>8 DEF Adopt, shared, locals, Go, RawCall, Resolved, Return, Status
<1>9. ASSUME Match(c) PROVE Core'
  BY <1>9 DEF Match, shared, locals, Go, Return, Status, Managed
<1>10. ASSUME TermCheck(c) PROVE Core'
  BY <1>10 DEF TermCheck, shared, locals, Go, KernelArgv
<1>11. ASSUME TermSignal(c) PROVE Core'
  BY <1>11 DEF TermSignal, shared, locals, Elevated, Go, Reachable,
      Terminate, KernelArgv
<1>12. ASSUME TermWait(c) PROVE Core'
  BY <1>12 DEF TermWait, shared, locals, Go, WaitInactive, KernelArgv
<1>13. ASSUME TermKill(c) PROVE Core'
  BY <1>13 DEF TermKill, shared, locals, Elevated, Go, Kill, Reachable
<1>14. ASSUME TermWait2(c) PROVE Core'
  BY <1>14 DEF TermWait2, shared, locals, Go, WaitInactive, KernelArgv
<1>15. ASSUME StartDecide(c) PROVE Core'
  BY <1>15 DEF StartDecide, shared, locals, Go, Status
<1>16. ASSUME StartRm(c) PROVE Core'
  BY <1>16 DEF StartRm, shared, locals, Go
<1>17. ASSUME StartFork(c) PROVE Core'
  BY <1>17 DEF StartFork, shared, locals, Go, Status, Free
<1>18. ASSUME StartWrite(c) PROVE Core'
  BY <1>18 DEF StartWrite, shared, locals, Go, Resolve
<1>19. ASSUME StartWait(c) PROVE Core'
  BY <1>19 DEF StartWait, shared, locals, Go, Resolve, WaitActive
<1>20. ASSUME StartGiveUp(c) PROVE Core'
  BY <1>20 DEF StartGiveUp, shared, locals, Go, Status
<1>21. ASSUME StartFailed(c) PROVE Core'
  BY <1>21 DEF StartFailed, shared, locals, Go, Status
<1>22. ASSUME StopDecide(c) PROVE Core'
  BY <1>22 DEF StopDecide, shared, locals, Go, Status, StopElevated,
      StopReturn
<1>23. ASSUME StopSignal(c) PROVE Core'
  BY <1>23 DEF StopSignal, shared, locals, Go, Reachable, StopElevated,
      Terminate, KernelArgv
<1>24. ASSUME StopSignalFailed(c) PROVE Core'
  BY <1>24 DEF StopSignalFailed, shared, locals, Go, Status, StopElevated,
      StopReturn, KernelArgv
<1>25. ASSUME StopWait(c) PROVE Core'
  BY <1>25 DEF StopWait, shared, locals, Go, WaitInactive, KernelArgv
<1>26. ASSUME StopKill(c) PROVE Core'
  BY <1>26 DEF StopKill, shared, locals, Go, Kill, Reachable, Status,
      StopElevated, StopReturn
<1>27. ASSUME StopWait2(c) PROVE Core'
  BY <1>27 DEF StopWait2, shared, locals, Go, Status, StopElevated,
      StopReturn, WaitInactive, KernelArgv
<1>28. ASSUME StopRm(c) PROVE Core'
  BY <1>28 DEF StopRm, shared, locals, Go, Status, StopElevated, StopReturn
<1>29. ASSUME Stopped(c) PROVE Core'
  BY <1>29 DEF Stopped, shared, locals, Exit, Go, MergeConfig, Resolve, Status
<1>30. ASSUME Started(c) PROVE Core'
  BY <1>30 DEF Started, shared, locals, Exit, Go, Resolve, Status
<1>31. ASSUME RestartDecide(c) PROVE Core'
  BY <1>31 DEF RestartDecide, shared, locals, Exit, Go, Resolve, Status
<1>32. ASSUME OffDecide(c) PROVE Core'
  BY <1>32 DEF OffDecide, shared, locals, Exit, Go, Resolve, Status
<1>33. ASSUME OffTun(c) PROVE Core'
  BY <1>33 DEF OffTun, shared, locals, Go, Resolve, TunMayBeUp
<1>34. ASSUME OffFinal(c) PROVE Core'
  BY <1>34 DEF OffFinal, shared, locals, Exit, Go, Status
<1> QED
  BY <1>1, <1>2, <1>3, <1>4, <1>5, <1>6, <1>7, <1>8, <1>9, <1>10, <1>11, <1>12, <1>13,
      <1>14, <1>15, <1>16, <1>17, <1>18, <1>19, <1>20, <1>21, <1>22, <1>23, <1>24,
      <1>25, <1>26, <1>27, <1>28, <1>29, <1>30, <1>31, <1>32, <1>33, <1>34, NeverSteps
      DEF Step

\* Nor does a command that begins or is interrupted, or the world.
LEMMA OtherCore ==
    ASSUME TypeOK, Core, [Next]_vars, \A c \in Clients : ~Step(c), Ops \subseteq ServiceOps
    PROVE  Core'
<1> USE PidsAssumption DEF TypeOK, Core, CoreLabels, Callers, ServiceOps,
      Kinds, ResolveLabels, TermLabels, StopLabels, StartLabels
<1>1. ASSUME NEW c \in Clients, Interrupt(c) PROVE Core'
  BY <1>1 DEF Interrupt, Forget
<1>2. ASSUME NEW c \in Clients, NEW o \in Ops, Begin(c, o) PROVE Core'
  BY <1>2 DEF Begin, Resolve, Go, First, shared, locals
<1>3. ASSUME NEW p \in Pids, Exec(p) \/ Die(p) PROVE Core'
  BY <1>3 DEF Exec, Die, locals
<1>4. ASSUME NEW p \in Pids, NEW k \in Bystanders, Recycle(p, k) PROVE Core'
  BY <1>4, BystandersAssumption DEF Recycle, BystanderKinds, locals
<1>5. CASE UNCHANGED vars
  BY <1>5 DEF vars
<1>6. QED
  BY <1>1, <1>2, <1>3, <1>4, <1>5 DEF Next, World

-----------------------------------------------------------------------------
(***************************************************************************)
(* A session has passed the kernels when its start will fork whatever is   *)
(* running now: it has seen all it was going to look at.                   *)
(***************************************************************************)
Passed(c) ==
    \/ pc[c] \in {"start_rm", "start_fork"}
    \/ pc[c] = "start_dec" /\ st[c] = 1
    \/ ret[c] = "start_dec" /\ pc[c] = "scan" /\ Kernels \cap ({rp[c]} \cup todo[c]) = {}
    \/ ret[c] = "start_dec" /\ pc[c] \in {"adopt", "match"} /\ rp[c] \notin Kernels

TwoSessions == \A c, d, e \in Clients : c = d \/ c = e \/ d = e

\* Two kernels at most, one if a session has passed it, none if both have.
Counted ==
    /\ \A p, q, r \in Kernels : p = q \/ p = r \/ q = r
    /\ \A c \in Clients : Passed(c) => \A p, q \in Kernels : p = q
    /\ \A c, d \in Clients : c # d /\ Passed(c) /\ Passed(d) => Kernels = {}

PairInv == TypeOK /\ Core /\ Counted

\* Only session c moves.
Elsewhere(c) ==
    \A d \in Clients \ {c} :
        pc'[d] = pc[d] /\ ret'[d] = ret[d] /\ st'[d] = st[d] /\ rp'[d] = rp[d] /\ todo'[d] = todo[d]

\* The other sessions judge the kernels as before: fewer kernels may have passed out of
\* what a session will see, more never make it pass.
LEMMA OthersPass ==
    ASSUME NEW c \in Clients, Elsewhere(c), NEW d \in Clients \ {c}
    PROVE  /\ Kernels \subseteq Kernels' /\ Passed(d)' => Passed(d)
           /\ Kernels' = Kernels => (Passed(d)' <=> Passed(d))
  BY DEF Elsewhere, Passed

\* The kernels stay and the session passes none it had not passed, or there are none.
LEMMA CountStays ==
    ASSUME Counted, NEW c \in Clients, Elsewhere(c), Kernels' = Kernels,
           Passed(c)' => Passed(c) \/ Kernels = {}
    PROVE  Counted'
<1>1. \A d \in Clients : Passed(d)' => Passed(d) \/ Kernels = {}
  BY OthersPass
<1>2. QED
  BY <1>1 DEF Counted

\* A session that starts nothing takes a kernel down: the other one may have passed what
\* is left, which is one at most.
LEMMA CountFalls ==
    ASSUME Counted, TwoSessions, NEW c \in Clients, Elsewhere(c), NEW k,
           Kernels' = Kernels \ {k}, ~Passed(c)'
    PROVE  Counted'
<1>1. CASE k \in Kernels
  <2>1. \A p, q \in Kernels' : p = q
    BY <1>1 DEF Counted
  <2>2. \A d, e \in Clients : d # e /\ Passed(d)' /\ Passed(e)' => FALSE
    BY DEF TwoSessions
  <2>3. QED
    BY <2>1, <2>2 DEF Counted
<1>2. CASE k \notin Kernels
  <2>1. Kernels' = Kernels
    BY <1>2
  <2>2. QED
    BY <2>1, CountStays
<1>3. QED
  BY <1>1, <1>2

\* A fork by a session that had passed the kernels.
LEMMA CountRises ==
    ASSUME Counted, TwoSessions, NEW c \in Clients, Elsewhere(c), NEW q,
           Kernels' = Kernels \cup {q}, Passed(c), ~Passed(c)'
    PROVE  Counted'
<1>1. \A d \in Clients : Passed(d)' => d # c /\ Passed(d)
  BY OthersPass
<1>2. \A d \in Clients : Passed(d)' => Kernels = {}
  BY <1>1 DEF Counted
<1>3. \A d, e \in Clients : d # e /\ Passed(d)' /\ Passed(e)' => FALSE
  BY <1>1 DEF TwoSessions
<1>4. QED
  BY <1>2, <1>3 DEF Counted

\* A step of a session changes no other session's variables.
LEMMA StepElsewhere ==
    ASSUME TypeOK, NEW c \in Clients, Step(c) PROVE Elsewhere(c)
<1> SUFFICES ASSUME NEW d \in Clients \ {c}
             PROVE  pc'[d] = pc[d] /\ ret'[d] = ret[d] /\ st'[d] = st[d] /\ rp'[d] = rp[d]
                      /\ todo'[d] = todo[d]
  BY DEF Elsewhere
<1> USE DEF TypeOK
<1> DEFINE Same == pc'[d] = pc[d] /\ ret'[d] = ret[d] /\ st'[d] = st[d] /\ rp'[d] = rp[d]
                   /\ todo'[d] = todo[d]
<1>1. ASSUME Finish(c) PROVE Same
  BY <1>1 DEF Finish, shared, locals, Forget
<1>2. ASSUME ActiveEnd(c) PROVE Same
  BY <1>2 DEF ActiveEnd, shared, locals, Go
<1>3. ASSUME ReadPid(c) PROVE Same
  BY <1>3 DEF ReadPid, shared, locals, Go
<1>4. ASSUME CheckPid(c) PROVE Same
  BY <1>4 DEF CheckPid, shared, locals, Go, RawCall, Resolved, Return,
      Status, Managed
<1>5. ASSUME Unlink(c) PROVE Same
  BY <1>5 DEF Unlink, shared, locals, Go
<1>6. ASSUME Scan(c) PROVE Same
  BY <1>6 DEF Scan, shared, locals, Go, Return, Status, Managed
<1>7. ASSUME ScanEnd(c) PROVE Same
  BY <1>7 DEF ScanEnd, shared, locals, Go, Return, Status
<1>8. ASSUME Adopt(c) PROVE Same
  BY <1>8 DEF Adopt, shared, locals, Go, RawCall, Resolved, Return, Status
<1>9. ASSUME Match(c) PROVE Same
  BY <1>9 DEF Match, shared, locals, Go, Return, Status, Managed
<1>10. ASSUME TermCheck(c) PROVE Same
  BY <1>10 DEF TermCheck, shared, locals, Go, KernelArgv
<1>11. ASSUME TermSignal(c) PROVE Same
  BY <1>11 DEF TermSignal, shared, locals, Elevated, Go, Reachable,
      Terminate, KernelArgv
<1>12. ASSUME TermWait(c) PROVE Same
  BY <1>12 DEF TermWait, shared, locals, Go, WaitInactive, KernelArgv
<1>13. ASSUME TermKill(c) PROVE Same
  BY <1>13 DEF TermKill, shared, locals, Elevated, Go, Kill, Reachable
<1>14. ASSUME TermWait2(c) PROVE Same
  BY <1>14 DEF TermWait2, shared, locals, Go, WaitInactive, KernelArgv
<1>15. ASSUME StartDecide(c) PROVE Same
  BY <1>15 DEF StartDecide, shared, locals, Go, Status
<1>16. ASSUME StartRm(c) PROVE Same
  BY <1>16 DEF StartRm, shared, locals, Go
<1>17. ASSUME StartFork(c) PROVE Same
  BY <1>17 DEF StartFork, shared, locals, Go, Status, Free
<1>18. ASSUME StartWrite(c) PROVE Same
  BY <1>18 DEF StartWrite, shared, locals, Go, Resolve
<1>19. ASSUME StartWait(c) PROVE Same
  BY <1>19 DEF StartWait, shared, locals, Go, Resolve, WaitActive
<1>20. ASSUME StartGiveUp(c) PROVE Same
  BY <1>20 DEF StartGiveUp, shared, locals, Go, Status
<1>21. ASSUME StartFailed(c) PROVE Same
  BY <1>21 DEF StartFailed, shared, locals, Go, Status
<1>22. ASSUME SudoFork(c) PROVE Same
  BY <1>22 DEF SudoFork, shared, locals, Go, Status, Free
<1>23. ASSUME SudoWrite(c) PROVE Same
  BY <1>23 DEF SudoWrite, shared, locals, Go, Resolve, Status
<1>24. ASSUME SudoWait(c) PROVE Same
  BY <1>24 DEF SudoWait, shared, locals, Go, Resolve, WaitActive
<1>25. ASSUME SudoRead(c) PROVE Same
  BY <1>25 DEF SudoRead, shared, locals, Go
<1>26. ASSUME SudoGiveUp(c) PROVE Same
  BY <1>26 DEF SudoGiveUp, shared, locals, Go, Status
<1>27. ASSUME StopDecide(c) PROVE Same
  BY <1>27 DEF StopDecide, shared, locals, Go, Status, StopElevated,
      StopReturn
<1>28. ASSUME StopSignal(c) PROVE Same
  BY <1>28 DEF StopSignal, shared, locals, Go, Reachable, StopElevated,
      Terminate, KernelArgv
<1>29. ASSUME StopSignalFailed(c) PROVE Same
  BY <1>29 DEF StopSignalFailed, shared, locals, Go, Status, StopElevated,
      StopReturn, KernelArgv
<1>30. ASSUME StopWait(c) PROVE Same
  BY <1>30 DEF StopWait, shared, locals, Go, WaitInactive, KernelArgv
<1>31. ASSUME StopKill(c) PROVE Same
  BY <1>31 DEF StopKill, shared, locals, Go, Kill, Reachable, Status,
      StopElevated, StopReturn
<1>32. ASSUME StopWait2(c) PROVE Same
  BY <1>32 DEF StopWait2, shared, locals, Go, Status, StopElevated,
      StopReturn, WaitInactive, KernelArgv
<1>33. ASSUME StopRm(c) PROVE Same
  BY <1>33 DEF StopRm, shared, locals, Go, Status, StopElevated, StopReturn
<1>34. ASSUME Validate(c) PROVE Same
  BY <1>34 DEF Validate, shared, locals, Go, Return, Status, Free
<1>35. ASSUME Validated(c) PROVE Same
  BY <1>35 DEF Validated, shared, locals, Go, Return, Status
<1>36. ASSUME Stopped(c) PROVE Same
  BY <1>36 DEF Stopped, shared, locals, Exit, Go, MergeConfig, Resolve, Status
<1>37. ASSUME SudoStopped(c) PROVE Same
  BY <1>37 DEF SudoStopped, shared, locals, Exit, Go, Resolve, Status
<1>38. ASSUME Started(c) PROVE Same
  BY <1>38 DEF Started, shared, locals, Exit, Go, Resolve, Status
<1>39. ASSUME SudoStarted(c) PROVE Same
  BY <1>39 DEF SudoStarted, shared, locals, Exit, Go, MergeConfig, Status,
      TunMayBeUp
<1>40. ASSUME RestartDecide(c) PROVE Same
  BY <1>40 DEF RestartDecide, shared, locals, Exit, Go, Resolve, Status
<1>41. ASSUME OnValidated(c) PROVE Same
  BY <1>41 DEF OnValidated, shared, locals, Exit, Go, Resolve, Status
<1>42. ASSUME OnDecide(c) PROVE Same
  BY <1>42 DEF OnDecide, shared, locals, Go, Resolve
<1>43. ASSUME OnPorts(c) PROVE Same
  BY <1>43 DEF OnPorts, shared, locals, Exit, Go, MergeConfig, Resolve, Status
<1>44. ASSUME OnMerged(c) PROVE Same
  BY <1>44 DEF OnMerged, shared, locals, Go, Resolve
<1>45. ASSUME OnUp(c) PROVE Same
  BY <1>45 DEF OnUp, shared, locals, Exit, Go, Status
<1>46. ASSUME Ports(c) PROVE Same
  BY <1>46 DEF Ports, shared, locals, Exit, Go, Resolve, Status
<1>47. ASSUME PortsDecide(c) PROVE Same
  BY <1>47 DEF PortsDecide, shared, locals, Exit, Go, PortsFailed, Resolve,
      Status
<1>48. ASSUME OffDecide(c) PROVE Same
  BY <1>48 DEF OffDecide, shared, locals, Exit, Go, Resolve, Status
<1>49. ASSUME OffTun(c) PROVE Same
  BY <1>49 DEF OffTun, shared, locals, Go, Resolve, TunMayBeUp
<1>50. ASSUME OffFinal(c) PROVE Same
  BY <1>50 DEF OffFinal, shared, locals, Exit, Go, Status
<1>51. ASSUME TunOnDecide(c) PROVE Same
  BY <1>51 DEF TunOnDecide, shared, locals, Exit, Go, Resolve, Status,
      TunMayBeUp
<1>52. ASSUME TunOnMerged(c) PROVE Same
  BY <1>52 DEF TunOnMerged, shared, locals, Go, Resolve
<1>53. ASSUME TunOffDecide(c) PROVE Same
  BY <1>53 DEF TunOffDecide, shared, locals, Exit, Go, Resolve, Status,
      TunMayBeUp
<1>54. ASSUME TunOffStopped(c) PROVE Same
  BY <1>54 DEF TunOffStopped, shared, locals, Exit, Go, MergeConfig, Status
<1>55. ASSUME TunOffMerged(c) PROVE Same
  BY <1>55 DEF TunOffMerged, shared, locals, Go, Resolve
<1> QED
  BY <1>1, <1>2, <1>3, <1>4, <1>5, <1>6, <1>7, <1>8, <1>9, <1>10, <1>11,
      <1>12, <1>13, <1>14, <1>15, <1>16, <1>17, <1>18, <1>19, <1>20, <1>21,
      <1>22, <1>23, <1>24, <1>25, <1>26, <1>27, <1>28, <1>29, <1>30, <1>31,
      <1>32, <1>33, <1>34, <1>35, <1>36, <1>37, <1>38, <1>39, <1>40, <1>41,
      <1>42, <1>43, <1>44, <1>45, <1>46, <1>47, <1>48, <1>49, <1>50, <1>51,
      <1>52, <1>53, <1>54, <1>55 DEF Step

\* A session in one of these labels may have passed the kernels.
Deciding == {"scan", "adopt", "match", "start_dec", "start_rm", "start_fork"}

\* These steps leave the processes alone and end where no kernel is passed.
LEMMA QuietSteps ==
    ASSUME TypeOK, Core, NEW c \in Clients, ~WriteFails,
           Finish(c) \/ ActiveEnd(c) \/ ReadPid(c) \/ TermCheck(c) \/ TermWait(c) \/
           TermWait2(c) \/ StartWrite(c) \/ StartWait(c) \/ StartGiveUp(c) \/
           StartFailed(c) \/ StopDecide(c) \/ StopSignalFailed(c) \/ StopWait(c) \/
           StopWait2(c) \/ StopRm(c) \/ Stopped(c) \/ Started(c) \/ RestartDecide(c) \/
           OffDecide(c) \/ OffTun(c) \/ OffFinal(c)
    PROVE  proc' = proc /\ pc'[c] \notin Deciding
<1> USE DEF TypeOK, Core, CoreLabels, Callers, ServiceOps, ResolveLabels, TermLabels, StopLabels,
      StartLabels, Deciding
<1> DEFINE Quiet == proc' = proc /\ pc'[c] \notin Deciding
<1>1. ASSUME Finish(c) PROVE Quiet
  BY <1>1 DEF Finish, shared, locals, Forget
<1>2. ASSUME ActiveEnd(c) PROVE Quiet
  BY <1>2 DEF ActiveEnd, shared, locals, Go
<1>3. ASSUME ReadPid(c) PROVE Quiet
  BY <1>3 DEF ReadPid, shared, locals, Go
<1>4. ASSUME TermCheck(c) PROVE Quiet
  BY <1>4 DEF TermCheck, shared, locals, Go, KernelArgv
<1>5. ASSUME TermWait(c) PROVE Quiet
  BY <1>5 DEF TermWait, shared, locals, Go, WaitInactive, KernelArgv
<1>6. ASSUME TermWait2(c) PROVE Quiet
  BY <1>6 DEF TermWait2, shared, locals, Go, WaitInactive, KernelArgv
<1>7. ASSUME StartWrite(c) PROVE Quiet
  BY <1>7 DEF StartWrite, shared, locals, Go, Resolve
<1>8. ASSUME StartWait(c) PROVE Quiet
  BY <1>8 DEF StartWait, shared, locals, Go, Resolve, WaitActive
<1>9. ASSUME StartGiveUp(c) PROVE Quiet
  BY <1>9 DEF StartGiveUp, shared, locals, Go, Status
<1>10. ASSUME StartFailed(c) PROVE Quiet
  BY <1>10 DEF StartFailed, shared, locals, Go, Status
<1>11. ASSUME StopDecide(c) PROVE Quiet
  BY <1>11 DEF StopDecide, shared, locals, Go, Status, StopElevated, StopReturn
<1>12. ASSUME StopSignalFailed(c) PROVE Quiet
  BY <1>12 DEF StopSignalFailed, shared, locals, Go, Status, StopElevated, StopReturn,
      KernelArgv
<1>13. ASSUME StopWait(c) PROVE Quiet
  BY <1>13 DEF StopWait, shared, locals, Go, WaitInactive, KernelArgv
<1>14. ASSUME StopWait2(c) PROVE Quiet
  BY <1>14 DEF StopWait2, shared, locals, Go, Status, StopElevated, StopReturn,
      WaitInactive, KernelArgv
<1>15. ASSUME StopRm(c) PROVE Quiet
  BY <1>15 DEF StopRm, shared, locals, Go, Status, StopElevated, StopReturn
<1>16. ASSUME Stopped(c) PROVE Quiet
  BY <1>16 DEF Stopped, shared, locals, Exit, Go, MergeConfig, Resolve, Status
<1>17. ASSUME Started(c) PROVE Quiet
  BY <1>17 DEF Started, shared, locals, Exit, Go, Resolve, Status
<1>18. ASSUME RestartDecide(c) PROVE Quiet
  BY <1>18 DEF RestartDecide, shared, locals, Exit, Go, Resolve, Status
<1>19. ASSUME OffDecide(c) PROVE Quiet
  BY <1>19 DEF OffDecide, shared, locals, Exit, Go, Resolve, Status
<1>20. ASSUME OffTun(c) PROVE Quiet
  BY <1>20 DEF OffTun, shared, locals, Go, Resolve, TunMayBeUp
<1>21. ASSUME OffFinal(c) PROVE Quiet
  BY <1>21 DEF OffFinal, shared, locals, Exit, Go, Status
<1> QED
  BY <1>1, <1>2, <1>3, <1>4, <1>5, <1>6, <1>7, <1>8, <1>9, <1>10, <1>11, <1>12, <1>13,
      <1>14, <1>15, <1>16, <1>17, <1>18, <1>19, <1>20, <1>21

\* These signal one process, which may be a kernel, and end where no kernel is passed.
LEMMA KillSteps ==
    ASSUME TypeOK, Core, NEW c \in Clients,
           TermSignal(c) \/ TermKill(c) \/ StopSignal(c) \/ StopKill(c)
    PROVE  pc'[c] \notin Deciding /\ \E k : Kernels' = Kernels \ {k}
<1> USE DEF TypeOK, Core, Deciding, StopLabels, StartLabels, Callers
<1>1. pc'[c] \notin Deciding
  BY DEF Elevated, Go, KernelArgv, Kill, Reachable, Status, StopElevated, StopKill,
      StopReturn, StopSignal, TermKill, TermSignal, Terminate, locals, shared
<1>2. proc' = proc \/ proc' = [proc EXCEPT ![pid[c]] = "none"]
  BY DEF TermSignal, TermKill, StopSignal, StopKill, Terminate, Kill
<1>3. CASE proc' = proc
  <2>1. Kernels' = Kernels \ {NoPid}
    BY <1>3, PidsAssumption DEF Kernels
  <2>2. QED
    BY <1>1, <2>1
<1>4. CASE proc' = [proc EXCEPT ![pid[c]] = "none"]
  <2>1. Kernels' = Kernels \ {pid[c]}
    BY <1>4 DEF Kernels, Ours
  <2>2. QED
    BY <1>1, <2>1
<1>5. QED
  BY <1>2, <1>3, <1>4

\* Going over the kernels, a session passes those it has no more to look at, and only those.
LEMMA LookSteps ==
    ASSUME TypeOK, Core, NEW c \in Clients, ~WriteFails,
           CheckPid(c) \/ Unlink(c) \/ Scan(c) \/ ScanEnd(c) \/ Adopt(c) \/ Match(c)
             \/ StartDecide(c) \/ StartRm(c)
    PROVE  proc' = proc /\ (Passed(c)' => Passed(c) \/ Kernels = {})
<1> USE PidsAssumption DEF TypeOK, Core, CoreLabels, Callers, ResolveLabels, TermLabels, StopLabels,
      StartLabels
<1>1. proc' = proc
  BY DEF CheckPid, Unlink, Scan, ScanEnd, Adopt, Match, StartDecide, StartRm, shared
<1>2. \A p \in Pids : Managed(proc[p]) <=> p \in Kernels
  BY DEF Managed, Kernels, Ours, Kinds
<1>3. Kernels' = Kernels /\ Kernels \subseteq Pids
  BY <1>1 DEF Kernels
<1> DEFINE Told == Passed(c)' => Passed(c) \/ Kernels = {}
<1>4. ASSUME CheckPid(c) PROVE Told
  BY <1>4, <1>2, <1>3 DEF CheckPid, shared, locals, Go, RawCall, Resolved, Return, Status,
      Passed
<1>5. ASSUME Unlink(c) PROVE Told
  BY <1>5, <1>3 DEF Unlink, shared, locals, Go, Passed, Kernels, Ours
<1>6. ASSUME Scan(c) PROVE Told
  BY <1>6, <1>2, <1>3 DEF Scan, shared, locals, Go, Return, Status, Passed
<1>7. ASSUME ScanEnd(c) PROVE Told
  BY <1>7, <1>3 DEF ScanEnd, shared, locals, Go, Return, Status, Passed
<1>8. ASSUME Adopt(c) PROVE Told
  BY <1>8, <1>3 DEF Adopt, shared, locals, Go, RawCall, Resolved, Return, Status, Passed
<1>9. ASSUME Match(c) PROVE Told
  BY <1>9, <1>2, <1>3 DEF Match, shared, locals, Go, Return, Status, Passed
<1>10. ASSUME StartDecide(c) PROVE Told
  BY <1>10, <1>3 DEF StartDecide, shared, locals, Go, Status, Passed
<1>11. ASSUME StartRm(c) PROVE Told
  BY <1>11, <1>3 DEF StartRm, shared, locals, Go, Passed
<1> QED
  BY <1>1, <1>4, <1>5, <1>6, <1>7, <1>8, <1>9, <1>10, <1>11

\* A step of a session is one of four sorts, counted above.
LEMMA StepCounted ==
    ASSUME TypeOK, Core, Counted, TwoSessions, NEW c \in Clients, Step(c), ~ExecWindow, ~WriteFails
    PROVE  Counted'
<1>1. Elsewhere(c)
  BY StepElsewhere
<1>2. pc'[c] \notin Deciding => ~Passed(c)'
  BY DEF Passed, Deciding
<1>3. proc' = proc => Kernels' = Kernels
  BY DEF Kernels
<1>4. CASE Finish(c) \/ ActiveEnd(c) \/ ReadPid(c) \/ TermCheck(c) \/ TermWait(c) \/
             TermWait2(c) \/ StartWrite(c) \/ StartWait(c) \/ StartGiveUp(c) \/
             StartFailed(c) \/ StopDecide(c) \/ StopSignalFailed(c) \/ StopWait(c) \/
             StopWait2(c) \/ StopRm(c) \/ Stopped(c) \/ Started(c) \/ RestartDecide(c) \/
             OffDecide(c) \/ OffTun(c) \/ OffFinal(c)
  BY <1>1, <1>2, <1>3, <1>4, QuietSteps, CountStays
<1>5. CASE TermSignal(c) \/ TermKill(c) \/ StopSignal(c) \/ StopKill(c)
  <2>1. PICK k : Kernels' = Kernels \ {k}
    BY <1>5, KillSteps
  <2>2. ~Passed(c)'
    BY <1>2, <1>5, KillSteps
  <2>3. QED
    BY <1>1, <2>1, <2>2, CountFalls
<1>6. CASE CheckPid(c) \/ Unlink(c) \/ Scan(c) \/ ScanEnd(c) \/ Adopt(c) \/ Match(c)
             \/ StartDecide(c) \/ StartRm(c)
  BY <1>1, <1>3, <1>6, LookSteps, CountStays
<1>7. CASE StartFork(c)
  <2>1. Passed(c)
    BY <1>7 DEF StartFork, Passed
  <2>2. ~Passed(c)'
    BY <1>2, <1>7 DEF StartFork, Go, Deciding, TypeOK
  <2>3. CASE proc' = proc
    BY <1>1, <1>3, <2>2, <2>3, CountStays
  <2>4. CASE proc' # proc
    <3>1. PICK q \in Pids : proc' = [proc EXCEPT ![q] = "kernel"]
      BY <1>7, <2>4 DEF StartFork
    <3>2. Kernels' = Kernels \cup {q}
      BY <3>1 DEF Kernels, Ours, TypeOK
    <3>3. QED
      BY <1>1, <2>1, <2>2, <3>2, CountRises
  <2>5. QED
    BY <2>3, <2>4
<1>8. QED
  BY <1>4, <1>5, <1>6, <1>7, NeverSteps DEF Step

\* An interrupted session passes nothing; no kernel comes or goes by itself.
LEMMA OtherCounted ==
    ASSUME TypeOK, Core, Counted, TwoSessions, [Next]_vars, \A c \in Clients : ~Step(c),
           ~Crashes
    PROVE  Counted'
<1>1. ASSUME NEW c \in Clients, Interrupt(c) PROVE Counted'
  <2>1. pc[c] # "validating"
    BY DEF Core, CoreLabels, Callers, ResolveLabels, TermLabels, StopLabels, StartLabels
  <2>2. Kernels' = Kernels /\ pc'[c] = "idle" /\ Elsewhere(c)
    BY <1>1, <2>1 DEF Interrupt, Forget, Kernels, Elsewhere, TypeOK
  <2>3. QED
    BY <2>2, CountStays DEF Passed
<1>2. ASSUME NEW c \in Clients, NEW o \in Ops, Begin(c, o) PROVE Counted'
  <2>1. Kernels' = Kernels /\ Elsewhere(c)
    BY <1>2 DEF Begin, Resolve, Go, Kernels, Elsewhere, TypeOK, shared, locals
  <2>2. ~Passed(c)'
    BY <1>2 DEF Begin, Resolve, Go, Passed, TypeOK
  <2>3. QED
    BY <2>1, <2>2, CountStays
<1>3. ASSUME Kernels' = Kernels, UNCHANGED <<pc, ret, st, rp, todo>> PROVE Counted'
  <2>1. \A c \in Clients : Passed(c)' <=> Passed(c)
    BY <1>3 DEF Passed
  <2>2. QED
    BY <1>3, <2>1 DEF Counted
<1>4. ASSUME NEW p \in Pids, Exec(p) \/ Die(p) PROVE Counted'
  <2>1. Kernels' = Kernels
    BY <1>4 DEF Exec, Die, Kernels, Ours, TypeOK, Core
  <2>2. QED
    BY <1>3, <1>4, <2>1 DEF Exec, Die, locals
<1>5. ASSUME NEW p \in Pids, NEW k \in Bystanders, Recycle(p, k) PROVE Counted'
  <2>1. Kernels' = Kernels
    BY <1>5, BystandersAssumption DEF Recycle, Free, BystanderKinds, Kernels, Ours, TypeOK
  <2>2. QED
    BY <1>3, <1>5, <2>1 DEF Recycle, locals
<1>6. CASE UNCHANGED vars
  BY <1>3, <1>6 DEF vars, Kernels
<1>7. QED
  BY <1>1, <1>2, <1>4, <1>5, <1>6 DEF Next, World

LEMMA InitPair == Init => PairInv
<1> SUFFICES ASSUME Init PROVE PairInv
  OBVIOUS
<1>1. Core
  BY BystandersAssumption
  DEF Init, BystanderKinds, Core, CoreLabels, ResolveLabels, ServiceOps, TermLabels
<1>2. Counted
  BY DEF Init, Counted, Passed
<1>3. QED
  BY <1>1, <1>2, InitTypes DEF PairInv

\* Both bounds as cardinalities.
LEMMA TwoAtMost ==
    ASSUME IsFiniteSet(Clients), Cardinality(Clients) <= 2 PROVE TwoSessions
<1> SUFFICES ASSUME NEW c \in Clients, NEW d \in Clients, NEW e \in Clients,
                    c # d, c # e, d # e
             PROVE  FALSE
  BY DEF TwoSessions
<1>1. IsFiniteSet({c}) /\ Cardinality({c}) = 1
  BY FS_Singleton
<1>2. IsFiniteSet({c} \cup {d}) /\ Cardinality({c} \cup {d}) = 2
  <2>1. d \notin {c}
    OBVIOUS
  <2>2. QED
    BY ONLY <1>1, <2>1, FS_AddElement
<1>3. Cardinality(({c} \cup {d}) \cup {e}) = 3
  BY <1>2, FS_AddElement
<1>4. Cardinality(({c} \cup {d}) \cup {e}) <= Cardinality(Clients)
  BY FS_Subset
<1>5. Cardinality(Clients) \in Nat
  BY FS_CardinalityType
<1>6. QED
  BY <1>3, <1>4, <1>5

LEMMA CountedTwo ==
    ASSUME Counted PROVE Cardinality(Kernels) <= 2
<1>1. CASE Kernels = {}
  BY <1>1, FS_EmptySet
<1>2. ASSUME NEW p \in Kernels, Kernels = {p} PROVE Cardinality(Kernels) <= 2
  <2>1. Cardinality({p}) = 1
    BY FS_Singleton
  <2>2. QED
    BY <1>2, <2>1
<1>3. ASSUME NEW p \in Kernels, NEW q \in Kernels, p # q PROVE Cardinality(Kernels) <= 2
  <2>1. Kernels = {p} \cup {q}
    BY <1>3 DEF Counted
  <2>2. IsFiniteSet({p}) /\ Cardinality({p}) = 1
    BY FS_Singleton
  <2>3. Cardinality({p} \cup {q}) = 2
    BY <1>3, <2>2, FS_AddElement
  <2>4. QED
    BY <2>1, <2>3
<1>4. QED
  BY <1>1, <1>2, <1>3

\* Two sessions that run start, stop, restart, off and is_active at the same time, and may
\* be interrupted, leave two kernels at most (service.sh:188-227, 286-323, 372-393), for any
\* number of pids and attempts, any stale pid file and other processes coming and going.
THEOREM TwoSessionsTwoKernels ==
    ASSUME IsFiniteSet(Clients), Ops \subseteq ServiceOps, ~ExecWindow, ~Crashes, ~WriteFails
    PROVE  Spec => []KernelsOfTwoSessions
<1>1. CASE TwoSessions
  <2>1. PairInv /\ [Next]_vars => PairInv'
    <3> SUFFICES ASSUME PairInv, [Next]_vars PROVE PairInv'
      OBVIOUS
    <3>1. TypeOK'
      BY NextTypes DEF PairInv
    <3>2. CASE \E c \in Clients : Step(c)
      BY <1>1, <3>1, <3>2, StepCore, StepCounted DEF PairInv
    <3>3. CASE \A c \in Clients : ~Step(c)
      BY <1>1, <3>1, <3>3, OtherCore, OtherCounted DEF PairInv
    <3>4. QED
      BY <3>2, <3>3
  <2>2. PairInv => KernelsOfTwoSessions
    BY CountedTwo DEF PairInv, KernelsOfTwoSessions
  <2>3. QED
    BY <2>1, <2>2, InitPair, PTL DEF Spec
<1>2. CASE ~TwoSessions
  <2>1. KernelsOfTwoSessions
    BY <1>2, TwoAtMost DEF KernelsOfTwoSessions
  <2>2. QED
    BY <2>1, PTL
<1>3. QED
  BY <1>1, <1>2
=============================================================================
