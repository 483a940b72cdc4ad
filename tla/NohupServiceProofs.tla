------------------------- MODULE NohupServiceProofs -------------------------
(***************************************************************************)
(* Theorems about NohupService for any number of sessions and pids.        *)
(***************************************************************************)
EXTENDS NohupService, TLAPS

-----------------------------------------------------------------------------
\* The labels, as facts: the provers need not expand the sets again and again.
LEMMA LabelFacts ==
    /\ "idle" \in Labels
    /\ "done" \in Labels
    /\ "read" \in Labels
    /\ "check" \in Labels
    /\ "unlink" \in Labels
    /\ "scan" \in Labels
    /\ "adopt" \in Labels
    /\ "match" \in Labels
    /\ "start_rm" \in Labels
    /\ "start_fork" \in Labels
    /\ "start_write" \in Labels
    /\ "start_giveup" \in Labels
    /\ "start_failed" \in Labels
    /\ "sudo_fork" \in Labels
    /\ "sudo_write" \in Labels
    /\ "sudo_read" \in Labels
    /\ "sudo_giveup" \in Labels
    /\ "term_chk" \in Labels
    /\ "term" \in Labels
    /\ "term_wait" \in Labels
    /\ "term_kill" \in Labels
    /\ "term_wait2" \in Labels
    /\ "kill" \in Labels
    /\ "kill_failed" \in Labels
    /\ "stop_wait" \in Labels
    /\ "stop_kill" \in Labels
    /\ "stop_wait2" \in Labels
    /\ "stop_rm" \in Labels
    /\ "validate" \in Labels
    /\ "validating" \in Labels
    /\ "ports" \in Labels
    /\ "active_end" \in Labels
    /\ "start_dec" \in Labels
    /\ "start_wait" \in Labels
    /\ "sudo_wait" \in Labels
    /\ "stop_dec" \in Labels
    /\ "sudo_stop_dec" \in Labels
    /\ "stopped" \in Labels
    /\ "sudo_stopped" \in Labels
    /\ "started" \in Labels
    /\ "sudo_started" \in Labels
    /\ "restart_dec" \in Labels
    /\ "on_validated" \in Labels
    /\ "on_dec" \in Labels
    /\ "on_ports" \in Labels
    /\ "on_merged" \in Labels
    /\ "on_up" \in Labels
    /\ "ports_dec" \in Labels
    /\ "off_dec" \in Labels
    /\ "off_tun" \in Labels
    /\ "off_final" \in Labels
    /\ "tunon_dec" \in Labels
    /\ "tunon_merged" \in Labels
    /\ "tunoff_dec" \in Labels
    /\ "tunoff_stopped" \in Labels
    /\ "tunoff_merged" \in Labels
  BY DEF Labels, PlainLabels, ReturnLabels

-----------------------------------------------------------------------------
(* Type correctness *)

\* Every step of a session keeps every variable in its range (the program counter and
\* the return label among the labels, the wait counters between 0 and Attempts).
LEMMA StepTypes ==
    ASSUME TypeOK, NEW c \in Clients, Step(c) PROVE TypeOK'
<1> USE PidsAssumption, AttemptsAssumption, LabelFacts
<1>1. ASSUME Finish(c) PROVE TypeOK'
  BY <1>1 DEF Finish, TypeOK, Kinds, shared, locals, Forget
<1>2. ASSUME ActiveEnd(c) PROVE TypeOK'
  BY <1>2 DEF ActiveEnd, TypeOK, Kinds, shared, locals, Go
<1>3. ASSUME ReadPid(c) PROVE TypeOK'
  BY <1>3 DEF ReadPid, TypeOK, Kinds, shared, locals, Go
<1>4. ASSUME CheckPid(c) PROVE TypeOK'
  BY <1>4 DEF CheckPid, TypeOK, Kinds, shared, locals, Go, RawCall, Resolved,
      Return, Status
<1>5. ASSUME Unlink(c) PROVE TypeOK'
  BY <1>5 DEF Unlink, TypeOK, Kinds, shared, locals, Go
<1>6. ASSUME Scan(c) PROVE TypeOK'
  BY <1>6 DEF Scan, TypeOK, Kinds, shared, locals, Go, Return, Status
<1>7. ASSUME ScanEnd(c) PROVE TypeOK'
  BY <1>7 DEF ScanEnd, TypeOK, Kinds, shared, locals, Go, Return, Status
<1>8. ASSUME Adopt(c) PROVE TypeOK'
  BY <1>8 DEF Adopt, TypeOK, Kinds, shared, locals, Go, RawCall, Resolved,
      Return, Status
<1>9. ASSUME Match(c) PROVE TypeOK'
  BY <1>9 DEF Match, TypeOK, Kinds, shared, locals, Go, Return, Status
<1>10. ASSUME TermCheck(c) PROVE TypeOK'
  BY <1>10 DEF TermCheck, TypeOK, Kinds, shared, locals, Go
<1>11. ASSUME TermSignal(c) PROVE TypeOK'
  BY <1>11 DEF TermSignal, TypeOK, Kinds, shared, locals, Elevated, Go,
      Reachable, Terminate
<1>12. ASSUME TermWait(c) PROVE TypeOK'
  BY <1>12 DEF TermWait, TypeOK, Kinds, shared, locals, Go, WaitInactive
<1>13. ASSUME TermKill(c) PROVE TypeOK'
  <2>1. proc' \in [Pids -> Kinds]
    BY <1>13 DEF TermKill, TypeOK, Kinds, Kill
  <2>2. QED
    BY <1>13, <2>1 DEF TermKill, TypeOK, shared, locals, Elevated, Go
<1>14. ASSUME TermWait2(c) PROVE TypeOK'
  BY <1>14 DEF TermWait2, TypeOK, Kinds, shared, locals, Go, WaitInactive
<1>15. ASSUME StartDecide(c) PROVE TypeOK'
  BY <1>15 DEF StartDecide, TypeOK, Kinds, shared, locals, Go, Status
<1>16. ASSUME StartRm(c) PROVE TypeOK'
  BY <1>16 DEF StartRm, TypeOK, Kinds, shared, locals, Go
<1>17. ASSUME StartFork(c) PROVE TypeOK'
  BY <1>17 DEF StartFork, TypeOK, Kinds, shared, locals, Go, Status
<1>18. ASSUME StartWrite(c) PROVE TypeOK'
  BY <1>18 DEF StartWrite, TypeOK, Kinds, shared, locals, Go, Resolve
<1>19. ASSUME StartWait(c) PROVE TypeOK'
  BY <1>19 DEF StartWait, TypeOK, Kinds, shared, locals, Go, Resolve,
      WaitActive
<1>20. ASSUME StartGiveUp(c) PROVE TypeOK'
  BY <1>20 DEF StartGiveUp, TypeOK, Kinds, shared, locals, Go, Status
<1>21. ASSUME StartFailed(c) PROVE TypeOK'
  BY <1>21 DEF StartFailed, TypeOK, Kinds, shared, locals, Go, Status
<1>22. ASSUME SudoFork(c) PROVE TypeOK'
  BY <1>22 DEF SudoFork, TypeOK, Kinds, shared, locals, Go, Status
<1>23. ASSUME SudoWrite(c) PROVE TypeOK'
  BY <1>23 DEF SudoWrite, TypeOK, Kinds, shared, locals, Go, Resolve, Status
<1>24. ASSUME SudoWait(c) PROVE TypeOK'
  BY <1>24 DEF SudoWait, TypeOK, Kinds, shared, locals, Go, Resolve,
      WaitActive
<1>25. ASSUME SudoRead(c) PROVE TypeOK'
  BY <1>25 DEF SudoRead, TypeOK, Kinds, shared, locals, Go
<1>26. ASSUME SudoGiveUp(c) PROVE TypeOK'
  BY <1>26 DEF SudoGiveUp, TypeOK, Kinds, shared, locals, Go, Status
<1>27. ASSUME StopDecide(c) PROVE TypeOK'
  BY <1>27 DEF StopDecide, TypeOK, Kinds, shared, locals, Go, Status,
      StopElevated, StopReturn
<1>28. ASSUME StopSignal(c) PROVE TypeOK'
  BY <1>28 DEF StopSignal, TypeOK, Kinds, shared, locals, Go, Reachable,
      StopElevated, Terminate
<1>29. ASSUME StopSignalFailed(c) PROVE TypeOK'
  BY <1>29 DEF StopSignalFailed, TypeOK, Kinds, shared, locals, Go, Status,
      StopElevated, StopReturn
<1>30. ASSUME StopWait(c) PROVE TypeOK'
  BY <1>30 DEF StopWait, TypeOK, Kinds, shared, locals, Go, WaitInactive
<1>31. ASSUME StopKill(c) PROVE TypeOK'
  <2>1. proc' \in [Pids -> Kinds]
    BY <1>31 DEF StopKill, TypeOK, Kinds, Kill
  <2>2. /\ pc' \in [Clients -> Labels]
        /\ st' \in [Clients -> 0..2]
        /\ tries' \in [Clients -> 0..Attempts]
    <3>1. CASE Go(c, "stop_wait2") /\ st' = st /\ tries' = [tries EXCEPT ![c] = Attempts]
      BY <3>1 DEF TypeOK, Go
    <3>2. CASE StopReturn(c, 1) /\ tries' = tries
      BY <3>2 DEF TypeOK, Go, Status, StopReturn
    <3>3. QED
      BY <1>31, <3>1, <3>2 DEF StopKill
  <2>3. QED
    BY <1>31, <2>1, <2>2 DEF StopKill, TypeOK
<1>32. ASSUME StopWait2(c) PROVE TypeOK'
  BY <1>32 DEF StopWait2, TypeOK, Kinds, shared, locals, Go, Status,
      StopElevated, StopReturn, WaitInactive
<1>33. ASSUME StopRm(c) PROVE TypeOK'
  BY <1>33 DEF StopRm, TypeOK, Kinds, shared, locals, Go, Status,
      StopElevated, StopReturn
<1>34. ASSUME Validate(c) PROVE TypeOK'
  BY <1>34 DEF Validate, TypeOK, Kinds, shared, locals, Go, Return, Status
<1>35. ASSUME Validated(c) PROVE TypeOK'
  BY <1>35 DEF Validated, TypeOK, Kinds, shared, locals, Go, Return, Status
<1>36. ASSUME Stopped(c) PROVE TypeOK'
  BY <1>36 DEF Stopped, TypeOK, Kinds, shared, locals, Exit, Go, MergeConfig,
      Resolve, Status
<1>37. ASSUME SudoStopped(c) PROVE TypeOK'
  BY <1>37 DEF SudoStopped, TypeOK, Kinds, shared, locals, Exit, Go, Resolve,
      Status
<1>38. ASSUME Started(c) PROVE TypeOK'
  BY <1>38 DEF Started, TypeOK, Kinds, shared, locals, Exit, Go, Resolve,
      Status
<1>39. ASSUME SudoStarted(c) PROVE TypeOK'
  BY <1>39 DEF SudoStarted, TypeOK, Kinds, shared, locals, Exit, Go,
      MergeConfig, Status
<1>40. ASSUME RestartDecide(c) PROVE TypeOK'
  BY <1>40 DEF RestartDecide, TypeOK, Kinds, shared, locals, Exit, Go,
      Resolve, Status
<1>41. ASSUME OnValidated(c) PROVE TypeOK'
  BY <1>41 DEF OnValidated, TypeOK, Kinds, shared, locals, Exit, Go, Resolve,
      Status
<1>42. ASSUME OnDecide(c) PROVE TypeOK'
  BY <1>42 DEF OnDecide, TypeOK, Kinds, shared, locals, Go, Resolve
<1>43. ASSUME OnPorts(c) PROVE TypeOK'
  BY <1>43 DEF OnPorts, TypeOK, Kinds, shared, locals, Exit, Go, MergeConfig,
      Resolve, Status
<1>44. ASSUME OnMerged(c) PROVE TypeOK'
  BY <1>44 DEF OnMerged, TypeOK, Kinds, shared, locals, Go, Resolve
<1>45. ASSUME OnUp(c) PROVE TypeOK'
  BY <1>45 DEF OnUp, TypeOK, Kinds, shared, locals, Exit, Go, Status
<1>46. ASSUME Ports(c) PROVE TypeOK'
  BY <1>46 DEF Ports, TypeOK, Kinds, shared, locals, Exit, Go, Resolve, Status
<1>47. ASSUME PortsDecide(c) PROVE TypeOK'
  BY <1>47 DEF PortsDecide, TypeOK, Kinds, shared, locals, Exit, Go,
      PortsFailed, Resolve, Status
<1>48. ASSUME OffDecide(c) PROVE TypeOK'
  BY <1>48 DEF OffDecide, TypeOK, Kinds, shared, locals, Exit, Go, Resolve,
      Status
<1>49. ASSUME OffTun(c) PROVE TypeOK'
  BY <1>49 DEF OffTun, TypeOK, Kinds, shared, locals, Go, Resolve
<1>50. ASSUME OffFinal(c) PROVE TypeOK'
  BY <1>50 DEF OffFinal, TypeOK, Kinds, shared, locals, Exit, Go, Status
<1>51. ASSUME TunOnDecide(c) PROVE TypeOK'
  BY <1>51 DEF TunOnDecide, TypeOK, Kinds, shared, locals, Exit, Go, Resolve,
      Status
<1>52. ASSUME TunOnMerged(c) PROVE TypeOK'
  BY <1>52 DEF TunOnMerged, TypeOK, Kinds, shared, locals, Go, Resolve
<1>53. ASSUME TunOffDecide(c) PROVE TypeOK'
  BY <1>53 DEF TunOffDecide, TypeOK, Kinds, shared, locals, Exit, Go,
      Resolve, Status
<1>54. ASSUME TunOffStopped(c) PROVE TypeOK'
  BY <1>54 DEF TunOffStopped, TypeOK, Kinds, shared, locals, Exit, Go,
      MergeConfig, Status
<1>55. ASSUME TunOffMerged(c) PROVE TypeOK'
  BY <1>55 DEF TunOffMerged, TypeOK, Kinds, shared, locals, Go, Resolve
<1> QED
  BY <1>1, <1>2, <1>3, <1>4, <1>5, <1>6, <1>7, <1>8, <1>9, <1>10, <1>11,
      <1>12, <1>13, <1>14, <1>15, <1>16, <1>17, <1>18, <1>19, <1>20, <1>21,
      <1>22, <1>23, <1>24, <1>25, <1>26, <1>27, <1>28, <1>29, <1>30, <1>31,
      <1>32, <1>33, <1>34, <1>35, <1>36, <1>37, <1>38, <1>39, <1>40, <1>41,
      <1>42, <1>43, <1>44, <1>45, <1>46, <1>47, <1>48, <1>49, <1>50, <1>51,
      <1>52, <1>53, <1>54, <1>55 DEF Step

LEMMA InitTypes == Init => TypeOK
<1> SUFFICES ASSUME Init PROVE TypeOK
  OBVIOUS
<1>1. "none" \in Kinds /\ "kernel" \in Kinds /\ Bystanders \subseteq Kinds
  BY BystandersAssumption DEF Kinds, BystanderKinds
<1>2. proc \in [Pids -> Kinds]
  BY <1>1 DEF Init
<1>3. QED
  BY <1>2, PidsAssumption, AttemptsAssumption, LabelFacts DEF Init, TypeOK

LEMMA NextTypes == TypeOK /\ [Next]_vars => TypeOK'
<1> USE PidsAssumption, AttemptsAssumption, BystandersAssumption, OpsAssumption, LabelFacts
<1> SUFFICES ASSUME TypeOK, [Next]_vars PROVE TypeOK'
  OBVIOUS
<1>1. ASSUME NEW c \in Clients, Step(c) PROVE TypeOK'
  BY <1>1, StepTypes
<1>2. ASSUME NEW c \in Clients, Interrupt(c) PROVE TypeOK'
  <2>1. proc' \in [Pids -> Kinds]
    BY <1>2 DEF Interrupt, TypeOK, Kinds
  <2>2. QED
    BY <1>2, <2>1 DEF Interrupt, Forget, TypeOK
<1>3. ASSUME NEW c \in Clients, NEW o \in Ops, Begin(c, o) PROVE TypeOK'
  <2>1. First(o) \in Labels
    BY DEF First, OpNames
  <2>2. o \in OpNames
    OBVIOUS
  <2>3. QED
    BY <1>3, <2>1, <2>2 DEF Begin, Resolve, Go, TypeOK, shared, locals
<1>4. ASSUME NEW p \in Pids, Exec(p) \/ Die(p) PROVE TypeOK'
  BY <1>4 DEF Exec, Die, TypeOK, Kinds, locals
<1>5. ASSUME NEW p \in Pids, NEW k \in Bystanders, Recycle(p, k) PROVE TypeOK'
  <2>1. k \in Kinds
    BY DEF Kinds, BystanderKinds
  <2>2. QED
    BY <1>5, <2>1 DEF Recycle, TypeOK, locals
<1>6. CASE UNCHANGED vars
  BY <1>6 DEF vars, TypeOK
<1>7. QED
  BY <1>1, <1>2, <1>3, <1>4, <1>5, <1>6 DEF Next, World

\* TypeOK holds in every run: the control flow, the wait counters and the pids each
\* session holds stay what the code makes of them (scripts/lib/service.sh:7-393).
THEOREM TypeCorrect == Spec => []TypeOK
  BY InitTypes, NextTypes, PTL DEF Spec

-----------------------------------------------------------------------------
(* Signals hit kernels only *)

(***************************************************************************)
(* What a session that is about to signal a process knows of it.  A label  *)
(* reached by a return depends on `ret`, so the invariant first bounds the *)
(* labels each call can return to.                                         *)
(***************************************************************************)
ResolveReturns ==
    {"active_end", "start_dec", "start_wait", "sudo_wait", "stop_dec", "sudo_stop_dec",
     "restart_dec", "on_dec", "on_ports", "on_up", "ports_dec", "off_dec", "off_tun",
     "off_final", "tunoff_stopped"}
RawReturns == {"stop_dec", "sudo_stop_dec"}
ValidateReturns == {"on_validated", "on_merged", "tunon_merged", "tunoff_merged"}
TermReturns == {"start_failed", "start_giveup", "sudo_giveup"}

ReturnsInv(c) ==
    /\ pc[c] \in {"read", "check", "unlink", "scan", "adopt"} => ret[c] \in ResolveReturns
    /\ pc[c] = "match" => ret[c] \in ResolveReturns \ RawReturns
    /\ pc[c] \in {"validate", "validating"} => ret[c] \in ValidateReturns
    /\ pc[c] \in {"term_chk", "term", "term_wait", "term_kill", "term_wait2"}
          => ret[c] \in TermReturns

\* The process found by the scan, or about to be signalled, was seen to be a kernel and
\* its pid has not been given to a bystander since.
HeldInv(c) ==
    /\ pc[c] \in KillLabels => pid[c] \in Pids /\ proc[pid[c]] # "other"
    /\ pc[c] \in {"scan", "adopt"} \cup RawReturns /\ rp[c] \in Pids => proc[rp[c]] # "other"
    /\ pc[c] = "unlink" => rp[c] = NoPid
    /\ pc[c] = "adopt" => rp[c] \in Pids
    /\ pc[c] \in RawReturns /\ st[c] = 0 => rp[c] \in Pids

SignalInv == TypeOK /\ \A c \in Clients : ReturnsInv(c) /\ HeldInv(c)

\* No process turns into a bystander, or stops being one, in this step.
SameOthers == \A p \in Pids : proc'[p] = "other" <=> proc[p] = "other"

Holding == \A c \in Clients : ReturnsInv(c) /\ HeldInv(c)

\* A step of a session leaves bystanders alone, and what every session holds stays valid.
LEMMA StepHolds ==
    ASSUME SignalInv, NEW c \in Clients, Step(c) PROVE Holding' /\ SameOthers
<1> USE PidsAssumption DEF SignalInv, Holding, SameOthers, ReturnsInv, HeldInv, ResolveReturns,
      RawReturns, ValidateReturns, TermReturns, KillLabels, TypeOK, Kinds
<1>1. ASSUME Finish(c) PROVE Holding' /\ SameOthers
  BY <1>1 DEF Finish, shared, locals, Forget
<1>2. ASSUME ActiveEnd(c) PROVE Holding' /\ SameOthers
  BY <1>2 DEF ActiveEnd, shared, locals, Go
<1>3. ASSUME ReadPid(c) PROVE Holding' /\ SameOthers
  BY <1>3 DEF ReadPid, shared, locals, Go
<1>4. ASSUME CheckPid(c) PROVE Holding' /\ SameOthers
  BY <1>4 DEF CheckPid, shared, locals, Go, RawCall, Resolved, Return,
      Status, Managed
<1>5. ASSUME Unlink(c) PROVE Holding' /\ SameOthers
  BY <1>5 DEF Unlink, shared, locals, Go
<1>6. ASSUME Scan(c) PROVE Holding' /\ SameOthers
  BY <1>6 DEF Scan, shared, locals, Go, Return, Status, Managed
<1>7. ASSUME ScanEnd(c) PROVE Holding' /\ SameOthers
  BY <1>7 DEF ScanEnd, shared, locals, Go, Return, Status
<1>8. ASSUME Adopt(c) PROVE Holding' /\ SameOthers
  BY <1>8 DEF Adopt, shared, locals, Go, RawCall, Resolved, Return, Status
<1>9. ASSUME Match(c) PROVE Holding' /\ SameOthers
  BY <1>9 DEF Match, shared, locals, Go, Return, Status, Managed
<1>10. ASSUME TermCheck(c) PROVE Holding' /\ SameOthers
  BY <1>10 DEF TermCheck, shared, locals, Go, KernelArgv
<1>11. ASSUME TermSignal(c) PROVE Holding' /\ SameOthers
  BY <1>11 DEF TermSignal, shared, locals, Elevated, Go, Reachable,
      Terminate, KernelArgv
<1>12. ASSUME TermWait(c) PROVE Holding' /\ SameOthers
  BY <1>12 DEF TermWait, shared, locals, Go, WaitInactive, KernelArgv
<1>13. ASSUME TermKill(c) PROVE Holding' /\ SameOthers
  BY <1>13 DEF TermKill, shared, locals, Elevated, Go, Kill, Reachable
<1>14. ASSUME TermWait2(c) PROVE Holding' /\ SameOthers
  BY <1>14 DEF TermWait2, shared, locals, Go, WaitInactive, KernelArgv
<1>15. ASSUME StartDecide(c) PROVE Holding' /\ SameOthers
  BY <1>15 DEF StartDecide, shared, locals, Go, Status
<1>16. ASSUME StartRm(c) PROVE Holding' /\ SameOthers
  BY <1>16 DEF StartRm, shared, locals, Go
<1>17. ASSUME StartFork(c) PROVE Holding' /\ SameOthers
  BY <1>17 DEF StartFork, shared, locals, Go, Status, Free
<1>18. ASSUME StartWrite(c) PROVE Holding' /\ SameOthers
  BY <1>18 DEF StartWrite, shared, locals, Go, Resolve
<1>19. ASSUME StartWait(c) PROVE Holding' /\ SameOthers
  BY <1>19 DEF StartWait, shared, locals, Go, Resolve, WaitActive
<1>20. ASSUME StartGiveUp(c) PROVE Holding' /\ SameOthers
  BY <1>20 DEF StartGiveUp, shared, locals, Go, Status
<1>21. ASSUME StartFailed(c) PROVE Holding' /\ SameOthers
  BY <1>21 DEF StartFailed, shared, locals, Go, Status
<1>22. ASSUME SudoFork(c) PROVE Holding' /\ SameOthers
  BY <1>22 DEF SudoFork, shared, locals, Go, Status, Free
<1>23. ASSUME SudoWrite(c) PROVE Holding' /\ SameOthers
  BY <1>23 DEF SudoWrite, shared, locals, Go, Resolve, Status
<1>24. ASSUME SudoWait(c) PROVE Holding' /\ SameOthers
  BY <1>24 DEF SudoWait, shared, locals, Go, Resolve, WaitActive
<1>25. ASSUME SudoRead(c) PROVE Holding' /\ SameOthers
  BY <1>25 DEF SudoRead, shared, locals, Go
<1>26. ASSUME SudoGiveUp(c) PROVE Holding' /\ SameOthers
  BY <1>26 DEF SudoGiveUp, shared, locals, Go, Status
<1>27. ASSUME StopDecide(c) PROVE Holding' /\ SameOthers
  BY <1>27 DEF StopDecide, shared, locals, Go, Status, StopElevated,
      StopReturn
<1>28. ASSUME StopSignal(c) PROVE Holding' /\ SameOthers
  BY <1>28 DEF StopSignal, shared, locals, Go, Reachable, StopElevated,
      Terminate, KernelArgv
<1>29. ASSUME StopSignalFailed(c) PROVE Holding' /\ SameOthers
  BY <1>29 DEF StopSignalFailed, shared, locals, Go, Status, StopElevated,
      StopReturn, KernelArgv
<1>30. ASSUME StopWait(c) PROVE Holding' /\ SameOthers
  BY <1>30 DEF StopWait, shared, locals, Go, WaitInactive, KernelArgv
<1>31. ASSUME StopKill(c) PROVE Holding' /\ SameOthers
  BY <1>31 DEF StopKill, shared, locals, Go, Kill, Reachable, Status,
      StopElevated, StopReturn
<1>32. ASSUME StopWait2(c) PROVE Holding' /\ SameOthers
  BY <1>32 DEF StopWait2, shared, locals, Go, Status, StopElevated,
      StopReturn, WaitInactive, KernelArgv
<1>33. ASSUME StopRm(c) PROVE Holding' /\ SameOthers
  BY <1>33 DEF StopRm, shared, locals, Go, Status, StopElevated, StopReturn
<1>34. ASSUME Validate(c) PROVE Holding' /\ SameOthers
  BY <1>34 DEF Validate, shared, locals, Go, Return, Status, Free
<1>35. ASSUME Validated(c) PROVE Holding' /\ SameOthers
  BY <1>35 DEF Validated, shared, locals, Go, Return, Status
<1>36. ASSUME Stopped(c) PROVE Holding' /\ SameOthers
  BY <1>36 DEF Stopped, shared, locals, Exit, Go, MergeConfig, Resolve, Status
<1>37. ASSUME SudoStopped(c) PROVE Holding' /\ SameOthers
  BY <1>37 DEF SudoStopped, shared, locals, Exit, Go, Resolve, Status
<1>38. ASSUME Started(c) PROVE Holding' /\ SameOthers
  BY <1>38 DEF Started, shared, locals, Exit, Go, Resolve, Status
<1>39. ASSUME SudoStarted(c) PROVE Holding' /\ SameOthers
  BY <1>39 DEF SudoStarted, shared, locals, Exit, Go, MergeConfig, Status
<1>40. ASSUME RestartDecide(c) PROVE Holding' /\ SameOthers
  BY <1>40 DEF RestartDecide, shared, locals, Exit, Go, Resolve, Status
<1>41. ASSUME OnValidated(c) PROVE Holding' /\ SameOthers
  BY <1>41 DEF OnValidated, shared, locals, Exit, Go, Resolve, Status
<1>42. ASSUME OnDecide(c) PROVE Holding' /\ SameOthers
  BY <1>42 DEF OnDecide, shared, locals, Go, Resolve
<1>43. ASSUME OnPorts(c) PROVE Holding' /\ SameOthers
  BY <1>43 DEF OnPorts, shared, locals, Exit, Go, MergeConfig, Resolve, Status
<1>44. ASSUME OnMerged(c) PROVE Holding' /\ SameOthers
  BY <1>44 DEF OnMerged, shared, locals, Go, Resolve
<1>45. ASSUME OnUp(c) PROVE Holding' /\ SameOthers
  BY <1>45 DEF OnUp, shared, locals, Exit, Go, Status
<1>46. ASSUME Ports(c) PROVE Holding' /\ SameOthers
  BY <1>46 DEF Ports, shared, locals, Exit, Go, Resolve, Status
<1>47. ASSUME PortsDecide(c) PROVE Holding' /\ SameOthers
  BY <1>47 DEF PortsDecide, shared, locals, Exit, Go, PortsFailed, Resolve,
      Status
<1>48. ASSUME OffDecide(c) PROVE Holding' /\ SameOthers
  BY <1>48 DEF OffDecide, shared, locals, Exit, Go, Resolve, Status
<1>49. ASSUME OffTun(c) PROVE Holding' /\ SameOthers
  BY <1>49 DEF OffTun, shared, locals, Go, Resolve
<1>50. ASSUME OffFinal(c) PROVE Holding' /\ SameOthers
  BY <1>50 DEF OffFinal, shared, locals, Exit, Go, Status
<1>51. ASSUME TunOnDecide(c) PROVE Holding' /\ SameOthers
  BY <1>51 DEF TunOnDecide, shared, locals, Exit, Go, Resolve, Status
<1>52. ASSUME TunOnMerged(c) PROVE Holding' /\ SameOthers
  BY <1>52 DEF TunOnMerged, shared, locals, Go, Resolve
<1>53. ASSUME TunOffDecide(c) PROVE Holding' /\ SameOthers
  BY <1>53 DEF TunOffDecide, shared, locals, Exit, Go, Resolve, Status
<1>54. ASSUME TunOffStopped(c) PROVE Holding' /\ SameOthers
  BY <1>54 DEF TunOffStopped, shared, locals, Exit, Go, MergeConfig, Status
<1>55. ASSUME TunOffMerged(c) PROVE Holding' /\ SameOthers
  BY <1>55 DEF TunOffMerged, shared, locals, Go, Resolve
<1> QED
  BY <1>1, <1>2, <1>3, <1>4, <1>5, <1>6, <1>7, <1>8, <1>9, <1>10, <1>11,
      <1>12, <1>13, <1>14, <1>15, <1>16, <1>17, <1>18, <1>19, <1>20, <1>21,
      <1>22, <1>23, <1>24, <1>25, <1>26, <1>27, <1>28, <1>29, <1>30, <1>31,
      <1>32, <1>33, <1>34, <1>35, <1>36, <1>37, <1>38, <1>39, <1>40, <1>41,
      <1>42, <1>43, <1>44, <1>45, <1>46, <1>47, <1>48, <1>49, <1>50, <1>51,
      <1>52, <1>53, <1>54, <1>55 DEF Step

\* So does every step that is not a session's: a new process is given a free pid that
\* nobody is about to signal, and an interrupted command takes down no more than the
\* validation it waits for.
LEMMA OtherHolds ==
    ASSUME SignalInv, [Next]_vars, \A c \in Clients : ~Step(c)
    PROVE  Holding' /\ \A p \in Pids : proc[p] = "other" => proc'[p] = "other"
<1> USE PidsAssumption DEF SignalInv, Holding, ReturnsInv, HeldInv, RawReturns, KillLabels,
      TypeOK, Kinds
<1>1. ASSUME NEW c \in Clients, Interrupt(c)
      PROVE  Holding' /\ \A p \in Pids : proc[p] = "other" => proc'[p] = "other"
  BY <1>1 DEF Interrupt, Forget
<1>2. ASSUME NEW c \in Clients, NEW o \in Ops, Begin(c, o)
      PROVE  Holding' /\ \A p \in Pids : proc[p] = "other" => proc'[p] = "other"
  BY <1>2, OpsAssumption
     DEF Begin, Resolve, Go, First, OpNames, ResolveReturns, ValidateReturns, shared, locals
<1>3. ASSUME NEW p \in Pids, Exec(p) \/ Die(p)
      PROVE  Holding' /\ \A q \in Pids : proc[q] = "other" => proc'[q] = "other"
  BY <1>3 DEF Exec, Die, Ours, locals
<1>4. ASSUME NEW p \in Pids, NEW k \in Bystanders, Recycle(p, k)
      PROVE  Holding' /\ \A q \in Pids : proc[q] = "other" => proc'[q] = "other"
  BY <1>4 DEF Recycle, Free, Pinned, locals
<1>5. CASE UNCHANGED vars
  BY <1>5 DEF vars
<1>6. QED
  BY <1>1, <1>2, <1>3, <1>4, <1>5 DEF Next, World

\* SignalInv holds in every run: a session that is about to signal, or that has found a
\* process to adopt, holds the pid of a process that is not a bystander.
THEOREM SignalsVerified == Spec => []SignalInv
<1>1. Init => SignalInv
  <2>1. Init => TypeOK
    BY InitTypes
  <2>2. Init => \A c \in Clients : ReturnsInv(c) /\ HeldInv(c)
    BY DEF Init, ReturnsInv, HeldInv, KillLabels, RawReturns
  <2>3. QED
    BY <2>1, <2>2 DEF SignalInv
<1>2. SignalInv /\ [Next]_vars => SignalInv'
  <2> SUFFICES ASSUME SignalInv, [Next]_vars PROVE SignalInv'
    OBVIOUS
  <2>1. TypeOK'
    BY NextTypes DEF SignalInv
  <2>2. Holding'
    BY StepHolds, OtherHolds
  <2>3. QED
    BY <2>1, <2>2 DEF SignalInv, Holding
<1>3. QED
  BY <1>1, <1>2, PTL DEF Spec

\* No command ever signals a process that is not a proxy kernel, for any number of
\* sessions, any stale pid file and any crash between two steps (service.sh:132-149,
\* 261-323).
THEOREM BystandersAreSafe == Spec => BystandersSafe
<1>1. SignalInv /\ [Next]_vars
        => [\A p \in Pids : proc[p] = "other" => proc'[p] = "other"]_vars
  <2> SUFFICES ASSUME SignalInv, [Next]_vars, NEW p \in Pids, proc[p] = "other"
               PROVE  proc'[p] = "other"
    BY DEF SignalInv
  <2>1. ASSUME NEW c \in Clients, Step(c) PROVE proc'[p] = "other"
    BY <2>1, StepHolds DEF SameOthers
  <2>2. QED
    BY <2>1, OtherHolds DEF Next
<1>2. QED
  BY <1>1, SignalsVerified, PTL DEF Spec, BystandersSafe
=============================================================================
