-------------------------- MODULE MseDeployProofs --------------------------
(***************************************************************************)
(* All the properties of MseDeploy, for every list of steps, every set of  *)
(* files and every number of versions the user writes.                     *)
(***************************************************************************)
EXTENDS MseDeploy, TLAPS

(***************************************************************************)
(* The invariant, in seven parts.                                          *)
(***************************************************************************)
\* A file of the user's at its path is the one written last; what the code moves or links
\* over has been looked at or removed before.
Values == Versions \cup {None, Ours}

FilesInv ==
    /\ target \in [Files -> Values]
    /\ bak \in [Files -> Values]
    /\ latest \in [Files -> Versions \cup {0}]
    /\ \A f \in Files : target[f] \in Versions => target[f] = latest[f]
    /\ pc = "move" => Own(CurrentFile)
    /\ pc = "zmove" => bak[Zprofile] = None
    /\ pc = "zlink" => target[Zprofile] = None

\* The labels before, in and after the loop over the steps.
Loop == {"step", "clear", "move", "place", "tool"}
First == {"idle", "preflight", "check", "unpack", "restart", "bootstrap"}
Last == {"zclear", "zmove", "zunlink", "zlink", "sync", "open", "header", "keys", "done"}

\* The steps of S that come before position k.
Before(S, k) == {s \in S : \E i \in DOMAIN Available : i < k /\ Available[i] = s}

\* Where the command is in the list of steps, and which step it is at.
Places ==
    /\ sel \subseteq Steps /\ saved \subseteq Steps
    /\ saved = {} \/ saved = sel
    /\ pos \in 0..Len(Available) + 1
    /\ pc \in First \cup Loop \cup Last
    /\ pc \in First => pos = 0
    /\ pc = "idle" => saved = {}
    /\ pc \in {"clear", "move", "place", "tool"} =>
          pos = 0 \/ (pos \in DOMAIN Available /\ Available[pos] \in sel \ {Clash})
    /\ pc \in {"clear", "move", "place"} /\ pos # 0 => Available[pos] \in DOMAIN FileOf
    /\ pc = "tool" => pos # 0 /\ Available[pos] \in Tools

\* The steps that have succeeded are those before this one, and clashctl, which runs first.
RanOK ==
    /\ pc \in First \ {"bootstrap"} => ran = {}
    /\ pc \in First \ {"idle"} => Clash \in sel
    /\ pc \in Loop \cup {"bootstrap"} => ran = (sel \cap {Clash}) \cup Before(sel, pos)
    /\ pc \in Last => ran = sel

\* Preferences, torn or whole, never name a step that was switched off when they were
\* last opened; while they are written they hold the steps so far.
PrefsOK ==
    /\ prefs \in [on : SUBSET Steps, zp : BOOLEAN]
    /\ unwanted \in SUBSET Steps
    /\ prefs.on \cap unwanted = {}
    /\ saved # {} \/ pc \in {"header", "keys"} => sel \cap unwanted = {}
    /\ pc = "header" => prefs.on = {}
    /\ pc = "keys" => pos > 0 /\ prefs.on = Before(sel, pos)
    /\ pc = "done" => prefs.on = sel

Flags ==
    /\ zp \in BOOLEAN /\ again \in BOOLEAN /\ unseen \in BOOLEAN /\ settled \in BOOLEAN
    /\ bin \in BOOLEAN
    /\ kern \in {"down", "current", "old"}

\* Every tool that has succeeded has its entry; after sync only those.
EntriesOK ==
    /\ entry \subseteq Tools
    /\ pc \in (Loop \cup Last) \ {"tool", "open", "header", "keys", "done"} =>
          ran \cap Tools \subseteq entry
    /\ pc = "tool" => (ran \ {Available[pos]}) \cap Tools \subseteq entry
    /\ pc \in {"open", "header", "keys", "done"} => entry = sel \cap Tools
    /\ settled => pc = "idle" /\ entry = prefs.on \cap Tools

\* Old binaries run only until the restart: a kernel that runs when they are replaced was
\* seen by the check, and then `again` is set, or was not, or was started since.
KernelOK ==
    /\ pc = "unpack" /\ ~again /\ Up => unseen
    /\ Clash \in ran /\ ~unseen => kern # "old"

IInv == FilesInv /\ Places /\ RanOK /\ Flags /\ PrefsOK /\ EntriesOK /\ KernelOK

-----------------------------------------------------------------------------
(***************************************************************************)
(* Facts about the constants, and about the steps before a position.       *)
(***************************************************************************)
LEMMA FileFacts ==
    /\ Zprofile \in Files
    /\ MaxEdits \in Nat /\ Versions \subseteq Nat
    /\ None \notin Versions /\ Ours \notin Versions
    /\ \A n \in Versions \cup {0} : n < MaxEdits => n + 1 \in Versions
  BY EditsAssumption DEF Files, EditsAssumption, Versions

LEMMA Order ==
    /\ Len(Available) \in Nat /\ DOMAIN Available = 1..Len(Available)
    /\ \A i \in DOMAIN Available : Available[i] \in Steps
    /\ \A s \in Steps : \E i \in DOMAIN Available : Available[i] = s
  BY OrderAssumption DEF OrderAssumption, Steps

LEMMA BeforeNext ==
    ASSUME NEW S, NEW k \in DOMAIN Available
    PROVE  Before(S, k + 1) = Before(S, k) \cup ({Available[k]} \cap S)
  BY Order DEF Before

LEMMA BeforeAll ==
    ASSUME NEW S \in SUBSET Steps, NEW k \in Nat, k > Len(Available)
    PROVE  Before(S, k) = S
  BY Order DEF Before

LEMMA BeforeNone == \A S : Before(S, 0) = {} /\ Before(S, 1) = {}
  BY Order DEF Before

-----------------------------------------------------------------------------
(***************************************************************************)
(* The user's files.                                                       *)
(***************************************************************************)
LEMMA FilesStep ==
    ASSUME FilesInv, Next
    PROVE  FilesInv'
<1> USE FileFacts DEF FilesInv, Own, CurrentFile, Current, Values, Go, End, Fail, Succeed
<1>1. CASE Deploy
  BY <1>1 DEF Deploy, Start, disk
<1>2. CASE Update
  BY <1>2 DEF Update, Start, Reused, disk
<1>3. CASE Preflight
  BY <1>3 DEF Preflight, ClashOn, Up, disk, locals
<1>4. CASE Check
  BY <1>4 DEF Check, Up, disk
<1>5. CASE Unpack
  BY <1>5 DEF Unpack, Up, disk, locals
<1>6. CASE Restart
  BY <1>6 DEF Restart, disk
<1>7. CASE Bootstrap
  BY <1>7 DEF Bootstrap, ClashOn, Up, disk, locals
<1>8. CASE Skip
  BY <1>8 DEF Skip, NextStep, disk, locals, history
<1>9. CASE Enter
  BY <1>9 DEF Enter, NextStep, Clones, disk, locals
<1>10. CASE Clear
  BY <1>10 DEF Clear, locals
<1>11. CASE Move
  BY <1>11 DEF Move, locals
<1>12. CASE Place
  BY <1>12 DEF Place, NextStep, locals
<1>13. CASE EntryGone
  BY <1>13 DEF EntryGone, locals
<1>14. CASE EntryMade
  BY <1>14 DEF EntryMade, NextStep
<1>15. CASE StepsDone
  BY <1>15 DEF StepsDone, disk, locals
<1>16. CASE ZClear
  BY <1>16 DEF ZClear, locals
<1>17. CASE ZMove
  BY <1>17 DEF ZMove, locals
<1>18. CASE ZUnlink
  BY <1>18 DEF ZUnlink, locals
<1>19. CASE ZLink
  BY <1>19 DEF ZLink, locals
<1>20. CASE Sync
  BY <1>20 DEF Sync, locals
<1>21. CASE Open
  BY <1>21 DEF Open, locals
<1>22. CASE Header
  BY <1>22 DEF Header, locals
<1>23. CASE Key
  BY <1>23 DEF Key, NextStep, Enabled, locals
<1>24. CASE KeysDone
  BY <1>24 DEF KeysDone, disk, locals
<1>25. CASE Finish
  BY <1>25 DEF Finish, disk
<1>26. CASE Interrupt
  BY <1>26 DEF Interrupt, disk
<1>27. CASE EditPrefs
  BY <1>27 DEF EditPrefs, locals
<1>28. CASE KernelStarts
  BY <1>28 DEF KernelStarts, Up, disk, history
<1>29. CASE KernelEnds
  BY <1>29 DEF KernelEnds, Up, disk, history
<1>30. ASSUME NEW f \in Files, Write(f) PROVE FilesInv'
  BY <1>30 DEF Write, locals, history
<1> QED
  BY <1>1, <1>2, <1>3, <1>4, <1>5, <1>6, <1>7, <1>8, <1>9, <1>10, <1>11, <1>12, <1>13,
     <1>14, <1>15, <1>16, <1>17, <1>18, <1>19, <1>20, <1>21, <1>22, <1>23, <1>24, <1>25, <1>26,
     <1>27, <1>28, <1>29, <1>30
  DEF Next, Command

\* Each step keeps the last version of each file, with the one exception.
LEMMA Keeps ==
    ASSUME FilesInv, NEW f \in Files, Kept(f), Next
    PROVE  Kept(f)' \/ (f = Zprofile /\ TemplateAgain)
<1> USE FileFacts DEF FilesInv, Own, CurrentFile, Current, Values, Kept, TemplateAgain
<1>1. CASE Deploy
  BY <1>1 DEF Deploy, Start, disk
<1>2. CASE Update
  BY <1>2 DEF Update, Start, Reused, disk
<1>3. CASE Preflight
  BY <1>3 DEF Preflight, ClashOn, Up, disk, locals
<1>4. CASE Check
  BY <1>4 DEF Check, Up, disk
<1>5. CASE Unpack
  BY <1>5 DEF Unpack, Up, disk, locals
<1>6. CASE Restart
  BY <1>6 DEF Restart, disk
<1>7. CASE Bootstrap
  BY <1>7 DEF Bootstrap, ClashOn, Up, disk, locals
<1>8. CASE Skip
  BY <1>8 DEF Skip, NextStep, disk, locals, history
<1>9. CASE Enter
  BY <1>9 DEF Enter, NextStep, Clones, disk, locals
<1>10. CASE Clear
  BY <1>10 DEF Clear, locals
<1>11. CASE Move
  BY <1>11 DEF Move, locals
<1>12. CASE Place
  BY <1>12 DEF Place, NextStep, locals
<1>13. CASE EntryGone
  BY <1>13 DEF EntryGone, locals
<1>14. CASE EntryMade
  BY <1>14 DEF EntryMade, NextStep
<1>15. CASE StepsDone
  BY <1>15 DEF StepsDone, disk, locals
<1>16. CASE ZClear
  BY <1>16 DEF ZClear, locals
<1>17. CASE ZMove
  BY <1>17 DEF ZMove, locals
<1>18. CASE ZUnlink
  BY <1>18 DEF ZUnlink, locals
<1>19. CASE ZLink
  BY <1>19 DEF ZLink, locals
<1>20. CASE Sync
  BY <1>20 DEF Sync, locals
<1>21. CASE Open
  BY <1>21 DEF Open, locals
<1>22. CASE Header
  BY <1>22 DEF Header, locals
<1>23. CASE Key
  BY <1>23 DEF Key, NextStep, Enabled, locals
<1>24. CASE KeysDone
  BY <1>24 DEF KeysDone, disk, locals
<1>25. CASE Finish
  BY <1>25 DEF Finish, disk
<1>26. CASE Interrupt
  BY <1>26 DEF Interrupt, disk
<1>27. CASE EditPrefs
  BY <1>27 DEF EditPrefs, locals
<1>28. CASE KernelStarts
  BY <1>28 DEF KernelStarts, Up, disk, history
<1>29. CASE KernelEnds
  BY <1>29 DEF KernelEnds, Up, disk, history
<1>30. ASSUME NEW g \in Files, Write(g) PROVE Kept(f)' \/ (f = Zprofile /\ TemplateAgain)
  BY <1>30 DEF Write, locals, history
<1> QED
  BY <1>1, <1>2, <1>3, <1>4, <1>5, <1>6, <1>7, <1>8, <1>9, <1>10, <1>11, <1>12, <1>13,
     <1>14, <1>15, <1>16, <1>17, <1>18, <1>19, <1>20, <1>21, <1>22, <1>23, <1>24, <1>25, <1>26,
     <1>27, <1>28, <1>29, <1>30
  DEF Next, Command

-----------------------------------------------------------------------------
(***************************************************************************)
(* The place in the list of steps, and the steps that have succeeded.      *)
(***************************************************************************)
\* A failure, a signal or the end.
LEMMA EndStep == ASSUME NEW b \in BOOLEAN, End(b) PROVE Places' /\ RanOK'
  BY Order DEF End, Places, RanOK, First, Loop, Last

LEMMA PlacesStep ==
    ASSUME Places, prefs.on \in SUBSET Steps, ~Fail, ~End(TRUE), Next
    PROVE  Places'
<1> USE Order DEF Places, First, Loop, Last, Go, Succeed
<1>1. CASE Deploy
  BY <1>1 DEF Deploy, Start, disk
<1>2. CASE Update
  <2>1. Reused \in SUBSET Steps /\ (prefs.on = {} \/ Reused = prefs.on)
    BY DEF Reused
  <2> QED
    BY <1>2, <2>1 DEF Update, Start
<1>3. CASE Preflight
  BY <1>3 DEF Preflight, ClashOn, Up, disk, locals
<1>4. CASE Check
  BY <1>4 DEF Check, Up, disk
<1>5. CASE Unpack
  BY <1>5 DEF Unpack, Up, disk, locals
<1>6. CASE Restart
  BY <1>6 DEF Restart, disk
<1>7. CASE Bootstrap
  BY <1>7 DEF Bootstrap, ClashOn, Up, disk, locals
<1>8. CASE Skip
  BY <1>8 DEF Skip, NextStep, Current, disk, locals, history
<1>9. CASE Enter
  BY <1>9 DEF Enter, NextStep, Clones, Current, disk, locals
<1>10. CASE Clear
  BY <1>10 DEF Clear, locals
<1>11. CASE Move
  BY <1>11 DEF Move, locals
<1>12. CASE Place
  BY <1>12 DEF Place, NextStep, Current, locals
<1>13. CASE EntryGone
  BY <1>13, StepsAssumption DEF EntryGone, Current, locals, StepsAssumption
<1>14. CASE EntryMade
  BY <1>14 DEF EntryMade, NextStep, Current
<1>15. CASE StepsDone
  BY <1>15 DEF StepsDone, disk, locals
<1>16. CASE ZClear
  BY <1>16 DEF ZClear, locals
<1>17. CASE ZMove
  BY <1>17 DEF ZMove, locals
<1>18. CASE ZUnlink
  BY <1>18 DEF ZUnlink, locals
<1>19. CASE ZLink
  BY <1>19 DEF ZLink, locals
<1>20. CASE Sync
  BY <1>20 DEF Sync, locals
<1>21. CASE Open
  BY <1>21 DEF Open, locals
<1>22. CASE Header
  BY <1>22 DEF Header, locals
<1>23. CASE Key
  BY <1>23 DEF Key, NextStep, Current, Enabled, locals
<1>24. CASE KeysDone
  BY <1>24 DEF KeysDone, disk, locals
<1>25. CASE Finish
  BY <1>25 DEF Finish, disk
<1>26. CASE Interrupt
  BY <1>26 DEF Interrupt, disk
<1>27. CASE EditPrefs
  BY <1>27 DEF EditPrefs, locals
<1>28. CASE KernelStarts
  BY <1>28 DEF KernelStarts, Up, disk, history
<1>29. CASE KernelEnds
  BY <1>29 DEF KernelEnds, Up, disk, history
<1>30. ASSUME NEW f \in Files, Write(f) PROVE Places'
  BY <1>30 DEF Write, locals, history
<1> QED
  BY <1>1, <1>2, <1>3, <1>4, <1>5, <1>6, <1>7, <1>8, <1>9, <1>10, <1>11, <1>12, <1>13,
     <1>14, <1>15, <1>16, <1>17, <1>18, <1>19, <1>20, <1>21, <1>22, <1>23, <1>24, <1>25, <1>26,
     <1>27, <1>28, <1>29, <1>30
  DEF Next, Command

LEMMA RanStep ==
    ASSUME Places, RanOK, ~Fail, ~End(TRUE), Next
    PROVE  RanOK'
<1> USE Order, BeforeNext, BeforeAll, BeforeNone DEF Places, RanOK, First, Loop, Last, Go,
        Succeed
<1>1. CASE Deploy
  BY <1>1 DEF Deploy, Start, disk
<1>2. CASE Update
  BY <1>2 DEF Update, Start, Reused, disk
<1>3. CASE Preflight
  BY <1>3 DEF Preflight, ClashOn, Up, disk, locals
<1>4. CASE Check
  BY <1>4 DEF Check, Up, disk
<1>5. CASE Unpack
  BY <1>5 DEF Unpack, Up, disk, locals
<1>6. CASE Restart
  BY <1>6 DEF Restart, disk
<1>7. CASE Bootstrap
  BY <1>7 DEF Bootstrap, ClashOn, Up, disk, locals
<1>8. CASE Skip
  BY <1>8 DEF Skip, NextStep, Current, disk, locals, history
<1>9. CASE Enter
  BY <1>9 DEF Enter, NextStep, Clones, Current, disk, locals
<1>10. CASE Clear
  BY <1>10 DEF Clear, locals
<1>11. CASE Move
  BY <1>11 DEF Move, locals
<1>12. CASE Place
  <2>1. pos = 0 => ran = (sel \cap {Clash}) \cup Before(sel, 0)
    BY <1>12 DEF Place
  <2>2. CASE pos = 0
    BY <1>12, <2>1, <2>2 DEF Place, NextStep, locals
  <2>3. CASE pos \in DOMAIN Available /\ Current \in sel \ {Clash}
    <3>1. Before(sel, pos + 1) = Before(sel, pos) \cup {Current}
      BY <2>3 DEF Current
    <3> QED
      BY <1>12, <2>3, <3>1 DEF Place, NextStep
  <2> QED
    BY <1>12, <2>2, <2>3 DEF Place, Current
<1>13. CASE EntryGone
  BY <1>13 DEF EntryGone, Current, locals
<1>14. CASE EntryMade
  <2>1. pos \in DOMAIN Available /\ Available[pos] \in sel \ {Clash}
    BY <1>14 DEF EntryMade
  <2>2. ran = (sel \cap {Clash}) \cup Before(sel, pos)
    BY <1>14 DEF EntryMade
  <2>3. ran' = ran \cup {Available[pos]} /\ pos' = pos + 1 /\ sel' = sel /\ pc' = "step"
    BY <1>14 DEF EntryMade, NextStep, Current
  <2>4. ran' = (sel \cap {Clash}) \cup Before(sel, pos + 1)
    BY <2>1, <2>2, <2>3
  <2> QED
    BY <2>3, <2>4
<1>15. CASE StepsDone
  <2>1. Before(sel, pos) = sel
    BY <1>15 DEF StepsDone
  <2>2. ran = sel
    BY <1>15, <2>1 DEF StepsDone
  <2> QED
    BY <1>15, <2>2 DEF StepsDone, locals
<1>16. CASE ZClear
  BY <1>16 DEF ZClear, locals
<1>17. CASE ZMove
  BY <1>17 DEF ZMove, locals
<1>18. CASE ZUnlink
  BY <1>18 DEF ZUnlink, locals
<1>19. CASE ZLink
  BY <1>19 DEF ZLink, locals
<1>20. CASE Sync
  BY <1>20 DEF Sync, locals
<1>21. CASE Open
  BY <1>21 DEF Open, locals
<1>22. CASE Header
  BY <1>22 DEF Header, locals
<1>23. CASE Key
  BY <1>23 DEF Key, NextStep, Current, Enabled, locals
<1>24. CASE KeysDone
  BY <1>24 DEF KeysDone, disk, locals
<1>25. CASE Finish
  BY <1>25 DEF Finish, disk
<1>26. CASE Interrupt
  BY <1>26 DEF Interrupt, disk
<1>27. CASE EditPrefs
  BY <1>27 DEF EditPrefs, locals
<1>28. CASE KernelStarts
  BY <1>28 DEF KernelStarts, Up, disk, history
<1>29. CASE KernelEnds
  BY <1>29 DEF KernelEnds, Up, disk, history
<1>30. ASSUME NEW f \in Files, Write(f) PROVE RanOK'
  BY <1>30 DEF Write, locals, history
<1> QED
  BY <1>1, <1>2, <1>3, <1>4, <1>5, <1>6, <1>7, <1>8, <1>9, <1>10, <1>11, <1>12, <1>13,
     <1>14, <1>15, <1>16, <1>17, <1>18, <1>19, <1>20, <1>21, <1>22, <1>23, <1>24, <1>25, <1>26,
     <1>27, <1>28, <1>29, <1>30
  DEF Next, Command

-----------------------------------------------------------------------------
(***************************************************************************)
(* Flags and kernel.                                                       *)
(***************************************************************************)
LEMMA FlagsStep ==
    ASSUME Flags, prefs.zp \in BOOLEAN, Next
    PROVE  Flags'
<1> USE DEF Flags, Go, Succeed, End, Fail
<1>1. CASE Deploy
  BY <1>1 DEF Deploy, Start, disk
<1>2. CASE Update
  BY <1>2 DEF Update, Start, Reused, disk
<1>3. CASE Preflight
  BY <1>3 DEF Preflight, ClashOn, Up, disk, locals
<1>4. CASE Check
  BY <1>4 DEF Check, Up, disk
<1>5. CASE Unpack
  BY <1>5 DEF Unpack, Up, disk, locals
<1>6. CASE Restart
  BY <1>6 DEF Restart, disk
<1>7. CASE Bootstrap
  BY <1>7 DEF Bootstrap, ClashOn, Up, disk, locals
<1>8. CASE Skip
  BY <1>8 DEF Skip, NextStep, Current, disk, locals, history
<1>9. CASE Enter
  BY <1>9 DEF Enter, NextStep, Clones, Current, disk, locals
<1>10. CASE Clear
  BY <1>10 DEF Clear, locals
<1>11. CASE Move
  BY <1>11 DEF Move, locals
<1>12. CASE Place
  BY <1>12 DEF Place, NextStep, Current, locals
<1>13. CASE EntryGone
  BY <1>13 DEF EntryGone, Current, locals
<1>14. CASE EntryMade
  BY <1>14 DEF EntryMade, NextStep, Current
<1>15. CASE StepsDone
  BY <1>15 DEF StepsDone, disk, locals
<1>16. CASE ZClear
  BY <1>16 DEF ZClear, locals
<1>17. CASE ZMove
  BY <1>17 DEF ZMove, locals
<1>18. CASE ZUnlink
  BY <1>18 DEF ZUnlink, locals
<1>19. CASE ZLink
  BY <1>19 DEF ZLink, locals
<1>20. CASE Sync
  BY <1>20 DEF Sync, locals
<1>21. CASE Open
  BY <1>21 DEF Open, locals
<1>22. CASE Header
  BY <1>22 DEF Header, locals
<1>23. CASE Key
  BY <1>23 DEF Key, NextStep, Current, Enabled, locals
<1>24. CASE KeysDone
  BY <1>24 DEF KeysDone, disk, locals
<1>25. CASE Finish
  BY <1>25 DEF Finish, disk
<1>26. CASE Interrupt
  BY <1>26 DEF Interrupt, disk
<1>27. CASE EditPrefs
  BY <1>27 DEF EditPrefs, locals
<1>28. CASE KernelStarts
  BY <1>28 DEF KernelStarts, Up, disk, history
<1>29. CASE KernelEnds
  BY <1>29 DEF KernelEnds, Up, disk, history
<1>30. ASSUME NEW f \in Files, Write(f) PROVE Flags'
  BY <1>30 DEF Write, locals, history
<1> QED
  BY <1>1, <1>2, <1>3, <1>4, <1>5, <1>6, <1>7, <1>8, <1>9, <1>10, <1>11, <1>12, <1>13,
     <1>14, <1>15, <1>16, <1>17, <1>18, <1>19, <1>20, <1>21, <1>22, <1>23, <1>24, <1>25, <1>26,
     <1>27, <1>28, <1>29, <1>30
  DEF Next, Command

LEMMA KernelStep ==
    ASSUME Places, RanOK, Flags, KernelOK, Next
    PROVE  KernelOK'
<1> USE DEF Places, RanOK, Flags, KernelOK, First, Go, Succeed, End, Fail, Up, Current, locals
<1>1. CASE Deploy
  BY <1>1 DEF Deploy, Start, disk
<1>2. CASE Update
  BY <1>2 DEF Update, Start, Reused, disk
<1>3. CASE Preflight
  BY <1>3 DEF Preflight, ClashOn, disk
<1>4. CASE Check
  BY <1>4 DEF Check, disk
<1>5. CASE Unpack
  BY <1>5 DEF Unpack, disk
<1>6. CASE Restart
  BY <1>6 DEF Restart, disk
<1>7. CASE Bootstrap
  BY <1>7 DEF Bootstrap, ClashOn, disk
<1>8. CASE Skip
  BY <1>8 DEF Skip, NextStep, disk, history
<1>9. CASE Enter
  BY <1>9 DEF Enter, NextStep, Clones, disk
<1>10. CASE Clear
  BY <1>10 DEF Clear
<1>11. CASE Move
  BY <1>11 DEF Move
<1>12. CASE Place
  BY <1>12 DEF Place, NextStep
<1>13. CASE EntryGone
  BY <1>13 DEF EntryGone
<1>14. CASE EntryMade
  BY <1>14 DEF EntryMade, NextStep
<1>15. CASE StepsDone
  BY <1>15 DEF StepsDone, disk
<1>16. CASE ZClear
  BY <1>16 DEF ZClear
<1>17. CASE ZMove
  BY <1>17 DEF ZMove
<1>18. CASE ZUnlink
  BY <1>18 DEF ZUnlink
<1>19. CASE ZLink
  BY <1>19 DEF ZLink
<1>20. CASE Sync
  BY <1>20 DEF Sync
<1>21. CASE Open
  BY <1>21 DEF Open
<1>22. CASE Header
  BY <1>22 DEF Header
<1>23. CASE Key
  BY <1>23 DEF Key, NextStep, Enabled
<1>24. CASE KeysDone
  BY <1>24 DEF KeysDone, disk
<1>25. CASE Finish
  BY <1>25 DEF Finish, disk
<1>26. CASE Interrupt
  BY <1>26 DEF Interrupt, disk
<1>27. CASE EditPrefs
  BY <1>27 DEF EditPrefs
<1>28. CASE KernelStarts
  BY <1>28 DEF KernelStarts, disk, history
<1>29. CASE KernelEnds
  BY <1>29 DEF KernelEnds, disk, history
<1>30. ASSUME NEW f \in Files, Write(f) PROVE KernelOK'
  BY <1>30 DEF Write, locals, history
<1> QED
  BY <1>1, <1>2, <1>3, <1>4, <1>5, <1>6, <1>7, <1>8, <1>9, <1>10, <1>11, <1>12, <1>13,
     <1>14, <1>15, <1>16, <1>17, <1>18, <1>19, <1>20, <1>21, <1>22, <1>23, <1>24, <1>25, <1>26,
     <1>27, <1>28, <1>29, <1>30
  DEF Next, Command

-----------------------------------------------------------------------------
(***************************************************************************)
(* Preferences, torn by an end at any line.                                *)
(***************************************************************************)
\* A command that ends leaves them as they are.
LEMMA PrefsEnd ==
    ASSUME PrefsOK, NEW b \in BOOLEAN, End(b), UNCHANGED <<prefs, unwanted>>
    PROVE  PrefsOK'
  BY DEF PrefsOK, End

\* The header is written: no step is switched on yet.
LEMMA PrefsHeader ==
    ASSUME Places, Flags, PrefsOK, Header
    PROVE  PrefsOK'
<1>1. CASE pc' = "keys"
  <2>1. /\ prefs' = [prefs EXCEPT !.zp = zp] /\ zp \in BOOLEAN
        /\ pos' = 1 /\ sel' = sel /\ unwanted' = unwanted
        /\ pc = "header"
    BY <1>1 DEF Header, Fail, End, locals, Flags
  <2>2. prefs.on = {} /\ sel \cap unwanted = {} /\ unwanted \in SUBSET Steps
    BY <2>1 DEF PrefsOK
  <2>3. prefs'.on = {} /\ prefs' \in [on : SUBSET Steps, zp : BOOLEAN]
    BY <2>1, <2>2 DEF PrefsOK
  <2>4. Before(sel', pos') = {}
    BY <2>1, BeforeNone
  <2> QED
    BY <1>1, <2>1, <2>2, <2>3, <2>4 DEF PrefsOK
<1>2. CASE Fail
  BY <1>2, PrefsEnd DEF Header, Fail, End
<1> QED
  BY <1>1, <1>2 DEF Header

\* One line more.
LEMMA PrefsKey ==
    ASSUME Places, PrefsOK, Key
    PROVE  PrefsOK'
<1>1. CASE NextStep
  <2>1. /\ prefs' = [prefs EXCEPT !.on = @ \cup Enabled]
        /\ pos' = pos + 1 /\ pos \in DOMAIN Available
        /\ sel' = sel /\ unwanted' = unwanted
        /\ pc = "keys" /\ pc' = "keys"
    BY <1>1, Order DEF Key, NextStep, Fail, End, locals
  <2>2. /\ prefs.on = Before(sel, pos) /\ prefs \in [on : SUBSET Steps, zp : BOOLEAN]
        /\ sel \cap unwanted = {} /\ unwanted \in SUBSET Steps /\ prefs.on \cap unwanted = {}
    BY <2>1 DEF PrefsOK
  <2>3. Enabled \in SUBSET Steps /\ Enabled \subseteq sel
    BY DEF Enabled, Places
  <2>4. prefs'.on = prefs.on \cup Enabled /\ prefs' \in [on : SUBSET Steps, zp : BOOLEAN]
    BY <2>1, <2>2, <2>3
  <2>5. prefs'.on = Before(sel', pos')
    BY <2>1, <2>2, <2>4, BeforeNext DEF Enabled, Current
  <2>6. pos' > 0
    BY <2>1, Order
  <2> QED
    BY <2>1, <2>2, <2>3, <2>4, <2>5, <2>6 DEF PrefsOK
<1>2. CASE Fail /\ UNCHANGED prefs
  BY <1>2, PrefsEnd DEF Key, Fail
<1> QED
  BY <1>1, <1>2 DEF Key

LEMMA PrefsStep ==
    ASSUME Places, Flags, PrefsOK, Next
    PROVE  PrefsOK'
<1> USE DEF Places, Flags, PrefsOK, NoPrefs, First, Go, Succeed, End, Fail
<1>1. CASE Deploy
  BY <1>1 DEF Deploy, Start, disk
<1>2. CASE Update
  BY <1>2 DEF Update, Start, Reused, disk
<1>3. CASE Preflight
  BY <1>3 DEF Preflight, ClashOn, Up, disk, locals
<1>4. CASE Check
  BY <1>4 DEF Check, Up, disk
<1>5. CASE Unpack
  BY <1>5 DEF Unpack, Up, disk, locals
<1>6. CASE Restart
  BY <1>6 DEF Restart, disk
<1>7. CASE Bootstrap
  BY <1>7 DEF Bootstrap, ClashOn, Up, disk, locals
<1>8. CASE Skip
  BY <1>8 DEF Skip, NextStep, Current, disk, locals, history
<1>9. CASE Enter
  BY <1>9 DEF Enter, NextStep, Clones, Current, disk, locals
<1>10. CASE Clear
  BY <1>10 DEF Clear, locals
<1>11. CASE Move
  BY <1>11 DEF Move, locals
<1>12. CASE Place
  BY <1>12 DEF Place, NextStep, Current, locals
<1>13. CASE EntryGone
  BY <1>13 DEF EntryGone, Current, locals
<1>14. CASE EntryMade
  BY <1>14 DEF EntryMade, NextStep, Current
<1>15. CASE StepsDone
  BY <1>15 DEF StepsDone, disk, locals
<1>16. CASE ZClear
  BY <1>16 DEF ZClear, locals
<1>17. CASE ZMove
  BY <1>17 DEF ZMove, locals
<1>18. CASE ZUnlink
  BY <1>18 DEF ZUnlink, locals
<1>19. CASE ZLink
  BY <1>19 DEF ZLink, locals
<1>20. CASE Sync
  BY <1>20 DEF Sync, locals
<1>21. CASE Open
  <2>1. CASE Fail /\ UNCHANGED <<prefs, unwanted>>
    BY <2>1
  <2>2. CASE prefs' = NoPrefs /\ unwanted' = Steps \ sel /\ Go("header")
    <3>1. prefs'.on = {} /\ prefs' \in [on : SUBSET Steps, zp : BOOLEAN]
      BY <2>2
    <3>2. sel' = sel /\ pc' = "header"
      BY <2>2 DEF locals
    <3> HIDE DEF NoPrefs
    <3> QED
      BY <2>2, <3>1, <3>2
  <2> QED
    BY <1>21, <2>1, <2>2 DEF Open
<1>22. CASE Header
  BY <1>22, PrefsHeader
<1>23. CASE Key
  BY <1>23, PrefsKey
<1>24. CASE KeysDone
  <2>1. Before(sel, pos) = sel /\ sel' = sel
    BY <1>24, Order, BeforeAll DEF KeysDone, locals
  <2> QED
    BY <1>24, <2>1 DEF KeysDone, disk, locals
<1>25. CASE Finish
  BY <1>25 DEF Finish, disk
<1>26. CASE Interrupt
  BY <1>26 DEF Interrupt, disk
<1>27. CASE EditPrefs
  BY <1>27 DEF EditPrefs, locals
<1>28. CASE KernelStarts
  BY <1>28 DEF KernelStarts, Up, disk, history
<1>29. CASE KernelEnds
  BY <1>29 DEF KernelEnds, Up, disk, history
<1>30. ASSUME NEW f \in Files, Write(f) PROVE PrefsOK'
  BY <1>30 DEF Write, locals, history
<1> QED
  BY <1>1, <1>2, <1>3, <1>4, <1>5, <1>6, <1>7, <1>8, <1>9, <1>10, <1>11, <1>12, <1>13,
     <1>14, <1>15, <1>16, <1>17, <1>18, <1>19, <1>20, <1>21, <1>22, <1>23, <1>24, <1>25, <1>26,
     <1>27, <1>28, <1>29, <1>30
  DEF Next, Command

-----------------------------------------------------------------------------
(***************************************************************************)
(* Command entries.                                                        *)
(***************************************************************************)
LEMMA EntriesStep ==
    ASSUME Places, RanOK, PrefsOK, Flags, EntriesOK, Next
    PROVE  EntriesOK'
<1> USE StepsAssumption, BeforeNone DEF Places, RanOK, PrefsOK, EntriesOK, Flags, First, Last,
        Loop, Go, Succeed, End, Fail, StepsAssumption
<1>1. CASE Deploy
  BY <1>1 DEF Deploy, Start, disk
<1>2. CASE Update
  BY <1>2 DEF Update, Start, Reused, disk
<1>3. CASE Preflight
  BY <1>3 DEF Preflight, ClashOn, Up, disk, locals
<1>4. CASE Check
  BY <1>4 DEF Check, Up, disk
<1>5. CASE Unpack
  BY <1>5 DEF Unpack, Up, disk, locals
<1>6. CASE Restart
  BY <1>6 DEF Restart, disk
<1>7. CASE Bootstrap
  BY <1>7 DEF Bootstrap, ClashOn, Up, disk, locals
<1>8. CASE Skip
  BY <1>8 DEF Skip, NextStep, Current, disk, locals, history
<1>9. CASE Enter
  BY <1>9 DEF Enter, NextStep, Clones, Current, disk, locals
<1>10. CASE Clear
  BY <1>10 DEF Clear, locals
<1>11. CASE Move
  BY <1>11 DEF Move, locals
<1>12. CASE Place
  BY <1>12 DEF Place, NextStep, Current, locals
<1>13. CASE EntryGone
  BY <1>13 DEF EntryGone, Current, locals
<1>14. CASE EntryMade
  BY <1>14 DEF EntryMade, NextStep, Current
<1>15. CASE StepsDone
  BY <1>15 DEF StepsDone, disk, locals
<1>16. CASE ZClear
  BY <1>16 DEF ZClear, locals
<1>17. CASE ZMove
  BY <1>17 DEF ZMove, locals
<1>18. CASE ZUnlink
  BY <1>18 DEF ZUnlink, locals
<1>19. CASE ZLink
  BY <1>19 DEF ZLink, locals
<1>20. CASE Sync
  BY <1>20 DEF Sync, locals
<1>21. CASE Open
  BY <1>21 DEF Open, locals
<1>22. CASE Header
  BY <1>22 DEF Header, locals
<1>23. CASE Key
  BY <1>23 DEF Key, NextStep, Current, Enabled, locals
<1>24. CASE KeysDone
  BY <1>24 DEF KeysDone, disk, locals
<1>25. CASE Finish
  BY <1>25 DEF Finish, disk
<1>26. CASE Interrupt
  BY <1>26 DEF Interrupt, disk
<1>27. CASE EditPrefs
  BY <1>27 DEF EditPrefs, locals
<1>28. CASE KernelStarts
  BY <1>28 DEF KernelStarts, Up, disk, history
<1>29. CASE KernelEnds
  BY <1>29 DEF KernelEnds, Up, disk, history
<1>30. ASSUME NEW f \in Files, Write(f) PROVE EntriesOK'
  BY <1>30 DEF Write, locals, history
<1> QED
  BY <1>1, <1>2, <1>3, <1>4, <1>5, <1>6, <1>7, <1>8, <1>9, <1>10, <1>11, <1>12, <1>13,
     <1>14, <1>15, <1>16, <1>17, <1>18, <1>19, <1>20, <1>21, <1>22, <1>23, <1>24, <1>25, <1>26,
     <1>27, <1>28, <1>29, <1>30
  DEF Next, Command

\* Only sync takes the entry of a step that is not selected.
LEMMA EntriesLast ==
    ASSUME Places, RanOK, Next
    PROVE  \A t \in entry \ sel : t \notin entry' => ran = sel
<1> USE DEF RanOK, Last, Current
<1>1. CASE Deploy
  BY <1>1 DEF Deploy, Start, disk
<1>2. CASE Update
  BY <1>2 DEF Update, Start, Reused, disk
<1>3. CASE Preflight
  BY <1>3 DEF Preflight, ClashOn, Up, disk, locals
<1>4. CASE Check
  BY <1>4 DEF Check, Up, disk
<1>5. CASE Unpack
  BY <1>5 DEF Unpack, Up, disk, locals
<1>6. CASE Restart
  BY <1>6 DEF Restart, disk
<1>7. CASE Bootstrap
  BY <1>7 DEF Bootstrap, ClashOn, Up, disk, locals
<1>8. CASE Skip
  BY <1>8 DEF Skip, NextStep, disk, locals, history
<1>9. CASE Enter
  BY <1>9 DEF Enter, NextStep, Clones, disk, locals
<1>10. CASE Clear
  BY <1>10 DEF Clear, locals
<1>11. CASE Move
  BY <1>11 DEF Move, locals
<1>12. CASE Place
  BY <1>12 DEF Place, NextStep, locals
<1>13. CASE EntryGone
  BY <1>13 DEF EntryGone, locals
<1>14. CASE EntryMade
  BY <1>14 DEF EntryMade, NextStep
<1>15. CASE StepsDone
  BY <1>15 DEF StepsDone, disk, locals
<1>16. CASE ZClear
  BY <1>16 DEF ZClear, locals
<1>17. CASE ZMove
  BY <1>17 DEF ZMove, locals
<1>18. CASE ZUnlink
  BY <1>18 DEF ZUnlink, locals
<1>19. CASE ZLink
  BY <1>19 DEF ZLink, locals
<1>20. CASE Sync
  BY <1>20 DEF Sync, locals
<1>21. CASE Open
  BY <1>21 DEF Open, locals
<1>22. CASE Header
  BY <1>22 DEF Header, locals
<1>23. CASE Key
  BY <1>23 DEF Key, NextStep, Enabled, locals
<1>24. CASE KeysDone
  BY <1>24 DEF KeysDone, disk, locals
<1>25. CASE Finish
  BY <1>25 DEF Finish, disk
<1>26. CASE Interrupt
  BY <1>26 DEF Interrupt, disk
<1>27. CASE EditPrefs
  BY <1>27 DEF EditPrefs, locals
<1>28. CASE KernelStarts
  BY <1>28 DEF KernelStarts, Up, disk, history
<1>29. CASE KernelEnds
  BY <1>29 DEF KernelEnds, Up, disk, history
<1>30. ASSUME NEW f \in Files, Write(f) PROVE \A t \in entry \ sel : t \notin entry' => ran = sel
  BY <1>30 DEF Write, locals, history
<1> QED
  BY <1>1, <1>2, <1>3, <1>4, <1>5, <1>6, <1>7, <1>8, <1>9, <1>10, <1>11, <1>12, <1>13,
     <1>14, <1>15, <1>16, <1>17, <1>18, <1>19, <1>20, <1>21, <1>22, <1>23, <1>24, <1>25, <1>26,
     <1>27, <1>28, <1>29, <1>30
  DEF Next, Command

-----------------------------------------------------------------------------
(***************************************************************************)
(* The invariant holds initially and after each step.                      *)
(***************************************************************************)
LEMMA Initially == Init => IInv
<1> SUFFICES ASSUME Init PROVE IInv
  OBVIOUS
<1>1. FilesInv
  BY FileFacts DEF Init, FilesInv, Values
<1>2. Places /\ RanOK
  BY Order DEF Init, Places, RanOK, First, Loop, Last
<1>3. Flags /\ KernelOK /\ EntriesOK
  BY DEF Init, Flags, KernelOK, EntriesOK, Loop, Last
<1>4. PrefsOK
  BY DEF Init, PrefsOK, NoPrefs
<1> QED
  BY <1>1, <1>2, <1>3, <1>4 DEF IInv

LEMMA Step == IInv /\ [Next]_vars => IInv'
<1> SUFFICES ASSUME IInv, [Next]_vars PROVE IInv'
  OBVIOUS
<1>1. CASE Next
  <2>1. FilesInv'
    BY <1>1, FilesStep DEF IInv
  <2>2. Places' /\ RanOK'
    <3>1. CASE Fail \/ End(TRUE)
      BY <3>1, EndStep DEF Fail
    <3>2. CASE ~Fail /\ ~End(TRUE)
      <4>1. prefs.on \in SUBSET Steps
        BY DEF IInv, PrefsOK
      <4> QED
        BY <1>1, <3>2, <4>1, PlacesStep, RanStep DEF IInv
    <3> QED
      BY <3>1, <3>2
  <2>3. Flags'
    <3>1. prefs.zp \in BOOLEAN
      BY DEF IInv, PrefsOK
    <3> QED
      BY <1>1, <3>1, FlagsStep DEF IInv
  <2>4. PrefsOK' /\ EntriesOK' /\ KernelOK'
    BY <1>1, PrefsStep, EntriesStep, KernelStep DEF IInv
  <2> QED
    BY <2>1, <2>2, <2>3, <2>4 DEF IInv
<1>2. CASE UNCHANGED vars
  <2>1. FilesInv'
    BY <1>2 DEF IInv, FilesInv, Own, CurrentFile, Current, vars, disk
  <2>2. Places' /\ RanOK' /\ Flags'
    BY <1>2 DEF IInv, Places, RanOK, Flags, vars, locals, history
  <2>3. PrefsOK' /\ EntriesOK' /\ KernelOK'
    BY <1>2 DEF IInv, PrefsOK, EntriesOK, KernelOK, Up, vars, disk, locals, history
  <2> QED
    BY <2>1, <2>2, <2>3 DEF IInv
<1> QED
  BY <1>1, <1>2

LEMMA Invariance == Spec => []IInv
  BY Initially, Step, PTL DEF Spec

-----------------------------------------------------------------------------
\* Every variable has the values the code can give it; no step outside the selection has
\* run (mse:1930-2064).
THEOREM TypeCorrect == Spec => []TypeOK
<1>1. ASSUME IInv PROVE TypeOK
  <2>1. ran \subseteq sel
    BY <1>1 DEF IInv, Places, RanOK, Before
  <2>2. /\ target \in [Files -> Versions \cup {None, Ours}]
        /\ bak \in [Files -> Versions \cup {None, Ours}]
        /\ latest \in [Files -> Versions \cup {0}]
    BY <1>1 DEF IInv, FilesInv, Values
  <2>3. /\ prefs \in [on : SUBSET Steps, zp : BOOLEAN]
        /\ entry \subseteq Tools /\ unwanted \subseteq Steps
    BY <1>1 DEF IInv, PrefsOK, EntriesOK
  <2>4. /\ sel \subseteq Steps /\ saved \subseteq Steps
        /\ pos \in 0..Len(Available) + 1
        /\ pc \in First \cup Loop \cup Last
    BY <1>1 DEF IInv, Places
  <2> QED
    BY <1>1, <2>1, <2>2, <2>3, <2>4 DEF IInv, Flags, TypeOK, First, Loop, Last
<1> QED
  BY <1>1, Invariance, PTL

\* No file of the user's is lost by any sequence of deploys and updates, failed or
\* interrupted anywhere (backup_existing_path, mse:1301-1326), with the one exception of
\* the zprofile template applied again.
THEOREM FilesAreKept == Spec => UserFilesKept
<1>1. ASSUME IInv, [Next]_vars, NEW f \in Files, Kept(f)
      PROVE  Kept(f)' \/ (f = Zprofile /\ TemplateAgain)
  <2>1. CASE Next
    BY <1>1, <2>1, Keeps DEF IInv
  <2>2. CASE UNCHANGED vars
    BY <1>1, <2>2 DEF vars, disk, Kept
  <2> QED
    BY <1>1, <2>1, <2>2
<1>2. IInv /\ [Next]_vars =>
        [\A f \in Files : Kept(f) => Kept(f)' \/ (f = Zprofile /\ TemplateAgain)]_vars
  BY <1>1
<1> QED
  BY <1>2, Invariance, PTL DEF Spec, UserFilesKept

\* The entries of tools that are not selected are the last thing a command removes
\* (mse:2060).
THEOREM EntriesAreLast == Spec => EntriesGoLast
<1>1. IInv /\ [Next]_vars => [\A t \in entry \ sel : t \notin entry' => ran = sel]_vars
  BY EntriesLast DEF IInv
<1> QED
  BY <1>1, Invariance, PTL DEF Spec, EntriesGoLast

\* An update runs and writes back what the preferences had selected (README.md:143).
THEOREM UpdateIsFaithful == Spec => []UpdateKeepsSelection
<1>1. IInv => UpdateKeepsSelection
  BY DEF IInv, Places, RanOK, PrefsOK, Last, UpdateKeepsSelection
<1> QED
  BY <1>1, Invariance, PTL

\* Torn preferences never bring a declined step back while one selected step is left
\* (mse:613).
THEOREM UnwantedIsOut == Spec => []UnwantedStaysOut
<1>1. IInv => UnwantedStaysOut
  BY DEF IInv, PrefsOK, UnwantedStaysOut
<1> QED
  BY <1>1, Invariance, PTL

\* After a command that completed, entries and preferences agree (mse:2060-2064).
THEOREM EntriesAgree == Spec => []EntriesMatchPrefs
<1>1. IInv => EntriesMatchPrefs
  BY DEF IInv, EntriesOK, EntriesMatchPrefs
<1> QED
  BY <1>1, Invariance, PTL

\* Past the clashctl step no kernel of an older binary runs (mse-deploy.sh:58-85), unless
\* the check before the binaries were replaced missed it: it had no binary to execute or no
\* clear answer, or another terminal started the kernel since.
THEOREM KernelNotOld == Spec => []KernelIsCurrent
<1>1. IInv => KernelIsCurrent
  BY DEF IInv, KernelOK, KernelIsCurrent
<1> QED
  BY <1>1, Invariance, PTL
=============================================================================
