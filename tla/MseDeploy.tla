----------------------------- MODULE MseDeploy -----------------------------
(***************************************************************************)
(* `mse deploy` and `mse update` on native Linux (src/mse): the selection  *)
(* of steps and the preferences file that keeps it, the files of the user  *)
(* that are backed up and replaced, the command entries in the repository  *)
(* bin, and the restart of a running clashctl kernel around its new        *)
(* binary.  Every step may fail, which ends the command, and the command   *)
(* may be interrupted anywhere; what is on disk stays and the next command *)
(* starts from it.  Another terminal may use clashctl in the meantime.     *)
(***************************************************************************)
EXTENDS Naturals, Sequences, FiniteSets

CONSTANTS
    Available,  \* AVAILABLE_STEPS of the platform, in order
    Clash,      \* the step clashctl
    Tools,      \* steps with a linked command entry that goes when they are not selected
    FileOf,     \* the file of the user that each other step replaces, one as nvim does
    Cloned,     \* those of the files that become git clones instead of links
    Zshrc,      \* ~/.zshrc
    Zprofile,   \* ~/.zprofile
    None,       \* no file
    Ours,       \* a link into the repository, or a clone made by deploy
    MaxEdits    \* bound: versions the user writes of a file, and of one file only

Steps == {Available[i] : i \in DOMAIN Available}
Files == {FileOf[s] : s \in DOMAIN FileOf} \cup {Zshrc, Zprofile}

ASSUME OrderAssumption == Available \in Seq(Steps)
ASSUME StepsAssumption ==
    /\ Steps = {Clash} \cup Tools \cup DOMAIN FileOf
    /\ Clash \notin Tools \cup DOMAIN FileOf
    /\ Tools \cap DOMAIN FileOf = {}
ASSUME FilesAssumption == {Zshrc, Zprofile} \cap ({FileOf[s] : s \in DOMAIN FileOf} \cup Cloned) = {}
ASSUME EditsAssumption == MaxEdits \in Nat /\ {None, Ours} \cap (1..MaxEdits) = {} /\ None # Ours

VARIABLES
    target,  \* what is at the path of each file
    bak,     \* what is at <path>_bak
    latest,  \* history: the last version the user wrote, 0 for none
    prefs,   \* .mse-install.env: steps set to true, zprofile template or not
    entry,   \* tools with an entry in the repository bin
    bin,     \* the kernel in the repository bin is there and executable
    kern,    \* the clashctl kernel: down, or running the installed binary or an older one
    pc,      \* where the command is
    pos,     \* the step it is at, 0 before the first
    sel,     \* SELECTED_STEPS
    saved,   \* MSE_INTERNAL_SELECTED_STEPS
    zp,      \* use_zprofile_template
    again,   \* restart_running_service of mse-deploy.sh
    ran,     \* history: steps of this command that have succeeded
    unseen,  \* history: the kernel that runs escaped the check of mse-deploy.sh
    settled, \* history: the last command completed and nothing was edited since
    unwanted \* history: steps switched off by what the preferences were last written from

disk == <<target, bak, latest, prefs, entry>>
locals == <<sel, saved, zp, again, ran, unseen>>
history == <<settled, unwanted>>
vars == <<disk, bin, kern, pc, pos, locals, history>>

Versions == 1..MaxEdits

\* Every variable has the values the code can give it.
TypeOK ==
    /\ target \in [Files -> Versions \cup {None, Ours}]
    /\ bak \in [Files -> Versions \cup {None, Ours}]
    /\ latest \in [Files -> Versions \cup {0}]
    /\ prefs \in [on : SUBSET Steps, zp : BOOLEAN]
    /\ entry \subseteq Tools
    /\ bin \in BOOLEAN
    /\ kern \in {"down", "current", "old"}
    /\ pc \in {"idle", "preflight", "check", "unpack", "restart", "bootstrap", "step", "clear",
               "move", "place", "tool", "zclear", "zmove", "zunlink", "zlink", "sync", "open",
               "header", "keys", "done"}
    /\ pos \in 0..Len(Available) + 1
    /\ sel \subseteq Steps /\ saved \subseteq Steps /\ ran \subseteq sel
    /\ zp \in BOOLEAN /\ again \in BOOLEAN /\ unseen \in BOOLEAN
    /\ settled \in BOOLEAN
    /\ unwanted \subseteq Steps

NoPrefs == [on |-> {}, zp |-> FALSE]

Init ==
    /\ target = [f \in Files |-> None]
    /\ bak = [f \in Files |-> None]
    /\ latest = [f \in Files |-> 0]
    /\ prefs = NoPrefs
    /\ entry = {}
    /\ bin = FALSE
    /\ kern = "down"
    /\ pc = "idle"
    /\ pos = 0
    /\ sel = {} /\ saved = {} /\ zp = FALSE
    /\ again = FALSE /\ ran = {} /\ unseen = FALSE
    /\ settled = FALSE
    /\ unwanted = {}

Go(l) == pc' = l /\ UNCHANGED <<pos, locals, settled>>

\* fail, a signal, or the end of a command that completed.
End(completed) ==
    /\ pc' = "idle"
    /\ pos' = 0
    /\ sel' = {} /\ saved' = {} /\ zp' = FALSE
    /\ again' = FALSE /\ ran' = {} /\ unseen' = FALSE
    /\ settled' = completed

Fail == End(FALSE)

\* A step has succeeded; the next label is l.  What its script remembered is gone with it.
Succeed(s, l) ==
    /\ ran' = ran \cup {s}
    /\ pc' = l
    /\ again' = FALSE
    /\ UNCHANGED <<sel, saved, zp, unseen, settled>>

-----------------------------------------------------------------------------
(***************************************************************************)
(* Selection.  Fast mode takes every step; interactive mode asks for each. *)
(* An update takes the steps the preferences switch on, and every step     *)
(* when there are none.                                                    *)
(***************************************************************************)
Start(chosen, kept, template) ==
    /\ pc = "idle"
    /\ sel' = chosen
    /\ saved' = kept
    /\ zp' = template
    /\ pc' = IF Clash \in chosen THEN "preflight" ELSE "clear"
    /\ settled' = FALSE
    /\ UNCHANGED <<disk, bin, kern, pos, again, ran, unseen, unwanted>>

Deploy == \E chosen \in SUBSET Steps, template \in BOOLEAN : Start(chosen, {}, template)

\* Mutant of Reused: an update selects what a new deploy would.
ReusedFast == Steps

Reused == IF prefs.on # {} THEN prefs.on ELSE Steps

Update == \E template \in BOOLEAN : Start(Reused, prefs.on, prefs.zp \/ template)

-----------------------------------------------------------------------------
(***************************************************************************)
(* The clashctl step.  Whether clashctl_require_runtime_ready holds is up  *)
(* to the subscriptions, which another terminal may change at any time.    *)
(***************************************************************************)
Up == kern # "down"

\* `clashctl on` starts the kernel, or finds it running and waits for its ports.  Without a
\* kernel that can be executed it is not called.
ClashOn(l) ==
    LET started == IF Up THEN kern ELSE "current"
    IN /\ bin
       /\ \/ kern' = started /\ Go(l)
          \/ kern' \in {kern, started} /\ Fail

\* Archives in the cache or the network must be there, or a person who provides it.
Preflight ==
    /\ pc = "preflight"
    /\ \/ ClashOn("check")
       \/ UNCHANGED kern /\ (Go("check") \/ Fail)
    /\ UNCHANGED <<disk, bin, unwanted>>

\* mse-deploy.sh asks service_is_active before it replaces the binaries, unless there is
\* none that can be executed.  When it cannot tell, that counts as not running.
Check ==
    /\ pc = "check"
    /\ again' \in {FALSE, Up /\ bin}
    /\ unseen' = (Up /\ ~again')
    /\ pc' = "unpack"
    /\ UNCHANGED <<disk, bin, kern, pos, sel, saved, zp, ran, settled, unwanted>>

\* prepare_zip ends the script when it fails, before or after it has replaced the kernel.
\* `install` unlinks the binary, writes the new one and sets its mode last.
Unpack ==
    /\ pc = "unpack"
    /\ \/ /\ kern' = IF Up THEN "old" ELSE "down"
          /\ \/ /\ bin' = TRUE
                /\ \/ again /\ Go("restart")
                   \/ ~again /\ Succeed(Clash, "bootstrap") /\ UNCHANGED pos
             \/ bin' \in BOOLEAN /\ Fail
       \/ Fail /\ UNCHANGED <<bin, kern>>
    /\ UNCHANGED <<disk, unwanted>>

\* Mutant of Restart: a kernel that runs is left running.
RestartStarts ==
    /\ pc = "restart"
    /\ kern' = IF Up THEN kern ELSE "current"
    /\ Succeed(Clash, "bootstrap")
    /\ UNCHANGED <<disk, bin, pos, unwanted>>

Restart ==
    /\ pc = "restart"
    /\ \/ kern' = "current" /\ Succeed(Clash, "bootstrap") /\ UNCHANGED pos
       \/ kern' \in {kern, "down", "current"} /\ Fail
    /\ UNCHANGED <<disk, bin, unwanted>>

\* bootstrap_linux_clashctl_proxy may wait here for the subscription from another terminal.
Bootstrap ==
    /\ pc = "bootstrap"
    /\ \/ ClashOn("clear")
       \/ UNCHANGED kern /\ (Go("clear") \/ Fail)
    /\ UNCHANGED <<disk, bin, unwanted>>

-----------------------------------------------------------------------------
(***************************************************************************)
(* The other steps, and before them ~/.zshrc at position 0.                *)
(***************************************************************************)
Current == Available[pos]
CurrentFile == IF pos = 0 THEN Zshrc ELSE FileOf[Current]

NextStep == pos' = pos + 1

\* Mutant of Skip: a step that is skipped counts as run.
SkipCounts ==
    /\ pc = "step"
    /\ pos \in DOMAIN Available
    /\ Current \notin sel \/ Current = Clash
    /\ NextStep
    /\ Succeed(Current, "step")
    /\ UNCHANGED <<disk, bin, kern, unwanted>>

Skip ==
    /\ pc = "step"
    /\ pos \in DOMAIN Available
    /\ Current \notin sel \/ Current = Clash
    /\ NextStep
    /\ UNCHANGED <<disk, bin, kern, pc, locals, history>>

\* A clone of an earlier deploy is fetched, or left alone when it has local changes; any
\* other file is replaced.
Clones == Current \in DOMAIN FileOf /\ FileOf[Current] \in Cloned /\ target[FileOf[Current]] = Ours

Enter ==
    /\ pc = "step"
    /\ pos \in DOMAIN Available
    /\ Current \in sel \ {Clash}
    /\ \/ Clones /\ Succeed(Current, "step") /\ NextStep
       \/ Fail
       \/ Current \in DOMAIN FileOf /\ ~Clones /\ Go("clear")
    /\ UNCHANGED <<disk, bin, kern, unwanted>>

(***************************************************************************)
(* backup_and_link, and the same before a clone.                           *)
(***************************************************************************)
Own(f) == target[f] \in Versions

\* Mutant of Clear: a link is backed up like a file.
ClearAlways ==
    /\ pc = "clear"
    /\ bak' = [bak EXCEPT ![CurrentFile] = None]
    /\ Go("move")
    /\ UNCHANGED <<target, latest, prefs, entry, bin, kern, unwanted>>

\* backup_existing_path: a link is removed; before a file is moved the old backup goes.
Clear ==
    /\ pc = "clear"
    /\ IF Own(CurrentFile)
       THEN bak' = [bak EXCEPT ![CurrentFile] = None] /\ Go("move") /\ UNCHANGED target
       ELSE target' = [target EXCEPT ![CurrentFile] = None] /\ Go("place") /\ UNCHANGED bak
    /\ UNCHANGED <<latest, prefs, entry, bin, kern, unwanted>>

Move ==
    /\ pc = "move"
    /\ \/ /\ bak' = [bak EXCEPT ![CurrentFile] = target[CurrentFile]]
          /\ target' = [target EXCEPT ![CurrentFile] = None]
       \/ UNCHANGED <<target, bak>>
    /\ Go("place")
    /\ UNCHANGED <<latest, prefs, entry, bin, kern, unwanted>>

\* ln -s or git clone: neither replaces a file that could not be moved.
Place ==
    /\ pc = "place"
    /\ \/ /\ target[CurrentFile] = None
          /\ target' = [target EXCEPT ![CurrentFile] = Ours]
          /\ NextStep
          /\ IF pos = 0 THEN pc' = "step" /\ UNCHANGED <<locals, settled>>
             ELSE Succeed(Current, "step")
       \/ Fail /\ UNCHANGED target
    /\ UNCHANGED <<bak, latest, prefs, entry, bin, kern, unwanted>>

(***************************************************************************)
(* force_link: a command entry is removed and made again, as sqtop does.   *)
(***************************************************************************)
EntryGone ==
    /\ pc = "step"
    /\ pos \in DOMAIN Available /\ Current \in sel \cap Tools
    /\ entry' = entry \ {Current}
    /\ Go("tool")
    /\ UNCHANGED <<target, bak, latest, prefs, bin, kern, unwanted>>

EntryMade ==
    /\ pc = "tool"
    /\ \/ entry' = entry \cup {Current} /\ Succeed(Current, "step") /\ NextStep
       \/ Fail /\ UNCHANGED entry
    /\ UNCHANGED <<target, bak, latest, prefs, bin, kern, unwanted>>

StepsDone ==
    /\ pc = "step"
    /\ pos > Len(Available)
    /\ Go(IF zp THEN "zclear" ELSE "sync")
    /\ UNCHANGED <<disk, bin, kern, unwanted>>

-----------------------------------------------------------------------------
(***************************************************************************)
(* apply_zprofile_template: rm, mv, rm -f and ln, whatever is there; only  *)
(* the status of ln is looked at.                                          *)
(***************************************************************************)
ZClear ==
    /\ pc = "zclear"
    /\ bak' = [bak EXCEPT ![Zprofile] = None]
    /\ Go("zmove")
    /\ UNCHANGED <<target, latest, prefs, entry, bin, kern, unwanted>>

ZMove ==
    /\ pc = "zmove"
    /\ \/ /\ bak' = [bak EXCEPT ![Zprofile] = target[Zprofile]]
          /\ target' = [target EXCEPT ![Zprofile] = None]
       \/ UNCHANGED <<target, bak>>
    /\ Go("zunlink")
    /\ UNCHANGED <<latest, prefs, entry, bin, kern, unwanted>>

ZUnlink ==
    /\ pc = "zunlink"
    /\ target' = [target EXCEPT ![Zprofile] = None]
    /\ Go("zlink")
    /\ UNCHANGED <<bak, latest, prefs, entry, bin, kern, unwanted>>

ZLink ==
    /\ pc = "zlink"
    /\ \/ target' = [target EXCEPT ![Zprofile] = Ours] /\ Go("sync")
       \/ Fail /\ UNCHANGED target
    /\ UNCHANGED <<bak, latest, prefs, entry, bin, kern, unwanted>>

-----------------------------------------------------------------------------
(***************************************************************************)
(* sync_optional_bin_entries and persist_deploy_settings.  The preferences *)
(* are truncated, get a header, and then one line for each step.           *)
(***************************************************************************)
\* Mutant of Sync: the entries go before the steps are run.
SyncFirst ==
    /\ pc \in {"step", "sync"}
    /\ entry' = entry \cap sel
    /\ IF pc = "sync" THEN Go("open") ELSE UNCHANGED <<pc, pos, locals, settled>>
    /\ UNCHANGED <<target, bak, latest, prefs, bin, kern, unwanted>>

\* Mutant of Sync: the entries of steps no longer selected stay.
SyncNever ==
    /\ pc = "sync"
    /\ Go("open")
    /\ UNCHANGED <<disk, bin, kern, unwanted>>

Sync ==
    /\ pc = "sync"
    /\ \/ entry' = entry \cap sel /\ Go("open")
       \/ \E kept \in SUBSET (entry \ sel) : entry' = (entry \cap sel) \cup kept /\ Fail
    /\ UNCHANGED <<target, bak, latest, prefs, bin, kern, unwanted>>

Open ==
    /\ pc = "open"
    /\ \/ prefs' = NoPrefs /\ unwanted' = Steps \ sel /\ Go("header")
       \/ Fail /\ UNCHANGED <<prefs, unwanted>>
    /\ UNCHANGED <<target, bak, latest, entry, bin, kern>>

Header ==
    /\ pc = "header"
    /\ \/ /\ prefs' = [prefs EXCEPT !.zp = zp]
          /\ pc' = "keys" /\ pos' = 1
          /\ UNCHANGED <<locals, settled>>
       \/ Fail /\ UNCHANGED prefs
    /\ UNCHANGED <<target, bak, latest, entry, bin, kern, unwanted>>

\* Mutant of Enabled: each step is written as true.
EnabledAlways == {Current}

Enabled == {Current} \cap sel

Key ==
    /\ pc = "keys"
    /\ pos \in DOMAIN Available
    /\ \/ prefs' = [prefs EXCEPT !.on = @ \cup Enabled] /\ NextStep /\ UNCHANGED <<pc, locals, settled>>
       \/ Fail /\ UNCHANGED prefs
    /\ UNCHANGED <<target, bak, latest, entry, bin, kern, unwanted>>

KeysDone ==
    /\ pc = "keys"
    /\ pos > Len(Available)
    /\ Go("done")
    /\ UNCHANGED <<disk, bin, kern, unwanted>>

Finish == pc = "done" /\ End(TRUE) /\ UNCHANGED <<disk, bin, kern, unwanted>>

Interrupt == pc \notin {"idle", "done"} /\ Fail /\ UNCHANGED <<disk, bin, kern, unwanted>>

Command ==
    \/ Deploy \/ Update
    \/ Preflight \/ Check \/ Unpack \/ Restart \/ Bootstrap
    \/ Skip \/ Enter \/ Clear \/ Move \/ Place \/ EntryGone \/ EntryMade \/ StepsDone
    \/ ZClear \/ ZMove \/ ZUnlink \/ ZLink
    \/ Sync \/ Open \/ Header \/ Key \/ KeysDone \/ Finish \/ Interrupt

-----------------------------------------------------------------------------
(***************************************************************************)
(* The user between commands, and clashctl in another terminal at any time.*)
(***************************************************************************)
Edits == {f \in Files : latest[f] > 0}

\* A file of the user's own comes in the place of whatever is there.  No step touches two
\* files, so one file with a history is enough.
Write(f) ==
    /\ pc = "idle"
    /\ latest[f] < MaxEdits /\ (latest[f] = 0 => Edits = {})
    /\ latest' = [latest EXCEPT ![f] = @ + 1]
    /\ target' = [target EXCEPT ![f] = latest[f] + 1]
    /\ UNCHANGED <<bak, prefs, entry, bin, kern, pc, pos, locals, history>>

\* "You can edit it by hand."
EditPrefs ==
    /\ pc = "idle"
    /\ \E on \in SUBSET Steps : prefs' = [prefs EXCEPT !.on = on] /\ unwanted' = Steps \ on
    /\ settled' = FALSE
    /\ UNCHANGED <<target, bak, latest, entry, bin, kern, pc, pos, locals>>

KernelStarts ==
    /\ ~Up /\ bin
    /\ kern' = "current"
    /\ unseen' = (pc = "unpack" /\ ~again)
    /\ UNCHANGED <<disk, bin, pc, pos, sel, saved, zp, again, ran, history>>

\* off, or a crash
KernelEnds ==
    /\ Up
    /\ kern' = "down"
    /\ unseen' = FALSE
    /\ UNCHANGED <<disk, bin, pc, pos, sel, saved, zp, again, ran, history>>

Next ==
    \/ Command
    \/ \E f \in Files : Write(f)
    \/ EditPrefs \/ KernelStarts \/ KernelEnds

Spec == Init /\ [][Next]_vars

-----------------------------------------------------------------------------
\* The version the user wrote last is in place or in the backup.
Kept(f) == latest[f] = 0 \/ latest[f] \in {target[f], bak[f]}

\* The zprofile template is applied again, after one that was perhaps cut short, or the
\* file could not be moved away.
TemplateAgain ==
    \/ pc = "zclear" /\ ~Own(Zprofile)
    \/ pc = "zunlink" /\ Own(Zprofile)

\* No deploy or update, failed, interrupted or repeated, loses a file of the user's: the
\* last version stays in place or in the backup ("linked target files are backed up to
\* *_bak when possible", mse:735).  The zprofile template, applied a second time, is the
\* one exception.
UserFilesKept ==
    [][\A f \in Files : Kept(f) => Kept(f)' \/ (f = Zprofile /\ TemplateAgain)]_vars

\* An update that completes has run exactly the steps the preferences had switched on, and
\* leaves the same steps switched on (README.md:143).
UpdateKeepsSelection ==
    pc = "done" /\ saved # {} => ran = saved /\ prefs.on = saved

\* A step that was switched off when the preferences were last written is not run by an
\* update, however many writes of the preferences have been cut short since, as long as
\* there is one step left that is switched on.
UnwantedStaysOut == saved # {} => sel \cap unwanted = {}

\* The entry of a step that is not selected goes only after every selected step has
\* succeeded (mse:2060, "only after every selected step succeeds").
EntriesGoLast ==
    [][\A t \in entry \ sel : t \notin entry' => ran = sel]_vars

\* After a command that completed there is an entry for exactly the tools the preferences
\* switch on.
EntriesMatchPrefs == pc = "idle" /\ settled => entry = prefs.on \cap Tools

\* Past the clashctl step no kernel of an older binary runs, whatever earlier deploys left
\* behind, unless mse-deploy.sh could not see it: an install cut short has left no binary to
\* execute, the answer was ambiguous, or another terminal started it in the meantime.
KernelIsCurrent == Clash \in ran /\ ~unseen => kern # "old"
=============================================================================
