------------------------------ MODULE Builder ------------------------------
(***************************************************************************)
(* A session of the builder: main loads the plan file and detects the       *)
(* devices, run_tui edits (StoragePage, and the pages that change a system  *)
(* setting), F2 saves, the Output page generates, and generates and runs.   *)
(* Both files are replaced as a whole or not at all (AtomicFile).           *)
(***************************************************************************)
EXTENDS StoragePage

CONSTANTS Settings,          \* values of the system part of the plan
          GoodSettings,      \* those validate_plan accepts
          DefaultSettings    \* those of plan_init

ASSUME SettingsAssumption == GoodSettings \subseteq Settings /\ DefaultSettings \in Settings

VARIABLES
    phase,       \* no session, the event loop, one of two dialogs, bash
    settings,    \* plan->system
    plan_file,   \* <<>> or the plan saved in config/install-plan.json
    script,      \* <<>> or the plan install.sh was generated from
    generated    \* history: ui_generate has just returned true

sessionVars == <<phase, settings, plan_file, script, generated>>
vars == <<pageVars, sessionVars>>

Plan == [disks |-> disks, settings |-> settings]
SavedPlan == [disks : Seq(DiskRecord), settings : Settings]

BuilderTypeOK ==
    /\ PageTypeOK
    /\ phase \in {"off", "editing", "asking_run", "asking_quit", "installing"}
    /\ settings \in Settings
    /\ plan_file \in Seq(SavedPlan) /\ Len(plan_file) <= 1
    /\ script \in Seq(SavedPlan) /\ Len(script) <= 1
    /\ generated \in BOOLEAN

BuilderInit ==
    /\ PageInit /\ settings = DefaultSettings
    /\ phase = "editing" /\ plan_file = <<>> /\ script = <<>>
    /\ generated = FALSE

-----------------------------------------------------------------------------
FilesStay == UNCHANGED <<plan_file, script>>

EditStorage ==
    /\ phase = "editing" /\ (HeaderKeys \/ PartitionKeys \/ Moves)
    /\ generated' = FALSE /\ UNCHANGED <<phase, settings>> /\ FilesStay

(* The base system, hardware, software and identity pages. *)
EditSetting(value) ==
    /\ phase = "editing" /\ value # settings
    /\ settings' = value /\ dirty' = TRUE /\ generated' = FALSE
    /\ confirmed' = "nothing"
    /\ UNCHANGED <<world, inventory, disks, active_disk, row, target_identity_matches, phase>>
    /\ FilesStay

(* F2; a save that fails only writes the status line. *)
SavePlan ==
    /\ phase = "editing"
    /\ plan_file' = <<Plan>> /\ dirty' = FALSE /\ generated' = FALSE
    /\ UNCHANGED <<world, inventory, disks, active_disk, row, target_identity_matches,
                   confirmed, phase, settings, script>>

(* ui_generate: the plan is saved first, then the script is written; either *)
(* may fail.  Row 2 of the Output page goes on to ask whether to run it.    *)
MayGenerate == target_identity_matches /\ ValidStorage(disks) /\ settings \in GoodSettings

(* The script is written, the plan file is not. *)
GenerateWithoutSave(after) ==
    /\ phase = "editing" /\ MayGenerate
    /\ script' = <<Plan>> /\ dirty' = FALSE /\ generated' = TRUE /\ phase' = after
    /\ UNCHANGED <<world, inventory, disks, active_disk, row, target_identity_matches,
                   confirmed, settings, plan_file>>

Generate(after) ==
    /\ phase = "editing" /\ MayGenerate
    /\ plan_file' = <<Plan>> /\ script' = <<Plan>>
    /\ dirty' = FALSE /\ generated' = TRUE /\ phase' = after
    /\ UNCHANGED <<world, inventory, disks, active_disk, row, target_identity_matches,
                   confirmed, settings>>

GenerationFails ==
    /\ phase = "editing" /\ MayGenerate
    /\ plan_file' = <<Plan>> /\ generated' = FALSE
    /\ UNCHANGED <<pageVars, phase, settings, script>>

(* The answer to "Run generated installer": the loop ends and bash replaces *)
(* the builder, or the page goes on.                                        *)
RunScript == phase = "asking_run" /\ phase' = "installing"
             /\ UNCHANGED <<pageVars, settings, plan_file, script, generated>>
Decline   == phase \in {"asking_run", "asking_quit"} /\ phase' = "editing"
             /\ UNCHANGED <<pageVars, settings, plan_file, script, generated>>

(* Quitting asks only when something is unsaved. *)
Quit ==
    /\ phase = "editing" /\ ~dirty
    /\ phase' = "off" /\ generated' = FALSE
    /\ UNCHANGED <<pageVars, settings, plan_file, script>>
AskQuit ==
    /\ phase = "editing" /\ dirty /\ phase' = "asking_quit"
    /\ UNCHANGED <<pageVars, settings, plan_file, script, generated>>
ConfirmQuit ==
    /\ phase = "asking_quit" /\ phase' = "off" /\ generated' = FALSE
    /\ UNCHANGED <<pageVars, settings, plan_file, script>>

(* SIGINT, SIGTERM or SIGHUP ends the loop or an open dialog, never running *)
(* the script; SIGKILL ends the process as well.                            *)
Stop ==
    /\ phase \in {"editing", "asking_run", "asking_quit"} /\ phase' = "off"
    /\ generated' = FALSE
    /\ UNCHANGED <<pageVars, settings, plan_file, script>>

(* main: the saved plan, or a fresh one, beside the devices found now. *)
Start ==
    /\ phase \in {"off", "installing"} /\ phase' = "editing"
    /\ IF plan_file # <<>>
       THEN disks' = plan_file[1].disks /\ settings' = plan_file[1].settings
       ELSE disks' = <<>> /\ settings' = DefaultSettings
    /\ inventory' = world /\ active_disk' = 1 /\ row' = 1 /\ dirty' = FALSE
    /\ confirmed' = "nothing" /\ generated' = FALSE
    /\ UNCHANGED <<world, plan_file, script>>
    /\ Recompared

DevicesDrift == DevicesChange /\ UNCHANGED sessionVars

BuilderNext ==
    \/ EditStorage
    \/ \E value \in Settings : EditSetting(value)
    \/ SavePlan
    \/ Generate("editing") \/ Generate("asking_run") \/ GenerationFails
    \/ RunScript \/ Decline
    \/ Quit \/ AskQuit \/ ConfirmQuit \/ Stop \/ Start
    \/ DevicesDrift
BuilderSpec == BuilderInit /\ [][BuilderNext]_vars

-----------------------------------------------------------------------------
(* README.md:186: quitting asks while something is unsaved.  Without the    *)
(* dirty mark the plan on screen is the plan in the file, or the untouched  *)
(* plan of a first start: no key changes the plan without marking it, and a *)
(* failed save or a failed generation never takes the mark away too early.  *)
InMemoryIsSaved ==
    \/ plan_file = <<Plan>>
    \/ plan_file = <<>> /\ disks = <<>> /\ settings = DefaultSettings
CleanMeansSaved == phase = "editing" /\ ~dirty => InMemoryIsSaved

(* output_and_execute.c:36-41: what is executed after the question is the   *)
(* script of the plan shown, and that plan is in the plan file as well.     *)
InstallsWhatIsShown ==
    phase \in {"asking_run", "installing"} => script = <<Plan>> /\ plan_file = script

(* What the script requires of the PART_* arrays, or it dies after the first *)
(* disk was erased: format_partitions compares a kept partition with a file *)
(* system and a UUID that must not be empty, and knows how to make five     *)
(* file systems; mount_filesystems knows five pairs of a file system and a  *)
(* profile; swapon needs a swap area.                                       *)
KeepCanPass(p) == p.action = "keep" => p.fs # "none" /\ p.uuid # NoUuid
MkfsKnows(p)   == p.action = "format" => p.target \in {"vfat", "ext4", "xfs", "f2fs", "swap"}
MountKnows(p)  ==
    p.usage \notin {"unused", "swap"} =>
        \/ p.profile = "default" /\ Effective(p) \in {"ext4", "xfs", "vfat", "f2fs"}
        \/ p.profile \in {"balanced", "compressed"} /\ Effective(p) = "f2fs"
SwaponFits(p)  == p.usage = "swap" => Effective(p) = "swap"

(* The generated script can carry out its own plan: one root and one EFI    *)
(* partition and no mount point twice, and every listed record has a file   *)
(* system the script knows for what it does with it.  A root, a partition   *)
(* without a purpose and everything on a guided disk are formatted, which   *)
(* the installer modules assume of a plan (Emitted of InstallerState).  The *)
(* validator and the templates have no code in common that would make the   *)
(* two agree.                                                               *)
FitsInstaller(plan) ==
    /\ \A usage \in {"root", "boot"} : Cardinality(Assigned(plan, usage)) = 1
    /\ \A usage \in Purposes \ {"unused"} : Cardinality(Assigned(plan, usage)) <= 1
    /\ \A i \in DOMAIN plan : \A k \in DOMAIN plan[i].parts :
          LET p == plan[i].parts[k] IN
          Actionable(p) =>
              /\ KeepCanPass(p) /\ MkfsKnows(p) /\ MountKnows(p) /\ SwaponFits(p)
              /\ p.usage \in {"root", "unused"} \/ plan[i].mode # "existing" => p.action = "format"
ScriptFitsInstaller == script # <<>> => FitsInstaller(script[1].disks)

(* ui.c:68 checks "the live identity first"; storage.c:84 compares the plan *)
(* with the current devices "before generation".  Violated: the flag tested *)
(* there is not computed again after a partition got a purpose or an action.*)
GeneratedMatchesDevices == generated => MatchesInventory(disks, inventory)
=============================================================================
