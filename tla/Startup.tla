------------------------------- MODULE Startup -------------------------------
(***************************************************************************)
(* main of the builder up to the session or, with -g, up to the script: the *)
(* package configuration, the check of the two paths, the plan file, and    *)
(* the detection of the devices through a captured lsblk.                   *)
(***************************************************************************)
EXTENDS PlanFile, CapturedProcess, LsblkInventory

CONSTANTS
    PackageFiles,   \* what packages.json may be when the program starts
    PlanFiles,      \* plan files the operator may name
    SessionFiles,   \* those of them a run is followed with beyond loading
    DeviceTrees     \* answers of lsblk

VARIABLES
    at,           \* the statement main, run_tui or the script is at
    mode,         \* "tui" or "generate" (-g)
    config,       \* the file config/packages.json
    seen,         \* history: the file prepare_package_config has found
    overwritten,  \* history: it has saved the defaults
    answer,       \* history: the answer to the overwrite question
    packages,     \* the package configuration in memory
    paths,        \* how the path of the plan relates to the path of the script
    plan_file, script_file,
    plan,         \* the plan in memory
    devices, inventory

startupVars == <<at, mode, config, seen, overwritten, answer, packages, paths,
                 plan_file, script_file, plan, devices, inventory>>
configVars  == <<config, seen, overwritten, answer, packages>>
fileVars    == <<paths, plan_file, script_file>>

NoFile  == [kind |-> "absent"]
Special == [kind |-> "special"]   \* a link, a directory, a device
Broken  == [kind |-> "broken"]    \* JSON, version, a group or a name is wrong
(* A valid configuration, told by what the operator did to the defaults:    *)
(* groups emptied, and groups naming a package no repository has.           *)
PackagesWith(empty, unknown) == [kind |-> "packages", empty |-> empty, unknown |-> unknown]
Defaults == PackagesWith({}, {})

ASSUME FilesAssumption ==
    /\ \A file \in PackageFiles :
          \/ file \in {NoFile, Special, Broken}
          \/ file \in [kind : {"packages"}, empty : SUBSET Groups, unknown : SUBSET Groups]
    /\ \A file \in PlanFiles : file \in JsonFiles /\ NothingElse(file)
    /\ SessionFiles \subseteq PlanFiles
    /\ DeviceTrees \subseteq Seq(Devices)

PlanOf(file)   == [kind |-> "plan", content |-> file]
ScriptOf(s, p) == [kind |-> "script", settings |-> s, packages |-> p]

PathRelations == {"distinct", "same", "spelled", "hardlink", "planlink", "scriptlink", "bind"}

InitialPlan == [disks |-> 0, partitions |-> 0, mode |-> 0, size |-> 0, number |-> 0,
                usage |-> 0, text |-> "", system |-> DefaultSystem]

StartupInit ==
    /\ at = "config" /\ mode \in {"tui", "generate"}
    /\ config \in PackageFiles /\ seen = NoFile /\ overwritten = FALSE /\ answer = "none"
    /\ packages = NoFile
    /\ paths = "distinct" /\ plan_file = NoFile /\ script_file = NoFile
    /\ plan = InitialPlan /\ devices = <<>> /\ inventory = <<>>

Goes(from, to) == at = from /\ at' = to

-----------------------------------------------------------------------------
(* prepare_package_config.  The directory cannot be made or inspected, or   *)
(* it is something else.                                                    *)
ConfigDirectoryFails ==
    /\ Goes("config", "exit")
    /\ UNCHANGED <<mode, configVars, fileVars, plan, devices, inventory>>

(* packages_load_json accepts regular files that are valid as a whole.      *)
LoadPackages ==
    /\ Goes("config", "paths") /\ config.kind = "packages"
    /\ seen' = config /\ packages' = config
    /\ UNCHANGED <<mode, config, overwritten, answer, fileVars, plan, devices, inventory>>

(* lstat finds nothing, or something that does not load: then a question    *)
(* is asked, on a terminal only.                                            *)
FindNoPackages ==
    /\ Goes("config", "defaults") /\ config = NoFile
    /\ UNCHANGED <<mode, configVars, fileVars, plan, devices, inventory>>
PackagesRejected ==
    /\ Goes("config", "asking") /\ config.kind \in {"special", "broken"}
    /\ seen' = config
    /\ UNCHANGED <<mode, config, overwritten, answer, packages, fileVars, plan, devices, inventory>>

OverwriteUnasked(reply) ==
    /\ Goes("asking", "defaults") /\ answer' = "none"
    /\ UNCHANGED <<mode, config, seen, overwritten, packages, fileVars, plan, devices, inventory>>

(* No terminal, end of input and every other answer mean no. *)
ConfirmPackageConfigOverwrite(reply) ==
    /\ Goes("asking", IF reply = "yes" THEN "defaults" ELSE "exit") /\ answer' = reply
    /\ UNCHANGED <<mode, config, seen, overwritten, packages, fileVars, plan, devices, inventory>>

(* packages_save_json: what is no regular file is not replaced; any step of *)
(* the save may fail.                                                       *)
SaveDefaults ==
    /\ Goes("defaults", "paths") /\ config # Special
    /\ config' = Defaults /\ packages' = Defaults /\ overwritten' = (config # NoFile)
    /\ UNCHANGED <<mode, seen, answer, fileVars, plan, devices, inventory>>
SaveDefaultsFails ==
    /\ Goes("defaults", "exit")
    /\ UNCHANGED <<mode, configVars, fileVars, plan, devices, inventory>>

(* Meanwhile the operator, or another builder, writes the file.             *)
EditConfig ==
    /\ at \in {"asking", "defaults"} /\ config # Defaults /\ config' = Defaults
    /\ UNCHANGED <<at, mode, seen, overwritten, answer, packages, fileVars, plan, devices, inventory>>

-----------------------------------------------------------------------------
(* paths_refer_to_same_destination.  "spelled" is one directory entry under *)
(* two spellings, "bind" one directory mounted in two places; a link is one *)
(* path naming the other.  Inodes are compared of files that exist, and     *)
(* entries by the real path of their directory.                             *)
OneEntry(relation) == relation \in {"same", "spelled", "bind"}

SameInodes(relation, exists) == exists /\ relation # "distinct"
SameDestinationByInode(relation, exists) == relation = "same" \/ SameInodes(relation, exists)
SameDestination(relation, exists) ==
    relation = "same" \/ SameInodes(relation, exists) \/ relation = "spelled"

(* The operator's files, looked at for the first time. *)
ComparePaths ==
    /\ at = "paths"
    /\ \E relation \in PathRelations, file \in {NoFile} \cup {PlanOf(f) : f \in PlanFiles} :
          /\ relation # "distinct" => file \in {NoFile} \cup {PlanOf(f) : f \in SessionFiles}
          /\ relation = "hardlink" => file # NoFile
          /\ IF SameDestination(relation, file # NoFile)
             THEN at' = "exit" /\ UNCHANGED <<paths, plan_file>>
             ELSE at' = "load" /\ paths' = relation /\ plan_file' = file
    /\ UNCHANGED <<mode, configVars, script_file, plan, devices, inventory>>

(* plan_load_json, with -g or when access finds the file; otherwise         *)
(* plan_init.                                                               *)
LoadPlan ==
    /\ at = "load" /\ plan_file # NoFile /\ Accepted(plan_file.content)
    /\ at' = "loaded" /\ plan' = Loaded(plan_file.content)
    /\ UNCHANGED <<mode, configVars, fileVars, devices, inventory>>
PlanRejected ==
    /\ at = "load"
    /\ IF plan_file = NoFile THEN mode = "generate" ELSE ~Accepted(plan_file.content)
    /\ at' = "exit"
    /\ UNCHANGED <<mode, configVars, fileVars, plan, devices, inventory>>
PlanInit ==
    /\ Goes("load", "detect") /\ mode = "tui" /\ plan_file = NoFile
    /\ UNCHANGED <<mode, configVars, fileVars, plan, devices, inventory>>
UseLoaded ==
    /\ Goes("loaded", IF mode = "tui" THEN "detect" ELSE "validate")
    /\ plan_file.content \in SessionFiles
    /\ UNCHANGED <<mode, configVars, fileVars, plan, devices, inventory>>

-----------------------------------------------------------------------------
(* detect_hardware: a failed calloc or call, a status of lsblk other than   *)
(* 0, no JSON, or no disk ends the program.                                 *)
CallLsblk ==
    /\ Goes("detect", "capture") /\ Enter
    /\ UNCHANGED <<mode, configVars, fileVars, plan, devices, inventory>>
DetectionFails ==
    /\ at' = "exit"
    /\ \/ at = "detect"
       \/ at = "capture" /\ parent = "failed"
       \/ at = "capture" /\ parent = "done" /\ result # "exit_0"
       \/ at = "capture" /\ parent = "done" /\ (\E trees \in DeviceTrees : Detected(trees) = <<>>)
    /\ Forget
    /\ UNCHANGED <<mode, configVars, fileVars, plan, devices, inventory>>
TakeInventory ==
    /\ Goes("capture", "inventory") /\ parent = "done" /\ result = "exit_0"
    /\ \E trees \in DeviceTrees :
          /\ Detected(trees) # <<>>
          /\ devices' = trees /\ inventory' = Detected(trees)
    /\ UNCHANGED <<captureVars, mode, configVars, fileVars, plan>>

(* run_tui wants a terminal.  The devices are left to the storage page.     *)
StartSession ==
    /\ at = "inventory" /\ at' \in {"session", "exit"}
    /\ Forget /\ devices' = <<>> /\ inventory' = <<>>
    /\ UNCHANGED <<mode, configVars, fileVars, plan>>

-----------------------------------------------------------------------------
(* validate_plan on the settings.  The rules on storage are PartitionPlan's *)
(* and not repeated.  "taken" is a name that another account of the target  *)
(* has and valid_username does not know.                                    *)
ValidSettings(s) ==
    /\ s.identity # "bad"
    /\ "local_mirror" \in s.on => "china_mirrors" \in s.on

(* generate_install_script: the target is no link; any step may fail. *)
WriteScript ==
    /\ paths # "scriptlink"
    /\ script_file' = ScriptOf(plan.system, packages)
    /\ plan_file' = IF OneEntry(paths) THEN script_file' ELSE plan_file

GenerateDirectly ==
    /\ Goes("validate", "generated") /\ ValidSettings(plan.system) /\ WriteScript
    /\ UNCHANGED <<mode, configVars, paths, plan, devices, inventory>>
NotGenerated ==
    /\ Goes("validate", "exit")
    /\ UNCHANGED <<mode, configVars, fileVars, plan, devices, inventory>>

StartupNext ==
    \/ /\ \/ ConfigDirectoryFails \/ LoadPackages \/ FindNoPackages \/ PackagesRejected
          \/ \E reply \in {"yes", "no"} : ConfirmPackageConfigOverwrite(reply)
          \/ SaveDefaults \/ SaveDefaultsFails \/ EditConfig
          \/ ComparePaths \/ LoadPlan \/ PlanRejected \/ PlanInit \/ UseLoaded
          \/ GenerateDirectly \/ NotGenerated
       /\ UNCHANGED captureVars
    \/ CallLsblk \/ DetectionFails \/ TakeInventory \/ StartSession
    \/ at = "capture" /\ CaptureActions /\ UNCHANGED startupVars
=============================================================================
