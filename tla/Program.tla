------------------------------- MODULE Program -------------------------------
(***************************************************************************)
(* A whole use of the program: the builder starts, the operator sets the    *)
(* system up, the script is generated and run, and the target is installed. *)
(***************************************************************************)
EXTENDS TargetSystem

programVars == <<captureVars, startupVars, sessionVars, targetVars>>

ProgramInit ==
    /\ CaptureInit /\ StartupInit /\ SessionInit /\ TargetInit

(* bash runs the script: from the output page, or by hand after -g.  The    *)
(* builder is gone; its histories are told no further.                      *)
StartInstaller ==
    /\ at \in {"bash", "generated"} /\ script_file.kind = "script"
    /\ at' = "sources"
    /\ plan' = InitialPlan /\ packages' = NoFile /\ dirty' = FALSE /\ changes' = 0
    /\ seen' = NoFile /\ overwritten' = FALSE /\ answer' = "none"
    /\ UNCHANGED <<captureVars, mode, config, fileVars, devices, inventory, dialog, targetVars>>

ProgramNext ==
    \/ StartupNext /\ UNCHANGED <<sessionVars, targetVars>>
    \/ SessionNext /\ UNCHANGED targetVars
    \/ StartInstaller
    \/ TargetNext

ProgramSpec == ProgramInit /\ [][ProgramNext]_programVars /\ CaptureFairness

-----------------------------------------------------------------------------
ProgramTypeOK ==
    /\ CaptureTypeOK
    /\ at \in Steps \cup {"config", "asking", "defaults", "paths", "load", "loaded", "validate",
                          "detect", "capture", "inventory", "session", "bash", "generated", "exit",
                          "refused_early", "refused_late", "failed", "finished"}
    /\ mode \in {"tui", "generate"} /\ answer \in {"none", "yes", "no"}
    /\ {dirty, overwritten, erased} \subseteq BOOLEAN /\ changes \in 0 .. MaxChanges
    /\ config.kind \in {"absent", "special", "broken", "packages"}
    /\ packages.kind \in {"absent", "packages"} /\ script_file.kind \in {"absent", "plan", "script"}
    /\ plan_file.kind \in {"absent", "plan", "script"} /\ paths \in PathRelations
    /\ plan.system \in Settings
    /\ installed \subseteq Groups /\ entry \subseteq Groups
    /\ initramfs \in {"none", "fresh", "stale"} /\ mirrors \in {"live", "ranked", "loopback", "china"}

(* process.c:55-58: the pipe is drained before waitpid, "otherwise" parent  *)
(* and child wait for each other; and where the call gives up it closes its *)
(* end of the pipe first.  Every call returns, however long the output and  *)
(* wherever child or parent fail.                                           *)
CallReturns == parent \in Calling ~> parent \in {"done", "failed"}

(* detector/storage.c: what the storage page starts from is what a lsblk    *)
(* that ended well has written to its end: each of its disks and            *)
(* partitions that there is room for, and no disk whose mounts or stacked   *)
(* devices, however deep, were missed.                                      *)
InventoryIsWhole ==
    /\ WholeOutput
    /\ at = "inventory" => result = "exit_0" /\ WholeInventory(inventory, devices)

(* json.c: an accepted plan file is in memory as it is on disk, so that     *)
(* saving it again changes nothing, as far as the program could have        *)
(* written it.                                                              *)
PlanIsReadAsWritten ==
    at = "loaded" /\ Representable(plan_file.content) => Saved(plan) = plan_file.content

(* main.c:72-74: a configuration that was found is replaced by the built-in *)
(* one only after a yes.  A file that appears after lstat found none is     *)
(* replaced without a question.                                             *)
PackageFileReplacedOnlyWhenAgreed == overwritten => answer = "yes" \/ seen = NoFile

(* main.c:108: writing the script never destroys the plan it was made from, *)
(* unless one directory without the two files is mounted in two places.     *)
PlanOutlivesScript == paths # "bind" => plan_file.kind # "script"

(* packages.c, the pages and the templates each map the settings to groups: *)
(* a finished target has the groups that the previews of the selected rows  *)
(* show and the three of every system, and each of them was resolved before *)
(* the disks were touched.                                                  *)
InstalledIsShownAndResolved ==
    at = "finished" =>
        /\ installed = ((Shown(System) \cup FixedGroups) \ LiveGroups) \ Empty
        /\ installed \subseteq RequiredGroups(System)

(* runtime-package-source.sh:37: "missing optional packages fail before     *)
(* formatting".  What is certain to fail is found before the disks are      *)
(* erased, unless a required group was emptied by hand or the account name  *)
(* is taken in the target.                                                  *)
NoLateSurprise ==
    at = "refused_late" =>
        RequiredGroups(System) \cap Empty # {} \/ System.identity = "taken"

(* A finished target can boot and update itself: the files its loader       *)
(* entries name exist unless their group was emptied, the initramfs is      *)
(* newer than all it is built from, and its mirrors are not those of the    *)
(* Live system's loopback server.                                           *)
FinishedSystemBoots ==
    at = "finished" =>
        /\ entry \ Empty \subseteq installed /\ KernelGroup(System.kernel) \subseteq installed
        /\ initramfs = "fresh" /\ mirrors \notin {"live", "loopback"}

(* ui/dialogs.c: whatever the keys, a dialog shows its selection or cursor, *)
(* never an empty page of a list, and every word of a warning in full.      *)
DialogsStayInBounds == DialogInView(dialog)
=============================================================================
