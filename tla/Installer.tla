------------------------------ MODULE Installer ------------------------------
(***************************************************************************)
(* The whole generated installer: main() of finish-main.sh with the EXIT    *)
(* trap, the signals and failures that interrupt it, and the part of its    *)
(* environment that acts on the same mounts, swap areas and devices.        *)
(***************************************************************************)
EXTENDS InstallerPackages, InstallerStorage, InstallerBoot, InstallerCleanup

CONSTANT Interference   \* the outside actors that meet a plan: see Interferences

Interferences == {"mount", "swapon", "drift", "nginx"}

ASSUME InterferenceAssumption == Interference \in [Plans -> SUBSET Interferences]

Running == pc \notin Stopped

-----------------------------------------------------------------------------
(* A declined prompt, a failed check, a failing command or a trapped signal *)
(* ends main between two commands; the EXIT trap enters cleanup.            *)
Abort ==
    /\ pc \in MainSteps /\ Die(pc)
    /\ TouchesNothing

(* SIGKILL, power loss of the session, or a second signal while cleanup has *)
(* reset the traps.                                                         *)
Kill ==
    /\ Running /\ pc' = "killed" /\ UNCHANGED <<idx, status>>
    /\ TouchesNothing

(* The operator starts the script again on the same Live system, after      *)
(* releasing what the last run left active, or without doing so.  The probe *)
(* and the snapshot of the new run lie in a work directory of its own.      *)
Rerun(released) ==
    /\ ~Running /\ run < MaxRuns[plan] /\ run' = run + 1 /\ UNCHANGED plan
    /\ pc' = "confirm_source" /\ idx' = 1 /\ status' = 0
    /\ consent' = FALSE /\ rechecked' = FALSE /\ keepSeen' = {}
    /\ claim' = [s \in Spots |-> FALSE] /\ SWAPS_TO_DISABLE' = <<>>
    /\ backupConf' = "none" /\ backupList' = "none" /\ HOST_PACMAN_CHANGED' = FALSE
    /\ LOCAL_MIRROR_SERVER_RUNNING' = FALSE
    /\ workdir' = FALSE /\ snapshotPath' = FALSE /\ staged' = FALSE
    /\ INSTALL_SUCCEEDED' = FALSE
    /\ cleanup_failed' = FALSE /\ active' = [s \in Spots |-> FALSE]
    /\ remove_safe' = TRUE /\ active_swaps' = {} /\ raced' = {} /\ sub' = {}
    /\ mount' = [s \in Spots |->
                   IF released \/ s \in {"probe", "snapshot"} \/ mount[s] = "none"
                   THEN "none" ELSE "foreign"]
    /\ swap' = [p \in Parts |-> IF released \/ swap[p] = "off" THEN "off" ELSE "foreign"]
    /\ nginx' = IF released THEN "none" ELSE nginx
    /\ UNCHANGED <<table, content, diskDrift, keepDrift, conf, list,
                   placed, stage, payload, entry>>

-----------------------------------------------------------------------------
(* Where cleanup has not yet asked findmnt about a spot: it asks in the     *)
(* order probe, target, mirror, snapshot.                                   *)
BeforeInspection(s) ==
    {"c_probe"}
    \cup (IF s = "probe" THEN {} ELSE {"c_probe_umount", "c_target"})
    \cup (IF s \in {"mirror", "snapshot"} THEN {"c_mirror"} ELSE {})
    \cup (IF s = "snapshot" THEN {"c_snapshot"} ELSE {})

(* The source of the spot has been checked for the last time before the     *)
(* script acts on it: what is mounted from now on comes too late.           *)
SourceChecked(s) ==
    \/ pc \in CleanupSteps \ BeforeInspection(s)
    \/ s = "probe" /\ pc \in {"probe_umount", "probe_release"}
    \/ s = "snapshot" /\ pc \in {"discard_umount", "discard_clear"}

(* Another process mounts something on one of the four mountpoints.  The    *)
(* two private ones are only watched while their ownership is published.    *)
(* Bound: one foreign mount at a time.                                      *)
ForeignMount(s) ==
    /\ "mount" \in Interference[plan] /\ Running
    /\ \A t \in Spots : mount[t] \notin {"foreign", "both"}
    /\ s \in {"probe", "snapshot"} => claim[s]
    /\ mount' = [mount EXCEPT ![s] = WithForeign(@)]
    /\ raced' = IF SourceChecked(s) THEN raced \cup {s} ELSE raced
    /\ UNCHANGED <<claim, sub>>
    /\ UNCHANGED controlVars /\ TouchesMounts

(* Another process activates a planned swap area. *)
ForeignSwapon(p) ==
    /\ "swapon" \in Interference[plan] /\ Running
    /\ plan.usage[p] = "swap" /\ swap[p] = "off"
    /\ swap' = [swap EXCEPT ![p] = "foreign"] /\ UNCHANGED SWAPS_TO_DISABLE
    /\ UNCHANGED controlVars /\ TouchesSwaps

(* A disk is replaced, resized, repartitioned or put to use before the last *)
(* recheck; afterwards the script looks at no disk identity any more.       *)
DiskDrift(d) ==
    /\ "drift" \in Interference[plan] /\ Running /\ ~rechecked /\ diskDrift = {}
    /\ diskDrift' = diskDrift \cup {d}
    /\ UNCHANGED <<table, content, keepDrift, consent, rechecked, keepSeen>>
    /\ UNCHANGED controlVars /\ TouchesStorage

(* A kept filesystem is recreated by another process, at the latest before  *)
(* format_partitions looks at it.                                           *)
KeepDrift(p) ==
    /\ "drift" \in Interference[plan] /\ Running
    /\ Kept(p) /\ p \notin keepSeen /\ keepDrift = {}
    /\ keepDrift' = keepDrift \cup {p}
    /\ UNCHANGED <<table, content, diskDrift, consent, rechecked, keepSeen>>
    /\ UNCHANGED controlVars /\ TouchesStorage

NginxCrashes ==
    /\ "nginx" \in Interference[plan] /\ nginx = "running" /\ nginx' = "failed"
    /\ UNCHANGED LOCAL_MIRROR_SERVER_RUNNING
    /\ UNCHANGED controlVars /\ TouchesServer

(* nginx ends with status 0 after SIGTERM. *)
NginxExits ==
    /\ nginx = "stopping" /\ nginx' = "stopped"
    /\ UNCHANGED LOCAL_MIRROR_SERVER_RUNNING
    /\ UNCHANGED controlVars /\ TouchesServer

Environment ==
    \/ \E s \in Spots : ForeignMount(s)
    \/ \E p \in Parts : ForeignSwapon(p) \/ KeepDrift(p)
    \/ \E d \in Disks : DiskDrift(d)
    \/ NginxCrashes \/ NginxExits

-----------------------------------------------------------------------------
Main == PackageActions \/ StorageActions \/ StopActions \/ BootActions

Next ==
    \/ Main \/ Abort
    \/ CleanupActions \/ Kill
    \/ Environment
    \/ \E released \in BOOLEAN : Rerun(released)

Spec == Init /\ [][Next]_vars

(* cleanup runs no prompt and no loop without end; the child it waits for   *)
(* has been sent SIGTERM.  main may wait for the operator for ever.         *)
FairSpec == Spec /\ WF_vars(CleanupActions) /\ WF_vars(NginxExits)

-----------------------------------------------------------------------------
(* PROPERTIES                                                              *)

(* A partition the plan marks KEEP keeps its contents through partitioning, *)
(* formatting, every failure and every second run.                          *)
KeptDataSurvives == \A p \in Parts : Kept(p) => content[p] = "original"

(* No partition table or partition changes before CONFIRM EXECUTE and the   *)
(* recheck after it, nor on devices that differed from the plan by then.    *)
WritesAreAuthorized ==
    [][table' # table \/ content' # content => consent /\ rechecked /\ diskDrift = {}]_vars

(* No kept filesystem is mounted for writing or enabled as swap after it    *)
(* was found to differ from the type and UUID in the plan.                  *)
KeptIsIdentifiedBeforeUse ==
    \A p \in Parts : Kept(p) /\ (p \in sub \/ swap[p] = "own") => p \notin keepDrift

(* Whatever cleanup would have to undo is on record at every moment a trap  *)
(* may run: mounts, swap areas and changed host files with whole backups.   *)
OwnedIsRecorded ==
    /\ \A s \in Spots \ raced : mount[s] \in {"own", "both"} => claim[s]
    /\ \A p \in Parts : swap[p] = "own" => \E k \in DOMAIN SWAPS_TO_DISABLE : SWAPS_TO_DISABLE[k] = p
    /\ Running /\ (conf # "original" \/ list # "original") => HOST_PACMAN_CHANGED
    /\ stage \in {"partial", "full"} => staged

(* cleanup that reports no failure has released every mount and swap area   *)
(* of this run, restored the host files and left no stage file, payload or  *)
(* work directory behind.                                                   *)
Released ==
    /\ \A s \in Spots : mount[s] \notin {"own", "both"}
    /\ sub = {} /\ \A p \in Parts : swap[p] # "own"
    /\ conf = "original" /\ list = "original"
    /\ stage \in {"none", "empty"} /\ ~payload /\ ~workdir
ReleasedOrReported == pc = "ended" /\ ~cleanup_failed /\ raced = {} => Released

(* The exit status is 0 only for a finished installation that was cleaned   *)
(* up: main ran to its end (pacstrap, the chroot script and everything else *)
(* succeeded), every planned table and filesystem was made, the boot chain  *)
(* is whole, and nothing is left to release.                                *)
ExitZeroMeansInstalled ==
    pc = "ended" /\ status = 0 =>
        /\ INSTALL_SUCCEEDED
        /\ (raced = {} => Released)
        /\ \A d \in Disks : Automatic(d) => table[d] = "created"
        /\ \A p \in Parts : ~Kept(p) => content[p] = "formatted"
        /\ plan.secure => placed = {BootFiles[k] : k \in DOMAIN BootFiles}
        /\ plan.efi => entry
        /\ plan.local => nginx = "reaped"

(* Even after a kill in the middle of a copy, pacman.conf and the mirror    *)
(* list are either in place or whole in the work directory.                 *)
HostFilesRecoverable ==
    /\ conf = "original" \/ (workdir /\ backupConf = "original")
    /\ list = "original" \/ (workdir /\ backupList = "original")

(* A mount of somebody else that was there when the script looked is never  *)
(* unmounted by the script.                                                 *)
Foreign(s) == mount[s] \in {"foreign", "both"}
ForeignMountsSpared ==
    [][\A s \in Spots : Running /\ Foreign(s) /\ ~Foreign(s)' => s \in raced]_vars

(* rm -rf never descends into the key snapshot or the KEEP probe while      *)
(* something is mounted there.                                              *)
NothingRemovedThroughMount ==
    [][/\ Running /\ workdir /\ ~workdir' =>
            \A s \in {"probe", "snapshot"} \ raced : mount[s] = "none"
       /\ Running /\ snapshotPath /\ ~snapshotPath' =>
            "snapshot" \in raced \/ mount["snapshot"] = "none"]_vars

(* Packages fetched over HTTP, in the Live system or by pacstrap, are       *)
(* verified under the signature policy the Live system started with.        *)
HttpUsesOriginalPolicy == pc \in {"http_list", "resolve", "pacstrap"} => conf = "original"

(* Interrupted at any point, the EFI partition holds a shim only beside its *)
(* signed loader, and a signed kernel only beside the unsigned original;    *)
(* the firmware entry names a loader that is there.                         *)
BootChainWhole ==
    /\ "kernel" \in placed => "kernel.bak" \in placed
    /\ "ARCH/SHIMX64" \in placed => {"kernel", "ARCH/GRUBX64", "ARCH/MMX64"} \subseteq placed
    /\ "BOOT/BOOTX64" \in placed => {"kernel", "BOOT/GRUBX64", "BOOT/FBX64"} \subseteq placed
    /\ entry /\ plan.secure => "ARCH/SHIMX64" \in placed

(* Once cleanup has started, it ends, whatever fails on the way.            *)
CleanupEnds == pc \in CleanupSteps ~> pc \in Stopped

-----------------------------------------------------------------------------
(* "Record the child before readiness polling so cleanup can always reap    *)
(* it" (runtime-filesystems.sh:173); the code does not: see README.         *)
NginxAlwaysReaped == pc = "ended" => nginx \in {"none", "reaped"}
=============================================================================
