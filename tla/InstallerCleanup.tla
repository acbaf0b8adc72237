-------------------------- MODULE InstallerCleanup --------------------------
(***************************************************************************)
(* cleanup() of runtime-cleanup.sh.  It runs once with the traps reset and  *)
(* set +e: every release is tried, a failure is recorded in cleanup_failed  *)
(* and the next release is tried all the same.                              *)
(***************************************************************************)
EXTENDS InstallerState

Report == cleanup_failed' = TRUE

(* A release that may fail: either it has its effect, or it is reported.    *)
(* effect and nothing are action formulas over the same variables.          *)
Attempt(effect, nothing) ==
    \/ effect /\ UNCHANGED cleanup_failed
    \/ nothing /\ Report

(* The command applies, or cleanup passes it by. *)
When(condition, attempt, nothing) ==
    \/ condition /\ attempt
    \/ ~condition /\ nothing /\ UNCHANGED cleanup_failed

-----------------------------------------------------------------------------
(* Ownership trusted without asking findmnt for the source. *)
TrustClaim(s, from, to) ==
    /\ Goto(from, to) /\ active' = [active EXCEPT ![s] = claim[s] /\ mount[s] # "none"]
    /\ UNCHANGED <<cleanup_failed, remove_safe, active_swaps>>
    /\ TouchesCleanup

(* One findmnt query per claimed spot: own source, foreign source, nothing  *)
(* mounted (status 1), or a failed query, which is reported.                *)
Inspect(s, from, to) ==
    /\ Goto(from, to)
    /\ \/ /\ ~claim[s] \/ mount[s] = "none"
          /\ UNCHANGED <<active, cleanup_failed, remove_safe>>
       \/ /\ claim[s] /\ mount[s] = "own"
          /\ active' = [active EXCEPT ![s] = TRUE]
          /\ UNCHANGED <<cleanup_failed, remove_safe>>
       \/ /\ claim[s] /\ Report
          /\ remove_safe' = (remove_safe /\ s # "snapshot")
          /\ UNCHANGED active
    /\ UNCHANGED active_swaps
    /\ TouchesCleanup

InspectProbe    == Inspect("probe", "c_probe", "c_probe_umount")
InspectTarget   == Inspect("target", "c_target", "c_mirror")
InspectMirror   == Inspect("mirror", "c_mirror", "c_snapshot")
InspectSnapshot == Inspect("snapshot", "c_snapshot", "c_staged")

(* umount of one inspected spot. *)
UmountSpot(s, from, to) ==
    /\ Goto(from, to)
    /\ When(active[s],
            Attempt(mount' = [mount EXCEPT ![s] = WithoutTop(@)], UNCHANGED mount),
            UNCHANGED mount)
    /\ UNCHANGED <<claim, sub, raced>>
    /\ ReleasesMounts

CleanProbe  == UmountSpot("probe", "c_probe_umount", "c_target")
CleanMirror == UmountSpot("mirror", "c_umount_mirror", "c_restore_conf")

-----------------------------------------------------------------------------
(* Staged boot files and chroot payloads are removed while /mnt is ours. *)
CleanStaged ==
    /\ Goto("c_staged", "c_payload")
    /\ When(active["target"] /\ staged,
            Attempt(stage' = "none", UNCHANGED stage), UNCHANGED stage)
    /\ UNCHANGED <<placed, staged, payload, entry, INSTALL_SUCCEEDED>>
    /\ ReleasesFiles

CleanPayload ==
    /\ Goto("c_payload", "c_umount_target")
    /\ When(active["target"],
            Attempt(payload' = FALSE, UNCHANGED payload), UNCHANGED payload)
    /\ UNCHANGED <<placed, stage, staged, entry, INSTALL_SUCCEEDED>>
    /\ ReleasesFiles

(* umount -R releases children before the root and may stop half-way. *)
CleanTarget ==
    /\ Goto("c_umount_target", "c_swaps")
    /\ When(active["target"],
            Attempt(mount' = [mount EXCEPT !["target"] = WithoutTop(@)] /\ sub' = {},
                    UNCHANGED mount /\ sub' \in SUBSET sub),
            UNCHANGED <<mount, sub>>)
    /\ UNCHANGED <<claim, raced>>
    /\ ReleasesMounts

-----------------------------------------------------------------------------
(* The active swap areas are listed once; swapoff then walks the record     *)
(* backwards, idx counting what is left of it.                              *)
QuerySwaps ==
    /\ pc = "c_swaps" /\ pc' = "c_swapoff" /\ idx' = Len(SWAPS_TO_DISABLE)
    /\ UNCHANGED status
    /\ When(SWAPS_TO_DISABLE # <<>>,
            Attempt(active_swaps' = {p \in Parts : swap[p] # "off"}, UNCHANGED active_swaps),
            UNCHANGED active_swaps)
    /\ UNCHANGED <<active, remove_safe>>
    /\ TouchesCleanup

SwapOff ==
    LET p == SWAPS_TO_DISABLE[idx] IN
    /\ pc = "c_swapoff" /\ idx > 0 /\ pc' = pc /\ idx' = idx - 1 /\ UNCHANGED status
    /\ When(p \in active_swaps,
            Attempt(swap' = [swap EXCEPT ![p] = "off"], UNCHANGED swap), UNCHANGED swap)
    /\ UNCHANGED SWAPS_TO_DISABLE
    /\ ReleasesSwaps

SwapsDone ==
    /\ Goto("c_swapoff", "c_kill") /\ idx = 0
    /\ TouchesNothing

-----------------------------------------------------------------------------
(* Waiting for a child nobody has told to end. *)
WaitWithoutKill ==
    /\ Goto("c_kill", IF LOCAL_MIRROR_SERVER_RUNNING THEN "c_wait" ELSE "c_umount_mirror")
    /\ TouchesNothing

(* stop_local_mirror_server: TERM, then wait for the child to end.  wait    *)
(* may or may not remember a child reaped before the flag was cleared.      *)
CleanKill ==
    /\ Goto("c_kill", IF LOCAL_MIRROR_SERVER_RUNNING THEN "c_wait" ELSE "c_umount_mirror")
    /\ nginx' = IF LOCAL_MIRROR_SERVER_RUNNING /\ nginx = "running" THEN "stopping" ELSE nginx
    /\ UNCHANGED LOCAL_MIRROR_SERVER_RUNNING
    /\ TouchesServer

CleanWait ==
    /\ Goto("c_wait", "c_umount_mirror")
    /\ nginx \in {"stopped", "failed", "reaped"} /\ nginx' = "reaped"
    /\ LOCAL_MIRROR_SERVER_RUNNING' = FALSE
    /\ \/ nginx # "failed" /\ UNCHANGED cleanup_failed
       \/ nginx # "stopped" /\ Report
    /\ ReleasesServer

-----------------------------------------------------------------------------
(* pacman.conf and mirrorlist come back from the private backups; a failed  *)
(* copy leaves the file as it was, or cut short.                            *)
RestoreConf ==
    /\ Goto("c_restore_conf", "c_restore_list")
    /\ When(HOST_PACMAN_CHANGED,
            Attempt(conf' = backupConf, conf' \in {conf, "torn"}), UNCHANGED conf)
    /\ UNCHANGED <<list, backupConf, backupList, HOST_PACMAN_CHANGED>>
    /\ ReleasesHost

RestoreList ==
    /\ Goto("c_restore_list", "c_umount_snapshot")
    /\ When(HOST_PACMAN_CHANGED,
            Attempt(list' = backupList, list' \in {list, "torn"}), UNCHANGED list)
    /\ UNCHANGED <<conf, backupConf, backupList, HOST_PACMAN_CHANGED>>
    /\ ReleasesHost

-----------------------------------------------------------------------------
(* The snapshot is unmounted when it is ours, and its directory is removed  *)
(* only when nothing is known or suspected to be mounted there.             *)
CleanSnapshot ==
    /\ Goto("c_umount_snapshot", "c_rm_snapshot")
    /\ When(active["snapshot"],
            Attempt(/\ mount' = [mount EXCEPT !["snapshot"] = WithoutTop(@)]
                    /\ active' = [active EXCEPT !["snapshot"] = FALSE]
                    /\ claim' = [claim EXCEPT !["snapshot"] = FALSE],
                    UNCHANGED <<mount, active, claim>>),
            UNCHANGED <<mount, active, claim>>)
    /\ UNCHANGED <<sub, raced>>
    /\ UNCHANGED <<remove_safe, active_swaps>>
    /\ UNCHANGED <<planVars, storageVars, swapVars, hostVars, nginxVars, workVars, bootVars>>

RemoveSnapshot ==
    /\ Goto("c_rm_snapshot", "c_rm_workdir")
    /\ When(~active["snapshot"] /\ remove_safe /\ snapshotPath,
            Attempt(snapshotPath' = FALSE, UNCHANGED snapshotPath), UNCHANGED snapshotPath)
    /\ UNCHANGED workdir
    /\ ReleasesWork

(* The work directory removed whatever happened before. *)
AlwaysRemoveWorkDir ==
    /\ Goto("c_rm_workdir", "c_exit")
    /\ When(workdir, Attempt(workdir' = FALSE, UNCHANGED workdir), UNCHANGED workdir)
    /\ UNCHANGED snapshotPath
    /\ ReleasesWork

(* The work directory holds the backups: it is kept when anything failed. *)
RemoveWorkDir ==
    /\ Goto("c_rm_workdir", "c_exit")
    /\ When(workdir /\ ~cleanup_failed,
            Attempt(workdir' = FALSE, UNCHANGED workdir), UNCHANGED workdir)
    /\ UNCHANGED snapshotPath
    /\ ReleasesWork

(* The status of main kept although cleanup failed. *)
ExitWithMainStatus ==
    /\ pc = "c_exit" /\ pc' = "ended" /\ UNCHANGED <<idx, status>>
    /\ TouchesNothing

Exit ==
    /\ pc = "c_exit" /\ pc' = "ended" /\ UNCHANGED idx
    /\ status' = IF status = 0 /\ cleanup_failed THEN 1 ELSE status
    /\ TouchesNothing

CleanupActions ==
    \/ InspectProbe \/ CleanProbe \/ InspectTarget \/ InspectMirror \/ InspectSnapshot
    \/ CleanStaged \/ CleanPayload \/ CleanTarget
    \/ QuerySwaps \/ SwapOff \/ SwapsDone \/ CleanKill \/ CleanWait
    \/ CleanMirror \/ RestoreConf \/ RestoreList
    \/ CleanSnapshot \/ RemoveSnapshot \/ RemoveWorkDir \/ Exit
=============================================================================
