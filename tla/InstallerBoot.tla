---------------------------- MODULE InstallerBoot ----------------------------
(***************************************************************************)
(* The private key snapshot, the installation of the base system, and the   *)
(* steps main() keeps outside the chroot: signing, the atomic installation  *)
(* of the boot files and the firmware entry (runtime-secure-boot-input.sh,  *)
(* runtime-package-source.sh, finish-secure-boot.sh, finish-firmware.sh,    *)
(* finish-main.sh).                                                         *)
(***************************************************************************)
EXTENDS InstallerState

(* snapshot_secure_boot_assets: directory, ownership, tmpfs, contents. *)
SnapshotDir ==
    /\ Goto("snapshot_dir", "snapshot_claim") /\ snapshotPath' = TRUE /\ UNCHANGED workdir
    /\ TouchesWork

SnapshotClaim ==
    /\ Goto("snapshot_claim", "snapshot_mount")
    /\ claim' = [claim EXCEPT !["snapshot"] = TRUE] /\ UNCHANGED <<mount, sub, raced>>
    /\ TouchesMounts

SnapshotMount ==
    /\ Goto("snapshot_mount", "snapshot_fill")
    /\ mount' = [mount EXCEPT !["snapshot"] = WithOwn(@)]
    /\ UNCHANGED <<claim, sub, raced>>
    /\ TouchesMounts

SnapshotFill ==
    /\ Goto("snapshot_fill", "probe")
    /\ TouchesNothing

-----------------------------------------------------------------------------
(* install_base_system, write_chroot_script and the chroot configuration. *)
Pacstrap ==
    /\ Goto("pacstrap", "write_payload")
    /\ TouchesNothing

WritePayload ==
    /\ Goto("write_payload", "chroot") /\ payload' = TRUE
    /\ UNCHANGED <<placed, stage, staged, entry, INSTALL_SUCCEEDED>>
    /\ TouchesBoot

Chroot ==
    /\ Goto("chroot", IF plan.local THEN "stop_kill"
                      ELSE IF plan.secure THEN "sign" ELSE "firmware")
    /\ TouchesNothing

-----------------------------------------------------------------------------
(* sign_secure_boot_assets revalidates the snapshot, signs into the work    *)
(* directory and verifies both outputs; nothing in /boot changes yet.       *)
Sign ==
    /\ Goto("sign", "stage")
    /\ TouchesNothing

(* atomic_install_file for BootFiles[idx]: mktemp, register, copy, rename,  *)
(* clear the record.                                                        *)
StageFile ==
    /\ Within("stage", "stage_record") /\ stage' = "empty"
    /\ UNCHANGED <<placed, staged, payload, entry, INSTALL_SUCCEEDED>>
    /\ TouchesBoot

RecordStage ==
    /\ Within("stage_record", "stage_copy") /\ staged' = TRUE
    /\ UNCHANGED <<placed, stage, payload, entry, INSTALL_SUCCEEDED>>
    /\ TouchesBoot

CopyStage ==
    /\ \/ stage' = "full" /\ Within("stage_copy", "stage_commit")
       \/ stage' = "partial" /\ Die("stage_copy")
    /\ UNCHANGED <<placed, staged, payload, entry, INSTALL_SUCCEEDED>>
    /\ TouchesBoot

CommitStage ==
    /\ Within("stage_commit", "stage_clear")
    /\ stage' = "none" /\ placed' = placed \cup {BootFiles[idx]}
    /\ UNCHANGED <<staged, payload, entry, INSTALL_SUCCEEDED>>
    /\ TouchesBoot

ClearRecord ==
    /\ Advance("stage_clear", "stage", "discard_check", Len(BootFiles)) /\ staged' = FALSE
    /\ UNCHANGED <<placed, stage, payload, entry, INSTALL_SUCCEEDED>>
    /\ TouchesBoot

-----------------------------------------------------------------------------
(* discard_secure_boot_snapshot: only this run's tmpfs is unmounted. *)
DiscardCheck ==
    /\ IF mount["snapshot"] = "own" THEN Goto("discard_check", "discard_umount")
                                    ELSE Die("discard_check")
    /\ TouchesNothing

DiscardUmount ==
    /\ Goto("discard_umount", "discard_clear")
    /\ mount' = [mount EXCEPT !["snapshot"] = WithoutTop(@)]
    /\ UNCHANGED <<claim, sub, raced>>
    /\ TouchesMounts

DiscardClear ==
    /\ Goto("discard_clear", "discard_rmdir")
    /\ claim' = [claim EXCEPT !["snapshot"] = FALSE] /\ UNCHANGED <<mount, sub, raced>>
    /\ TouchesMounts

(* rmdir refuses a mountpoint. *)
DiscardRmdir ==
    /\ IF mount["snapshot"] = "none"
       THEN Goto("discard_rmdir", "firmware") /\ snapshotPath' = FALSE
       ELSE Die("discard_rmdir") /\ UNCHANGED snapshotPath
    /\ UNCHANGED workdir
    /\ TouchesWork

-----------------------------------------------------------------------------
(* create_firmware_entry: an existing matching entry is reused. *)
Firmware ==
    /\ Goto("firmware", "rm_payload") /\ entry' = (entry \/ plan.efi)
    /\ UNCHANGED <<placed, stage, staged, payload, INSTALL_SUCCEEDED>>
    /\ TouchesBoot

RemovePayload ==
    /\ Goto("rm_payload", "succeed") /\ payload' = FALSE
    /\ UNCHANGED <<placed, stage, staged, entry, INSTALL_SUCCEEDED>>
    /\ TouchesBoot

Succeed ==
    /\ Goto("succeed", "done") /\ INSTALL_SUCCEEDED' = TRUE
    /\ UNCHANGED <<placed, stage, staged, payload, entry>>
    /\ TouchesBoot

(* main returns and the EXIT trap runs cleanup with status 0. *)
Finish ==
    /\ Goto("done", "c_probe")
    /\ TouchesNothing

BootActions ==
    \/ SnapshotDir \/ SnapshotClaim \/ SnapshotMount \/ SnapshotFill
    \/ Pacstrap \/ WritePayload \/ Chroot \/ Sign
    \/ StageFile \/ RecordStage \/ CopyStage \/ CommitStage \/ ClearRecord
    \/ DiscardCheck \/ DiscardUmount \/ DiscardClear \/ DiscardRmdir
    \/ Firmware \/ RemovePayload \/ Succeed \/ Finish
=============================================================================
