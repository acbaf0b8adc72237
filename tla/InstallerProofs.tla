-------------------------- MODULE InstallerProofs --------------------------
(***************************************************************************)
(* Theorems about the installer, for every plan, number of disks and        *)
(* partitions, number of runs and kind of interference.                     *)
(*                                                                          *)
(* The induction needs more than the properties: that the loop index stays  *)
(* within the arrays, that pacman.conf is only restored from a backup that  *)
(* was made, that a formatter never runs on a kept partition, and that the  *)
(* storage steps are only reached through consent and recheck.              *)
(***************************************************************************)
EXTENDS Installer, TLAPS

PartLoops == {"probe", "probe_claim", "probe_mount", "probe_umount", "probe_release",
              "format", "mkfs", "mount", "register_swap", "swapon"}
DiskLoops == {"wipe", "write_table"}
FileLoops == {"stage", "stage_record", "stage_copy", "stage_commit", "stage_clear"}
PolicySteps == {"siglevel", "file_list", "bootstrap", "start_nginx", "record_nginx",
                "await_nginx", "restore_conf"}

(* The loop index addresses an existing record. *)
IndexInRange ==
    /\ pc \in PartLoops => idx \in Parts
    /\ pc \in DiskLoops => idx \in Disks
    /\ pc \in FileLoops => idx \in 1 .. 11
    /\ pc = "c_swapoff" => idx <= Len(SWAPS_TO_DISABLE)

(* HOST_PACMAN_CHANGED is set after both backups, and before the policy changes. *)
BackupsMade ==
    /\ pc \in {"backup_list", "set_changed"} \cup PolicySteps => backupConf # "none"
    /\ pc = "set_changed" => backupList # "none"
    /\ HOST_PACMAN_CHANGED => backupConf # "none" /\ backupList # "none"

(* The formatter runs on a partition the plan formats. *)
FormatsOnlyPlanned == pc = "mkfs" => ~Kept(idx)

(* The recheck has consent; every step after it also saw no drift. *)
WritesLicensed ==
    /\ pc = "recheck" => consent
    /\ pc \in WriteSteps => consent /\ rechecked /\ diskDrift = {}

IInv == TypeOK /\ IndexInRange /\ BackupsMade /\ FormatsOnlyPlanned
            /\ WritesLicensed /\ KeptDataSurvives

-----------------------------------------------------------------------------
(* What a step leaves alone keeps its type, and kept contents stay kept. *)
LEMMA Frames ==
    /\ StorageTypeOK /\ UNCHANGED storageVars => StorageTypeOK'
    /\ MountTypeOK /\ UNCHANGED <<mountVars, swapVars>> => MountTypeOK'
    /\ HostTypeOK /\ UNCHANGED <<hostVars, nginxVars>> => HostTypeOK'
    /\ BootTypeOK /\ UNCHANGED <<workVars, bootVars>> => BootTypeOK'
    /\ CleanupTypeOK /\ UNCHANGED cleanupVars => CleanupTypeOK'
    /\ KeptDataSurvives /\ UNCHANGED <<plan, content>> => KeptDataSurvives'
    BY DEF StorageTypeOK, MountTypeOK, HostTypeOK, BootTypeOK, CleanupTypeOK, storageVars,
           mountVars, swapVars, hostVars, nginxVars, workVars, bootVars, cleanupVars,
           KeptDataSurvives, Kept

(* The eleven boot files. *)
LEMMA BootFilesLength == DOMAIN BootFiles = 1 .. 11 /\ Len(BootFiles) = 11
    BY DEF BootFiles

(* Package source preparation preserves the invariant. *)
LEMMA PackageKeeps == IInv /\ PackageActions => IInv'
    <1> SUFFICES ASSUME IInv, PackageActions PROVE IInv'
        OBVIOUS
    <1> USE SizesAssumption DEF TypeOK, ControlTypeOK, IndexInRange, BackupsMade,
            FormatsOnlyPlanned, WritesLicensed, Kept, Parts, Disks,
            PartLoops, DiskLoops, FileLoops, PolicySteps, MainSteps, PreparationSteps,
            WriteSteps, CleanupSteps, Stopped, Goto, Within, Advance, Die,
            controlVars, planVars, storageVars, mountVars, swapVars, hostVars, nginxVars,
            workVars, bootVars, cleanupVars, TouchesNothing, TouchesStorage, TouchesMounts,
            TouchesSwaps, TouchesHost, TouchesServer, TouchesWork, TouchesBoot, TouchesCleanup,
            ReleasesMounts, ReleasesFiles, ReleasesSwaps, ReleasesServer, ReleasesHost,
            ReleasesWork
    <1>1. CASE ConfirmPackage
        BY <1>1, Frames DEF IInv, ConfirmPackage
    <1>2. CASE ClaimMirror
        <2>1. MountTypeOK'
            BY <1>2 DEF IInv, ClaimMirror, MountTypeOK, MountStates, WithOwn, WithoutTop
        <2> QED
            BY <1>2, <2>1, Frames DEF IInv, ClaimMirror
    <1>3. CASE MountMirror
        BY <1>3, Frames DEF IInv, MountMirror, MountTypeOK, MountStates, WithOwn, WithoutTop
    <1>4. CASE BackupConf
        BY <1>4, Frames DEF IInv, BackupConf, Copied, HostTypeOK, ConfValues, ListValues
    <1>5. CASE BackupList
        BY <1>5, Frames DEF IInv, BackupList, Copied, HostTypeOK, ConfValues, ListValues
    <1>6. CASE SetChanged
        BY <1>6, Frames DEF IInv, SetChanged, HostTypeOK, ConfValues, ListValues
    <1>7. CASE RankMirrors
        BY <1>7, Frames DEF IInv, RankMirrors, HostTypeOK, ConfValues, ListValues
    <1>8. CASE StripSigLevel
        BY <1>8, Frames DEF IInv, StripSigLevel, HostTypeOK, ConfValues, ListValues
    <1>9. CASE FileList
        BY <1>9, Frames DEF IInv, FileList, HostTypeOK, ConfValues, ListValues
    <1>10. CASE Bootstrap
        BY <1>10, Frames DEF IInv, Bootstrap
    <1>11. CASE StartNginx
        BY <1>11, Frames DEF IInv, StartNginx, HostTypeOK, ConfValues, ListValues
    <1>12. CASE RecordNginx
        BY <1>12, Frames DEF IInv, RecordNginx, HostTypeOK, ConfValues, ListValues
    <1>13. CASE AwaitNginx
        <2>1. UNCHANGED hostVars
            BY <1>13 DEF AwaitNginx
        <2>2. nginx' \in {nginx, "reaped"}
            BY <1>13 DEF AwaitNginx
        <2>3. LOCAL_MIRROR_SERVER_RUNNING' \in {LOCAL_MIRROR_SERVER_RUNNING, FALSE}
            BY <1>13 DEF AwaitNginx
        <2>4. HostTypeOK'
            BY <2>1, <2>2, <2>3 DEF IInv, HostTypeOK
        <2> QED
            BY <1>13, <2>4, Frames DEF IInv, AwaitNginx
    <1>14. CASE RestorePolicy
        BY <1>14, Frames DEF IInv, RestorePolicy, Copied, HostTypeOK, ConfValues, ListValues
    <1>15. CASE HttpList
        BY <1>15, Frames DEF IInv, HttpList, HostTypeOK, ConfValues, ListValues
    <1>16. CASE ResolvePackages
        BY <1>16, Frames DEF IInv, ResolvePackages
    <1> QED
        BY <1>1, <1>2, <1>3, <1>4, <1>5, <1>6, <1>7, <1>8, <1>9, <1>10, <1>11,
           <1>12, <1>13, <1>14, <1>15, <1>16
        DEF PackageActions

(* Checks, consents and storage writes preserve the invariant. *)
LEMMA StorageKeeps == IInv /\ StorageActions => IInv'
    <1> SUFFICES ASSUME IInv, StorageActions PROVE IInv'
        OBVIOUS
    <1> USE SizesAssumption DEF TypeOK, ControlTypeOK, IndexInRange, BackupsMade,
            FormatsOnlyPlanned, WritesLicensed, Kept, Parts, Disks,
            PartLoops, DiskLoops, FileLoops, PolicySteps, MainSteps, PreparationSteps,
            WriteSteps, CleanupSteps, Stopped, Goto, Within, Advance, Die,
            controlVars, planVars, storageVars, mountVars, swapVars, hostVars, nginxVars,
            workVars, bootVars, cleanupVars, TouchesNothing, TouchesStorage, TouchesMounts,
            TouchesSwaps, TouchesHost, TouchesServer, TouchesWork, TouchesBoot, TouchesCleanup,
            ReleasesMounts, ReleasesFiles, ReleasesSwaps, ReleasesServer, ReleasesHost,
            ReleasesWork
    <1>1. CASE ConfirmSource
        BY <1>1, Frames DEF IInv, ConfirmSource
    <1>2. CASE MakeWorkDir
        BY <1>2, Frames DEF IInv, MakeWorkDir, BootTypeOK
    <1>3. CASE Preflight
        BY <1>3, Frames DEF IInv, Preflight, StorageMatchesPlan
    <1>4. CASE SkipProbe
        BY <1>4, Frames DEF IInv, SkipProbe, Probed
    <1>5. CASE ClaimProbe
        BY <1>5, Frames DEF IInv, ClaimProbe, Probed, MountTypeOK, MountStates, WithOwn,
            WithoutTop
    <1>6. CASE MountProbe
        BY <1>6, Frames DEF IInv, MountProbe, MountTypeOK, MountStates, WithOwn, WithoutTop
    <1>7. CASE UmountProbe
        BY <1>7, Frames DEF IInv, UmountProbe, MountTypeOK, MountStates, WithOwn, WithoutTop
    <1>8. CASE ReleaseProbe
        BY <1>8, Frames DEF IInv, ReleaseProbe, MountTypeOK, MountStates, WithOwn,
            WithoutTop
    <1>9. CASE RemoveProbe
        BY <1>9, Frames DEF IInv, RemoveProbe
    <1>10. CASE ConfirmDestructive
        <2>1. StorageTypeOK'
            BY <1>10 DEF IInv, ConfirmDestructive, StorageTypeOK
        <2> QED
            BY <1>10, <2>1, Frames DEF IInv, ConfirmDestructive
    <1>11. CASE Recheck
        <2>1. StorageTypeOK'
            BY <1>11 DEF IInv, Recheck, StorageMatchesPlan, StorageTypeOK
        <2> QED
            BY <1>11, <2>1, Frames, SMTT(30) DEF IInv, Recheck, StorageMatchesPlan
    <1>12. CASE KeepTable
        BY <1>12, Frames DEF IInv, KeepTable, Automatic
    <1>13. CASE Wipe
        <2>1. StorageTypeOK'
            BY <1>13 DEF IInv, Wipe, Automatic, StorageTypeOK
        <2>2. KeptDataSurvives'
            BY <1>13, PlansAssumption DEF IInv, KeptDataSurvives, StorageTypeOK, Wipe,
                Automatic, Automatic, Emitted, Plan
        <2> QED
            BY <1>13, <2>1, <2>2, Frames DEF IInv, Wipe, Automatic
    <1>14. CASE WriteTable
        <2>1. StorageTypeOK'
            BY <1>14 DEF IInv, WriteTable, StorageTypeOK
        <2> QED
            BY <1>14, <2>1, Frames, SMTT(30) DEF IInv, WriteTable
    <1>15. CASE AwaitPartitions
        BY <1>15, Frames DEF IInv, AwaitPartitions, Automatic
    <1>16. CASE CheckKept
        <2>1. StorageTypeOK'
            BY <1>16 DEF IInv, CheckKept, StorageTypeOK
        <2> QED
            BY <1>16, <2>1, Frames DEF IInv, CheckKept
    <1>17. CASE BeginFormat
        <2>1. StorageTypeOK'
            BY <1>17 DEF IInv, BeginFormat, StorageTypeOK
        <2>2. BootTypeOK'
            BY <1>17 DEF IInv, BeginFormat, BootTypeOK
        <2>3. KeptDataSurvives'
            BY <1>17 DEF IInv, KeptDataSurvives, StorageTypeOK, BeginFormat
        <2> QED
            BY <1>17, <2>1, <2>2, <2>3, Frames DEF IInv, BeginFormat
    <1>18. CASE EndFormat
        <2>1. StorageTypeOK'
            BY <1>18 DEF IInv, EndFormat, StorageTypeOK
        <2>2. KeptDataSurvives'
            BY <1>18 DEF IInv, KeptDataSurvives, StorageTypeOK, EndFormat
        <2> QED
            BY <1>18, <2>1, <2>2, Frames, SMTT(30) DEF IInv, EndFormat
    <1>19. CASE ClaimRoot
        BY <1>19, Frames DEF IInv, ClaimRoot, MountTypeOK, MountStates, WithOwn, WithoutTop
    <1>20. CASE Mount
        BY <1>20, Frames, SMTT(30) DEF IInv, Mount, Mounted, MountTypeOK, MountStates, WithOwn,
            WithoutTop
    <1>21. CASE SkipSwap
        BY <1>21, Frames DEF IInv, SkipSwap
    <1>22. CASE RegisterSwap
        BY <1>22, Frames DEF IInv, RegisterSwap, MountTypeOK, MountStates, WithOwn,
            WithoutTop
    <1>23. CASE SwapOn
        <2>1. MountTypeOK'
            BY <1>23 DEF IInv, SwapOn, MountTypeOK, MountStates, WithOwn, WithoutTop
        <2> QED
            BY <1>23, <2>1, Frames DEF IInv, SwapOn
    <1> QED
        BY <1>1, <1>2, <1>3, <1>4, <1>5, <1>6, <1>7, <1>8, <1>9, <1>10, <1>11,
           <1>12, <1>13, <1>14, <1>15, <1>16, <1>17, <1>18, <1>19, <1>20, <1>21, <1>22,
           <1>23
        DEF StorageActions

(* Stopping the mirror server leaves the host's files alone. *)
LEMMA StopKeepsHost == HostTypeOK /\ StopActions => HostTypeOK'
    <1> USE DEF HostTypeOK, ConfValues, ListValues
    <1>1. HostTypeOK /\ StopKill => HostTypeOK'
        BY DEF StopKill, TouchesServer, hostVars, nginxVars
    <1>2. HostTypeOK /\ StopWait => HostTypeOK'
        BY DEF StopWait, TouchesServer, hostVars, nginxVars
    <1>3. HostTypeOK /\ StopClear => HostTypeOK'
        BY DEF StopClear, TouchesServer, hostVars, nginxVars
    <1> QED
        BY <1>1, <1>2, <1>3 DEF StopActions

(* Stopping the mirror server preserves the invariant. *)
LEMMA StopKeeps == IInv /\ StopActions => IInv'
    <1> SUFFICES ASSUME IInv, StopActions PROVE IInv'
        OBVIOUS
    <1>0. HostTypeOK'
        BY StopKeepsHost DEF IInv, TypeOK
    <1> USE SizesAssumption DEF TypeOK, ControlTypeOK, IndexInRange, BackupsMade,
            FormatsOnlyPlanned, WritesLicensed, Kept, Parts, Disks,
            PartLoops, DiskLoops, FileLoops, PolicySteps, MainSteps, PreparationSteps,
            WriteSteps, CleanupSteps, Stopped, Goto, Within, Advance, Die,
            controlVars, planVars, storageVars, mountVars, swapVars, hostVars, nginxVars,
            workVars, bootVars, cleanupVars, TouchesNothing, TouchesStorage, TouchesMounts,
            TouchesSwaps, TouchesHost, TouchesServer, TouchesWork, TouchesBoot, TouchesCleanup,
            ReleasesMounts, ReleasesFiles, ReleasesSwaps, ReleasesServer, ReleasesHost,
            ReleasesWork
    <1>1. CASE StopKill
        BY <1>0, <1>1, Frames DEF IInv, StopKill
    <1>2. CASE StopWait
        BY <1>0, <1>2, Frames DEF IInv, StopWait
    <1>3. CASE StopClear
        BY <1>0, <1>3, Frames DEF IInv, StopClear, AfterStop
    <1> QED
        BY <1>1, <1>2, <1>3
        DEF StopActions

(* Bootstrap, signing and the boot files preserve the invariant. *)
LEMMA BootKeeps == IInv /\ BootActions => IInv'
    <1> SUFFICES ASSUME IInv, BootActions PROVE IInv'
        OBVIOUS
    <1> USE SizesAssumption DEF TypeOK, ControlTypeOK, IndexInRange, BackupsMade,
            FormatsOnlyPlanned, WritesLicensed, Kept, Parts, Disks,
            PartLoops, DiskLoops, FileLoops, PolicySteps, MainSteps, PreparationSteps,
            WriteSteps, CleanupSteps, Stopped, Goto, Within, Advance, Die,
            controlVars, planVars, storageVars, mountVars, swapVars, hostVars, nginxVars,
            workVars, bootVars, cleanupVars, TouchesNothing, TouchesStorage, TouchesMounts,
            TouchesSwaps, TouchesHost, TouchesServer, TouchesWork, TouchesBoot, TouchesCleanup,
            ReleasesMounts, ReleasesFiles, ReleasesSwaps, ReleasesServer, ReleasesHost,
            ReleasesWork
    <1>1. CASE SnapshotDir
        BY <1>1, Frames DEF IInv, SnapshotDir, BootTypeOK
    <1>2. CASE SnapshotClaim
        BY <1>2, Frames DEF IInv, SnapshotClaim, MountTypeOK, MountStates, WithOwn,
            WithoutTop
    <1>3. CASE SnapshotMount
        BY <1>3, Frames DEF IInv, SnapshotMount, MountTypeOK, MountStates, WithOwn,
            WithoutTop
    <1>4. CASE SnapshotFill
        BY <1>4, Frames DEF IInv, SnapshotFill
    <1>5. CASE Pacstrap
        BY <1>5, Frames DEF IInv, Pacstrap
    <1>6. CASE WritePayload
        BY <1>6, Frames DEF IInv, WritePayload, BootTypeOK
    <1>7. CASE Chroot
        BY <1>7, Frames DEF IInv, Chroot
    <1>8. CASE Sign
        BY <1>8, Frames DEF IInv, Sign
    <1>9. CASE StageFile
        BY <1>9, Frames DEF IInv, StageFile, BootTypeOK
    <1>10. CASE RecordStage
        BY <1>10, Frames DEF IInv, RecordStage, BootTypeOK
    <1>11. CASE CopyStage
        BY <1>11, Frames DEF IInv, CopyStage, BootTypeOK
    <1>12. CASE CommitStage
        <2>1. BootTypeOK'
            BY <1>12, BootFilesLength DEF IInv, CommitStage, BootTypeOK
        <2> QED
            BY <1>12, <2>1, BootFilesLength, Frames DEF IInv, CommitStage
    <1>13. CASE ClearRecord
        <2>1. BootTypeOK'
            BY <1>13, BootFilesLength DEF IInv, ClearRecord, BootTypeOK
        <2> QED
            BY <1>13, <2>1, BootFilesLength, Frames DEF IInv, ClearRecord
    <1>14. CASE DiscardCheck
        BY <1>14, Frames DEF IInv, DiscardCheck
    <1>15. CASE DiscardUmount
        BY <1>15, Frames DEF IInv, DiscardUmount, MountTypeOK, MountStates, WithOwn,
            WithoutTop
    <1>16. CASE DiscardClear
        BY <1>16, Frames DEF IInv, DiscardClear, MountTypeOK, MountStates, WithOwn,
            WithoutTop
    <1>17. CASE DiscardRmdir
        <2>1. BootTypeOK'
            BY <1>17 DEF IInv, DiscardRmdir, BootTypeOK
        <2> QED
            BY <1>17, <2>1, Frames DEF IInv, DiscardRmdir
    <1>18. CASE Firmware
        BY <1>18, Frames DEF IInv, Firmware, BootTypeOK
    <1>19. CASE RemovePayload
        <2>1. BootTypeOK'
            BY <1>19 DEF IInv, RemovePayload, BootTypeOK
        <2> QED
            BY <1>19, <2>1, Frames DEF IInv, RemovePayload
    <1>20. CASE Succeed
        BY <1>20, Frames DEF IInv, Succeed, BootTypeOK
    <1>21. CASE Finish
        BY <1>21, Frames DEF IInv, Finish
    <1> QED
        BY <1>1, <1>2, <1>3, <1>4, <1>5, <1>6, <1>7, <1>8, <1>9, <1>10, <1>11,
           <1>12, <1>13, <1>14, <1>15, <1>16, <1>17, <1>18, <1>19, <1>20, <1>21
        DEF BootActions

(* cleanup() preserves the invariant. *)
LEMMA CleanupKeeps == IInv /\ CleanupActions => IInv'
    <1> SUFFICES ASSUME IInv, CleanupActions PROVE IInv'
        OBVIOUS
    <1> USE SizesAssumption DEF TypeOK, ControlTypeOK, IndexInRange, BackupsMade,
            FormatsOnlyPlanned, WritesLicensed, Kept, Parts, Disks,
            PartLoops, DiskLoops, FileLoops, PolicySteps, MainSteps, PreparationSteps,
            WriteSteps, CleanupSteps, Stopped, Goto, Within, Advance, Die,
            controlVars, planVars, storageVars, mountVars, swapVars, hostVars, nginxVars,
            workVars, bootVars, cleanupVars, TouchesNothing, TouchesStorage, TouchesMounts,
            TouchesSwaps, TouchesHost, TouchesServer, TouchesWork, TouchesBoot, TouchesCleanup,
            ReleasesMounts, ReleasesFiles, ReleasesSwaps, ReleasesServer, ReleasesHost,
            ReleasesWork
    <1>1. CASE InspectProbe
        <2>1. CleanupTypeOK'
            BY <1>1 DEF IInv, InspectProbe, Inspect, Report, CleanupTypeOK
        <2> QED
            BY <1>1, <2>1, Frames DEF IInv, InspectProbe, Inspect
    <1>2. CASE CleanProbe
        <2>1. MountTypeOK'
            BY <1>2 DEF IInv, CleanProbe, UmountSpot, When, Attempt, Report, MountTypeOK,
                MountStates, WithOwn, WithoutTop
        <2>2. CleanupTypeOK'
            BY <1>2 DEF IInv, CleanProbe, UmountSpot, When, Attempt, Report, CleanupTypeOK
        <2> QED
            BY <1>2, <2>1, <2>2, Frames DEF IInv, CleanProbe, UmountSpot
    <1>3. CASE InspectTarget
        <2>1. CleanupTypeOK'
            BY <1>3 DEF IInv, InspectTarget, Inspect, Report, CleanupTypeOK
        <2> QED
            BY <1>3, <2>1, Frames DEF IInv, InspectTarget, Inspect
    <1>4. CASE InspectMirror
        <2>1. CleanupTypeOK'
            BY <1>4 DEF IInv, InspectMirror, Inspect, Report, CleanupTypeOK
        <2> QED
            BY <1>4, <2>1, Frames DEF IInv, InspectMirror, Inspect
    <1>5. CASE InspectSnapshot
        <2>1. CleanupTypeOK'
            BY <1>5 DEF IInv, InspectSnapshot, Inspect, Report, CleanupTypeOK
        <2> QED
            BY <1>5, <2>1, Frames DEF IInv, InspectSnapshot, Inspect
    <1>6. CASE CleanStaged
        <2>1. BootTypeOK'
            BY <1>6 DEF IInv, CleanStaged, When, Attempt, Report, BootTypeOK
        <2>2. CleanupTypeOK'
            BY <1>6 DEF IInv, CleanStaged, When, Attempt, Report, CleanupTypeOK
        <2> QED
            BY <1>6, <2>1, <2>2, Frames DEF IInv, CleanStaged
    <1>7. CASE CleanPayload
        <2>1. BootTypeOK'
            BY <1>7 DEF IInv, CleanPayload, When, Attempt, Report, BootTypeOK
        <2>2. CleanupTypeOK'
            BY <1>7 DEF IInv, CleanPayload, When, Attempt, Report, CleanupTypeOK
        <2> QED
            BY <1>7, <2>1, <2>2, Frames DEF IInv, CleanPayload
    <1>8. CASE CleanTarget
        <2>1. MountTypeOK'
            BY <1>8 DEF IInv, CleanTarget, When, Attempt, Report, MountTypeOK, MountStates,
                WithOwn, WithoutTop
        <2>2. CleanupTypeOK'
            BY <1>8 DEF IInv, CleanTarget, When, Attempt, Report, CleanupTypeOK
        <2> QED
            BY <1>8, <2>1, <2>2, Frames DEF IInv, CleanTarget
    <1>9. CASE QuerySwaps
        <2>1. CleanupTypeOK'
            BY <1>9 DEF IInv, QuerySwaps, When, Attempt, Report, CleanupTypeOK
        <2> QED
            BY <1>9, <2>1, Frames DEF IInv, QuerySwaps
    <1>10. CASE SwapOff
        <2>1. MountTypeOK'
            BY <1>10 DEF IInv, SwapOff, When, Attempt, Report, MountTypeOK, MountStates,
                WithOwn, WithoutTop
        <2>2. CleanupTypeOK'
            BY <1>10 DEF IInv, SwapOff, When, Attempt, Report, CleanupTypeOK
        <2> QED
            BY <1>10, <2>1, <2>2, Frames DEF IInv, SwapOff
    <1>11. CASE SwapsDone
        BY <1>11, Frames DEF IInv, SwapsDone
    <1>12. CASE CleanKill
        <2>1. HostTypeOK'
            BY <1>12 DEF IInv, CleanKill, HostTypeOK, ConfValues, ListValues
        <2> QED
            BY <1>12, <2>1, Frames DEF IInv, CleanKill
    <1>13. CASE CleanWait
        <2>1. HostTypeOK'
            BY <1>13 DEF IInv, CleanWait, Report, HostTypeOK, ConfValues, ListValues
        <2>2. CleanupTypeOK'
            BY <1>13 DEF IInv, CleanWait, Report, CleanupTypeOK
        <2> QED
            BY <1>13, <2>1, <2>2, Frames DEF IInv, CleanWait
    <1>14. CASE CleanMirror
        <2>1. MountTypeOK'
            BY <1>14 DEF IInv, CleanMirror, UmountSpot, When, Attempt, Report, MountTypeOK,
                MountStates, WithOwn, WithoutTop
        <2>2. CleanupTypeOK'
            BY <1>14 DEF IInv, CleanMirror, UmountSpot, When, Attempt, Report, CleanupTypeOK
        <2> QED
            BY <1>14, <2>1, <2>2, Frames DEF IInv, CleanMirror, UmountSpot
    <1>15. CASE RestoreConf
        <2>1. HostTypeOK'
            BY <1>15 DEF IInv, RestoreConf, When, Attempt, Report, HostTypeOK, ConfValues,
                ListValues
        <2>2. CleanupTypeOK'
            BY <1>15 DEF IInv, RestoreConf, When, Attempt, Report, CleanupTypeOK
        <2> QED
            BY <1>15, <2>1, <2>2, Frames DEF IInv, RestoreConf
    <1>16. CASE RestoreList
        <2>1. HostTypeOK'
            BY <1>16 DEF IInv, RestoreList, When, Attempt, Report, HostTypeOK, ConfValues,
                ListValues
        <2>2. CleanupTypeOK'
            BY <1>16 DEF IInv, RestoreList, When, Attempt, Report, CleanupTypeOK
        <2> QED
            BY <1>16, <2>1, <2>2, Frames, SMTT(30) DEF IInv, RestoreList
    <1>17. CASE CleanSnapshot
        <2>1. MountTypeOK'
            BY <1>17 DEF IInv, CleanSnapshot, When, Attempt, Report, MountTypeOK,
                MountStates, WithOwn, WithoutTop
        <2>2. CleanupTypeOK'
            BY <1>17 DEF IInv, CleanSnapshot, When, Attempt, Report, CleanupTypeOK
        <2> QED
            BY <1>17, <2>1, <2>2, Frames DEF IInv, CleanSnapshot
    <1>18. CASE RemoveSnapshot
        <2>1. BootTypeOK'
            BY <1>18 DEF IInv, RemoveSnapshot, When, Attempt, Report, BootTypeOK
        <2>2. CleanupTypeOK'
            BY <1>18 DEF IInv, RemoveSnapshot, When, Attempt, Report, CleanupTypeOK
        <2> QED
            BY <1>18, <2>1, <2>2, Frames DEF IInv, RemoveSnapshot
    <1>19. CASE RemoveWorkDir
        <2>1. BootTypeOK'
            BY <1>19 DEF IInv, RemoveWorkDir, When, Attempt, Report, BootTypeOK
        <2>2. CleanupTypeOK'
            BY <1>19 DEF IInv, RemoveWorkDir, When, Attempt, Report, CleanupTypeOK
        <2> QED
            BY <1>19, <2>1, <2>2, Frames DEF IInv, RemoveWorkDir
    <1>20. CASE Exit
        BY <1>20, Frames DEF IInv, Exit
    <1> QED
        BY <1>1, <1>2, <1>3, <1>4, <1>5, <1>6, <1>7, <1>8, <1>9, <1>10, <1>11,
           <1>12, <1>13, <1>14, <1>15, <1>16, <1>17, <1>18, <1>19, <1>20
        DEF CleanupActions

(* Signals, failures, restarts and the outside actors preserve it, too. *)
LEMMA OutsideKeeps ==
    IInv /\ (Abort \/ Kill \/ Environment \/ \E released \in BOOLEAN : Rerun(released)) => IInv'
    <1> SUFFICES ASSUME IInv,
                        Abort \/ Kill \/ Environment \/ \E released \in BOOLEAN : Rerun(released)
                 PROVE IInv'
        OBVIOUS
    <1> USE SizesAssumption DEF TypeOK, ControlTypeOK, IndexInRange, BackupsMade,
            FormatsOnlyPlanned, WritesLicensed, Kept, Parts, Disks,
            PartLoops, DiskLoops, FileLoops, PolicySteps, MainSteps, PreparationSteps,
            WriteSteps, CleanupSteps, Stopped, Die,
            controlVars, planVars, storageVars, mountVars, swapVars, hostVars, nginxVars,
            workVars, bootVars, cleanupVars, TouchesNothing, TouchesStorage, TouchesMounts,
            TouchesSwaps, TouchesHost, TouchesServer, TouchesWork, TouchesBoot, TouchesCleanup,
            ReleasesMounts, ReleasesFiles, ReleasesSwaps, ReleasesServer, ReleasesHost,
            ReleasesWork
    <1>1. CASE Abort
        BY <1>1, Frames DEF IInv, Abort
    <1>2. CASE Kill
        BY <1>2, Frames DEF IInv, Kill
    <1>3. ASSUME NEW released \in BOOLEAN, Rerun(released) PROVE IInv'
        <2>1. MountTypeOK'
            BY <1>3 DEF IInv, Rerun, MountTypeOK, MountStates
        <2>2. StorageTypeOK' /\ HostTypeOK' /\ BootTypeOK' /\ CleanupTypeOK'
            BY <1>3 DEF IInv, Rerun, StorageTypeOK, HostTypeOK, BootTypeOK, CleanupTypeOK
        <2>3. ControlTypeOK' /\ KeptDataSurvives'
            BY <1>3, RunsAssumption, Frames DEF IInv, Rerun
        <2> QED
            BY <1>3, <2>1, <2>2, <2>3 DEF IInv, Rerun
    <1>4. ASSUME NEW s \in Spots, ForeignMount(s) PROVE IInv'
        BY <1>4, Frames DEF IInv, ForeignMount, MountTypeOK, MountStates, WithForeign
    <1>5. ASSUME NEW p \in Parts, ForeignSwapon(p) PROVE IInv'
        BY <1>5, Frames DEF IInv, ForeignSwapon, MountTypeOK
    <1>6. ASSUME NEW p \in Parts, KeepDrift(p) PROVE IInv'
        BY <1>6, Frames DEF IInv, KeepDrift, StorageTypeOK
    <1>7. ASSUME NEW d \in Disks, DiskDrift(d) PROVE IInv'
        BY <1>7, Frames DEF IInv, DiskDrift, StorageTypeOK
    <1>8. CASE NginxCrashes
        BY <1>8, Frames DEF IInv, NginxCrashes, HostTypeOK
    <1>9. CASE NginxExits
        BY <1>9, Frames DEF IInv, NginxExits, HostTypeOK
    <1> QED
        BY <1>1, <1>2, <1>3, <1>4, <1>5, <1>6, <1>7, <1>8, <1>9 DEF Environment

-----------------------------------------------------------------------------
(* The invariant holds on the fresh machine ... *)
LEMMA InitIInv == Init => IInv
    <1> SUFFICES ASSUME Init PROVE IInv
        OBVIOUS
    <1> USE DEF Init, ScriptStart, FreshMachine
    <1>1. ControlTypeOK
        BY RunsAssumption DEF ControlTypeOK, MainSteps, PreparationSteps
    <1>2. StorageTypeOK /\ BootTypeOK /\ CleanupTypeOK
        BY DEF StorageTypeOK, BootTypeOK, CleanupTypeOK
    <1>3. MountTypeOK
        <2>1. SWAPS_TO_DISABLE \in Seq(Parts)
            BY DEF Init, ScriptStart
        <2> QED
            BY <2>1 DEF MountTypeOK, MountStates
    <1>4. HostTypeOK
        BY DEF HostTypeOK, ConfValues, ListValues
    <1>5. IndexInRange /\ BackupsMade /\ FormatsOnlyPlanned /\ WritesLicensed
        BY DEF IndexInRange, BackupsMade, FormatsOnlyPlanned, WritesLicensed, PartLoops,
               DiskLoops, FileLoops, PolicySteps, WriteSteps
    <1> QED
        BY <1>1, <1>2, <1>3, <1>4, <1>5 DEF IInv, TypeOK, KeptDataSurvives

(* ... and every step preserves it. *)
LEMMA NextIInv == IInv /\ [Next]_vars => IInv'
    <1> SUFFICES ASSUME IInv, [Next]_vars PROVE IInv'
        OBVIOUS
    <1>1. CASE Next
        BY <1>1, PackageKeeps, StorageKeeps, StopKeeps, BootKeeps, CleanupKeeps, OutsideKeeps
        DEF Next, Main
    <1>2. CASE UNCHANGED vars
        BY <1>2, Frames
        DEF vars, IInv, TypeOK, ControlTypeOK, IndexInRange, BackupsMade, FormatsOnlyPlanned,
            WritesLicensed, Kept, controlVars, planVars, storageVars, mountVars, swapVars,
            hostVars, nginxVars, workVars, bootVars, cleanupVars
    <1> QED
        BY <1>1, <1>2

LEMMA Invariance == Spec => []IInv
    BY InitIInv, NextIInv, PTL DEF Spec

(* Every variable keeps its type. *)
THEOREM TypeCorrect == Spec => []TypeOK
    <1>1. IInv => TypeOK
        BY DEF IInv
    <1> QED
        BY <1>1, Invariance, PTL

(* Whatever fails, is interrupted or is started again, a partition marked   *)
(* KEEP keeps its contents.                                                 *)
THEOREM KeptDataAlwaysSurvives == Spec => []KeptDataSurvives
    <1>1. IInv => KeptDataSurvives
        BY DEF IInv
    <1> QED
        BY <1>1, Invariance, PTL

(* No table or partition changes without CONFIRM EXECUTE, the recheck after *)
(* it, and devices that matched the plan by then.                           *)
THEOREM WritesAlwaysAuthorized == Spec => WritesAreAuthorized
    <1> DEFINE Authorized == table' # table \/ content' # content
                                => consent /\ rechecked /\ diskDrift = {}
    <1>1. IInv /\ [Next]_vars => [Authorized]_vars
        <2> SUFFICES ASSUME IInv, Next PROVE Authorized
            OBVIOUS
        <2> USE DEF IInv, WritesLicensed, WriteSteps, storageVars, Goto, Within, Advance, Die,
                TouchesNothing, TouchesMounts, TouchesSwaps, TouchesStorage,
                TouchesHost, TouchesServer, TouchesWork, TouchesBoot, TouchesCleanup,
                ReleasesMounts, ReleasesFiles, ReleasesSwaps, ReleasesServer,
                ReleasesHost, ReleasesWork
        <2>1. CASE PackageActions
            BY <2>1 DEF PackageActions, ConfirmPackage, ClaimMirror, MountMirror, BackupConf,
                BackupList, SetChanged, RankMirrors, StripSigLevel, FileList, Bootstrap,
                StartNginx, RecordNginx, AwaitNginx, RestorePolicy, HttpList, ResolvePackages
        <2>2. CASE StorageActions
            BY <2>2 DEF StorageActions, ConfirmSource, MakeWorkDir, Preflight, SkipProbe,
                ClaimProbe, MountProbe, UmountProbe, ReleaseProbe, RemoveProbe,
                ConfirmDestructive, Recheck, KeepTable, Wipe, WriteTable, AwaitPartitions,
                CheckKept, BeginFormat, EndFormat, ClaimRoot, Mount, SkipSwap, RegisterSwap,
                SwapOn
        <2>3. CASE StopActions \/ BootActions
            BY <2>3 DEF StopActions, StopKill, StopWait, StopClear, BootActions, SnapshotDir,
                SnapshotClaim, SnapshotMount, SnapshotFill, Pacstrap, WritePayload, Chroot,
                Sign, StageFile, RecordStage, CopyStage, CommitStage, ClearRecord,
                DiscardCheck, DiscardUmount, DiscardClear, DiscardRmdir, Firmware,
                RemovePayload, Succeed, Finish
        <2>4. CASE CleanupActions
            BY <2>4 DEF CleanupActions, InspectProbe, CleanProbe, InspectTarget, InspectMirror,
                InspectSnapshot, Inspect, UmountSpot, CleanStaged, CleanPayload, CleanTarget,
                QuerySwaps, SwapOff, SwapsDone, CleanKill, CleanWait, CleanMirror, RestoreConf,
                RestoreList, CleanSnapshot, RemoveSnapshot, RemoveWorkDir, Exit
        <2>5. CASE Abort \/ Kill \/ Environment \/ \E released \in BOOLEAN : Rerun(released)
            BY <2>5 DEF Abort, Kill, Environment, ForeignMount, ForeignSwapon, KeepDrift,
                DiskDrift, NginxCrashes, NginxExits, Rerun
        <2> QED
            BY <2>1, <2>2, <2>3, <2>4, <2>5 DEF Next, Main
    <1>2. Spec => [][Authorized]_vars
        BY <1>1, Invariance, PTL DEF Spec
    <1> QED
        BY <1>2 DEF WritesAreAuthorized

-----------------------------------------------------------------------------
(***************************************************************************)
(* What cleanup promises, for every plan, number of disks and partitions,   *)
(* number of runs and kind of interference.  These invariants are proved on *)
(* top of IInv, one subject at a time: mounts, swap areas, host files, boot *)
(* files, kept filesystems, finished work, released work.  Each names the   *)
(* steps of main and cleanup at which its parts hold.                       *)
(***************************************************************************)
(* Everything outside main and cleanup. *)
Outside == Abort \/ Kill \/ Environment \/ \E released \in BOOLEAN : Rerun(released)

Own(s) == mount[s] \in {"own", "both"}

-----------------------------------------------------------------------------
(* MOUNTS                                                                   *)

(* From the inspection of a spot by cleanup to its umount ... *)
InspectedAt(s) ==
    IF s = "probe" THEN {"c_probe_umount"}
    ELSE IF s = "target" THEN {"c_mirror", "c_snapshot", "c_staged", "c_payload", "c_umount_target"}
    ELSE IF s = "mirror" THEN {"c_snapshot", "c_staged", "c_payload", "c_umount_target", "c_swaps",
                               "c_swapoff", "c_kill", "c_wait", "c_umount_mirror"}
    ELSE {"c_staged", "c_payload", "c_umount_target", "c_swaps", "c_swapoff", "c_kill", "c_wait",
          "c_umount_mirror", "c_restore_conf", "c_restore_list", "c_umount_snapshot"}

(* ... and after it. *)
UnmountedAt(s) ==
    ((CleanupSteps \ BeforeInspection(s)) \ InspectedAt(s)) \cup {"ended"}

(* Ownership is published before the mount, and given up after the umount. *)
Recorded ==
    /\ \A s \in Spots \ raced : Own(s) => claim[s]
    /\ \A s \in {"probe", "snapshot"} \ raced : ~claim[s] => mount[s] = "none"
    /\ pc = "mount_mirror" => claim["mirror"]
    /\ pc \in {"probe_mount", "probe_umount", "probe_release"} => claim["probe"]
    /\ pc \in {"snapshot_mount", "snapshot_fill"} => claim["snapshot"]
    /\ pc = "mount" => claim["target"]

(* main unmounts what it has just found to be its own. *)
CheckedInMain ==
    /\ "probe" \notin raced => /\ pc = "probe_umount" => mount["probe"] = "own"
                               /\ pc = "probe_release" => mount["probe"] = "none"
    /\ "snapshot" \notin raced => /\ pc = "discard_umount" => mount["snapshot"] = "own"
                                  /\ pc = "discard_clear" => mount["snapshot"] = "none"

(* cleanup takes a spot for active only once it has asked, ...              *)
ActiveAfterInspection ==
    \A s \in Spots : active[s] => pc \in Stopped \cup (CleanupSteps \ BeforeInspection(s))

(* ... and what it takes for active was its own with nothing on top of it;  *)
(* what it does not take for active is not mounted, ...                     *)
ActiveIsOwn ==
    \A s \in Spots \ raced : pc \in InspectedAt(s) =>
        /\ active[s] => mount[s] = "own"
        /\ ~cleanup_failed /\ Own(s) => active[s]
        /\ s \in {"probe", "snapshot"} /\ ~cleanup_failed /\ mount[s] # "none" => active[s]

(* ... and nothing is after the umount, unless a failure was reported.      *)
LeftUnmounted ==
    \A s \in Spots \ raced : pc \in UnmountedAt(s) /\ ~cleanup_failed =>
        /\ ~Own(s)
        /\ s \in {"probe", "snapshot"} => mount[s] = "none"

(* The directory of the snapshot is only safe to remove when nothing is     *)
(* mounted there.                                                           *)
SafeToRemove ==
    "snapshot" \notin raced /\ remove_safe /\ ~active["snapshot"]
        /\ pc \in InspectedAt("snapshot") \cup {"c_rm_snapshot"} => mount["snapshot"] = "none"

MountInv == /\ Recorded /\ CheckedInMain /\ SafeToRemove
            /\ ActiveAfterInspection /\ ActiveIsOwn /\ LeftUnmounted

-----------------------------------------------------------------------------
(* SWAP AREAS                                                               *)

AfterSwaps == {"c_kill", "c_wait", "c_umount_mirror", "c_restore_conf", "c_restore_list",
               "c_umount_snapshot", "c_rm_snapshot", "c_rm_workdir", "c_exit", "ended"}

Registered(p, last) == \E k \in 1 .. last : SWAPS_TO_DISABLE[k] = p

SwapInv ==
    /\ \A p \in Parts : swap[p] = "own" => Registered(p, Len(SWAPS_TO_DISABLE))
    /\ pc = "swapon" => Registered(idx, Len(SWAPS_TO_DISABLE))
    /\ pc = "c_swapoff" /\ ~cleanup_failed =>
          \A p \in Parts : swap[p] = "own" => p \in active_swaps /\ Registered(p, idx)
    /\ pc \in AfterSwaps /\ ~cleanup_failed =>
          \A p \in Parts : swap[p] # "own"

-----------------------------------------------------------------------------
(* HOST FILES, in the first run                                             *)

Untouched == {"confirm_source", "mktemp", "preflight", "confirm_package", "claim_mirror",
              "mount_mirror", "backup_conf", "backup_list", "set_changed"}
Relaxed == {"file_list", "bootstrap", "start_nginx", "record_nginx", "await_nginx",
            "restore_conf"}
ConfRestoredAt == {"c_restore_list", "c_umount_snapshot", "c_rm_snapshot", "c_rm_workdir",
                   "c_exit", "ended"}

(* HOST_PACMAN_CHANGED frames every change of the two files. *)
ChangesFlagged ==
    /\ pc \in Untouched => ~HOST_PACMAN_CHANGED
    /\ pc \in Relaxed \cup {"rank", "siglevel", "http_list"} => HOST_PACMAN_CHANGED
    /\ ~HOST_PACMAN_CHANGED => conf = "original" /\ list = "original"

(* The backups behind the flag are whole, and stay while they are needed. *)
BackupsWhole ==
    /\ pc \in {"backup_list", "set_changed"} => backupConf = "original"
    /\ pc = "set_changed" => backupList = "original"
    /\ HOST_PACMAN_CHANGED => backupConf = "original" /\ backupList = "original"
    /\ pc \in MainSteps \ {"confirm_source", "mktemp"} => workdir
    /\ HOST_PACMAN_CHANGED /\ pc \notin Stopped \cup {"c_exit"} => workdir
    /\ conf # "original" \/ list # "original" => workdir

PolicyOriginal == pc \in MainSteps \ Relaxed => conf = "original"

HostRestored ==
    ~cleanup_failed =>
        /\ pc \in ConfRestoredAt => conf = "original"
        /\ pc \in ConfRestoredAt \ {"c_restore_list"} => list = "original"

HostInv == run = 1 => ChangesFlagged /\ BackupsWhole /\ PolicyOriginal /\ HostRestored

-----------------------------------------------------------------------------
(* BOOT FILES                                                               *)

AfterFiles == {"discard_check", "discard_umount", "discard_clear", "discard_rmdir", "firmware",
               "rm_payload", "succeed", "done"}

(* The loop has placed its files in order, the last of them at the end. *)
PlacedInOrder ==
    /\ pc \in FileLoops => \A k \in 1 .. 11 : k < idx => BootFiles[k] \in placed
    /\ pc = "stage_clear" => BootFiles[idx] \in placed
    /\ plan.secure /\ pc \in AfterFiles => \A k \in 1 .. 11 : BootFiles[k] \in placed

ShimsBesideLoaders ==
    /\ "kernel" \in placed => "kernel.bak" \in placed
    /\ "ARCH/SHIMX64" \in placed => {"kernel", "ARCH/GRUBX64", "ARCH/MMX64"} \subseteq placed
    /\ "BOOT/BOOTX64" \in placed => {"kernel", "BOOT/GRUBX64", "BOOT/FBX64"} \subseteq placed

StageInv ==
    /\ pc \in {"stage_copy", "stage_commit", "stage_clear"} => staged
    /\ pc = "stage_clear" => stage = "none"
    /\ run = 1 /\ stage \in {"partial", "full"} => staged

EntryInv ==
    /\ run = 1 /\ pc \in MainSteps \ {"rm_payload", "succeed", "done"} => ~entry
    /\ run = 1 /\ entry /\ plan.secure => "ARCH/SHIMX64" \in placed

BootInv == PlacedInOrder /\ ShimsBesideLoaders /\ StageInv /\ EntryInv

-----------------------------------------------------------------------------
(* KEPT FILESYSTEMS                                                         *)

Verified(p) == p \in keepSeen /\ p \notin keepDrift

AfterFormat == WriteSteps \ {"wipe", "write_table", "await", "format", "mkfs"}

KeepInv ==
    /\ pc \in {"format", "mkfs"} => \A p \in Parts : Kept(p) /\ p < idx => Verified(p)
    /\ pc \in AfterFormat => \A p \in Parts : Kept(p) => Verified(p)
    /\ \A p \in Parts : Kept(p) /\ (p \in sub \/ swap[p] = "own") => Verified(p)

-----------------------------------------------------------------------------
(* FINISHED WORK                                                            *)

TablesMade(last)  == \A d \in Disks : d < last /\ Automatic(d) => table[d] = "created"
PartsMade(last)   == \A p \in Parts : p < last /\ ~Kept(p) => content[p] = "formatted"

AfterServer == {"stop_clear", "sign"} \cup FileLoops \cup AfterFiles

Installed ==
    /\ TablesMade(NumDisks + 1) /\ PartsMade(NumParts + 1)
    /\ plan.secure => \A k \in 1 .. 11 : BootFiles[k] \in placed
    /\ plan.efi => entry
    /\ plan.local => nginx = "reaped"

DoneInv ==
    /\ pc \in DiskLoops => TablesMade(idx)
    /\ pc \in WriteSteps \ DiskLoops => TablesMade(NumDisks + 1)
    /\ pc \in {"format", "mkfs"} => PartsMade(idx)
    /\ pc \in AfterFormat => PartsMade(NumParts + 1)
    /\ plan.efi /\ pc \in {"rm_payload", "succeed", "done"} => entry
    /\ plan.local /\ pc \in AfterServer => nginx = "reaped"
    /\ INSTALL_SUCCEEDED => Installed /\ pc \in {"done"} \cup CleanupSteps \cup Stopped
    /\ pc = "done" => INSTALL_SUCCEEDED
    /\ status = 0 /\ pc \in CleanupSteps \cup {"ended"} => INSTALL_SUCCEEDED
    /\ status = 0 /\ pc = "ended" => ~cleanup_failed

-----------------------------------------------------------------------------
(* RELEASED WORK                                                            *)

MountedSteps == AfterFormat \ {"claim_root", "mount"}
FilesLeft == stage \in {"partial", "full"} \/ payload

(* The target stays mounted from its mount to its umount by cleanup, ...    *)
TargetMounted ==
    /\ pc \in MountedSteps \/ (pc = "mount" /\ idx > 1) => Own("target")
    /\ pc \in MainSteps \cup BeforeInspection("target") \cup InspectedAt("target") =>
          /\ run = 1 /\ FilesLeft => Own("target")
          /\ sub # {} => Own("target")

(* ... and cleanup has emptied it by then, unless it reports a failure.     *)
TargetReleased ==
    ~cleanup_failed /\ "target" \notin raced =>
        /\ run = 1 /\ pc \in UnmountedAt("target") \cup {"c_payload", "c_umount_target"} =>
              stage \notin {"partial", "full"}
        /\ run = 1 /\ pc \in UnmountedAt("target") \cup {"c_umount_target"} => ~payload
        /\ pc \in UnmountedAt("target") => sub = {}

WorkDirRemoved == ~cleanup_failed /\ pc \in {"c_exit", "ended"} => ~workdir

ReleaseInv == TargetMounted /\ TargetReleased /\ WorkDirRemoved
-----------------------------------------------------------------------------
(* A free spot and a fresh script satisfy the mount invariant ... *)
LEMMA MountInit == Init => MountInv
    BY DEF Init, ScriptStart, FreshMachine, MountInv, Recorded, CheckedInMain, SafeToRemove,
        ActiveAfterInspection, ActiveIsOwn, LeftUnmounted, Own, InspectedAt, UnmountedAt,
        BeforeInspection, CleanupSteps, Stopped, Spots

(* ... and main keeps it: ownership is published before each mount ... *)
LEMMA MountMain == IInv /\ MountInv /\ Main => MountInv'
    <1> SUFFICES ASSUME IInv, MountInv, Main PROVE MountInv'
        OBVIOUS
    <1> USE DEF IInv, TypeOK, MountTypeOK, MountInv, Recorded, CheckedInMain, SafeToRemove,
            ActiveAfterInspection, ActiveIsOwn, LeftUnmounted, Own, WithOwn, WithoutTop,
            InspectedAt, UnmountedAt, BeforeInspection, MountStates, CleanupSteps, Stopped,
            Spots, Goto, Within, Advance, Die, planVars, mountVars, cleanupVars,
            TouchesNothing, TouchesStorage, TouchesMounts, TouchesSwaps, TouchesHost,
            TouchesServer, TouchesWork, TouchesBoot, TouchesCleanup, ReleasesMounts,
            ReleasesFiles, ReleasesSwaps, ReleasesServer, ReleasesHost, ReleasesWork
    <1>1. CASE PackageActions
        BY <1>1, SMTT(30) DEF PackageActions, ConfirmPackage, ClaimMirror, MountMirror, BackupConf,
            BackupList, SetChanged, RankMirrors, StripSigLevel, FileList, Bootstrap, Copied,
            StartNginx, RecordNginx, AwaitNginx, RestorePolicy, HttpList, ResolvePackages
    <1>2. CASE StorageActions
        BY <1>2, SMTT(30) DEF StorageActions, ConfirmSource, MakeWorkDir, Preflight, SkipProbe,
            ClaimProbe, MountProbe, UmountProbe, ReleaseProbe, RemoveProbe,
            ConfirmDestructive, Recheck, KeepTable, Wipe, WriteTable, AwaitPartitions,
            CheckKept, BeginFormat, EndFormat, ClaimRoot, Mount, SkipSwap, RegisterSwap,
            SwapOn
    <1>3. CASE StopActions
        BY <1>3 DEF StopActions, StopKill, StopWait, StopClear, AfterStop
    <1>4. CASE BootActions
        BY <1>4 DEF BootActions, SnapshotDir, SnapshotClaim, SnapshotMount, SnapshotFill,
            Pacstrap, WritePayload, Chroot, Sign, StageFile, RecordStage, CopyStage,
            CommitStage, ClearRecord, DiscardCheck, DiscardUmount, DiscardClear,
            DiscardRmdir, Firmware, RemovePayload, Succeed, Finish
    <1> QED
        BY <1>1, <1>2, <1>3, <1>4 DEF Main

(* What one query of cleanup tells about its spot. *)
Told(s, from, to) ==
    /\ pc = from /\ pc' = to /\ UNCHANGED <<mount, claim, raced>>
    /\ \A t \in Spots : t # s => active'[t] = active[t]
    /\ active'[s] => active[s] \/ mount[s] = "own"
    /\ ~cleanup_failed' => /\ ~cleanup_failed
                           /\ ~claim[s] \/ mount[s] = "none" \/ active'[s]
    /\ remove_safe' => /\ remove_safe
                       /\ s = "snapshot" => ~claim[s] \/ mount[s] = "none" \/ active'[s]

LEMMA InspectTells ==
    ASSUME NEW s \in Spots, NEW from, NEW to, TypeOK, Inspect(s, from, to)
    PROVE  Told(s, from, to)
    BY DEF Told, TypeOK, CleanupTypeOK, Inspect, Report, Goto, TouchesCleanup, mountVars

(* ... cleanup looks before it unmounts ... *)
LEMMA MountCleanup == IInv /\ MountInv /\ CleanupActions => MountInv'
    <1> SUFFICES ASSUME IInv, MountInv, CleanupActions PROVE MountInv'
        OBVIOUS
    <1> USE DEF IInv, TypeOK, MountTypeOK, MountInv, Recorded, CheckedInMain, SafeToRemove,
            ActiveAfterInspection, ActiveIsOwn, LeftUnmounted, Own, WithOwn, WithoutTop,
            InspectedAt, UnmountedAt, BeforeInspection, MountStates, CleanupSteps, Stopped,
            Spots, Goto, Within, Advance, Die, planVars, mountVars, cleanupVars,
            TouchesNothing, TouchesStorage, TouchesMounts, TouchesSwaps, TouchesHost,
            TouchesServer, TouchesWork, TouchesBoot, TouchesCleanup, ReleasesMounts,
            ReleasesFiles, ReleasesSwaps, ReleasesServer, ReleasesHost, ReleasesWork
    <1>1. CASE InspectProbe \/ InspectTarget \/ InspectMirror \/ InspectSnapshot
        <2>1. CASE InspectProbe
            <3>1. Told("probe", "c_probe", "c_probe_umount")
                BY <2>1, InspectTells DEF InspectProbe
            <3>2. Recorded' /\ CheckedInMain' /\ SafeToRemove'
                BY <3>1 DEF Told
            <3>3. ActiveAfterInspection'
                BY <3>1 DEF Told
            <3>4. ActiveIsOwn'
                BY <3>1 DEF Told
            <3>5. LeftUnmounted'
                BY <3>1 DEF Told
            <3> QED
                BY <3>2, <3>3, <3>4, <3>5
        <2>2. CASE InspectTarget
            <3>1. Told("target", "c_target", "c_mirror")
                BY <2>2, InspectTells DEF InspectTarget
            <3>2. Recorded' /\ CheckedInMain' /\ SafeToRemove'
                BY <3>1 DEF Told
            <3>3. ActiveAfterInspection'
                BY <3>1 DEF Told
            <3>4. ActiveIsOwn'
                BY <3>1 DEF Told
            <3>5. LeftUnmounted'
                BY <3>1 DEF Told
            <3> QED
                BY <3>2, <3>3, <3>4, <3>5
        <2>3. CASE InspectMirror
            <3>1. Told("mirror", "c_mirror", "c_snapshot")
                BY <2>3, InspectTells DEF InspectMirror
            <3>2. Recorded' /\ CheckedInMain' /\ SafeToRemove'
                BY <3>1 DEF Told
            <3>3. ActiveAfterInspection'
                BY <3>1 DEF Told
            <3>4. ActiveIsOwn'
                BY <3>1 DEF Told
            <3>5. LeftUnmounted'
                BY <3>1 DEF Told
            <3> QED
                BY <3>2, <3>3, <3>4, <3>5
        <2>4. CASE InspectSnapshot
            <3>1. Told("snapshot", "c_snapshot", "c_staged")
                BY <2>4, InspectTells DEF InspectSnapshot
            <3>2. Recorded' /\ CheckedInMain' /\ SafeToRemove'
                BY <3>1 DEF Told
            <3>3. ActiveAfterInspection'
                BY <3>1 DEF Told
            <3>4. ActiveIsOwn'
                BY <3>1 DEF Told
            <3>5. LeftUnmounted'
                BY <3>1 DEF Told
            <3> QED
                BY <3>2, <3>3, <3>4, <3>5
        <2> QED
            BY <1>1, <2>1, <2>2, <2>3, <2>4
    <1>2. CASE CleanProbe \/ CleanMirror
        BY <1>2 DEF CleanProbe, CleanMirror, UmountSpot, When, Attempt, Report
    <1>3. CASE CleanTarget
        BY <1>3 DEF CleanTarget, When, Attempt, Report
    <1>4. CASE CleanSnapshot
        BY <1>4 DEF CleanSnapshot, When, Attempt, Report
    <1>5. CASE CleanStaged \/ CleanPayload \/ QuerySwaps \/ SwapOff \/ SwapsDone
        BY <1>5 DEF CleanStaged, CleanPayload, QuerySwaps, SwapOff, SwapsDone, When, Attempt,
            Report
    <1>6. CASE CleanKill \/ CleanWait \/ RestoreConf \/ RestoreList
        BY <1>6 DEF CleanKill, CleanWait, RestoreConf, RestoreList, When, Attempt, Report
    <1>7. CASE RemoveSnapshot \/ RemoveWorkDir \/ Exit
        BY <1>7 DEF RemoveSnapshot, RemoveWorkDir, Exit, When, Attempt, Report
    <1> QED
        BY <1>1, <1>2, <1>3, <1>4, <1>5, <1>6, <1>7 DEF CleanupActions

(* ... and what others mount after the look is told apart. *)
LEMMA MountOutside == IInv /\ MountInv /\ Outside => MountInv'
    <1> SUFFICES ASSUME IInv, MountInv, Outside PROVE MountInv'
        OBVIOUS
    <1> USE DEF IInv, TypeOK, MountTypeOK, MountInv, Recorded, CheckedInMain, SafeToRemove,
            ActiveAfterInspection, ActiveIsOwn, LeftUnmounted, Own, WithOwn, WithoutTop,
            InspectedAt, UnmountedAt, BeforeInspection, MountStates, CleanupSteps, Stopped,
            Spots, Goto, Within, Advance, Die, planVars, mountVars, cleanupVars,
            TouchesNothing, TouchesStorage, TouchesMounts, TouchesSwaps, TouchesHost,
            TouchesServer, TouchesWork, TouchesBoot, TouchesCleanup, ReleasesMounts,
            ReleasesFiles, ReleasesSwaps, ReleasesServer, ReleasesHost, ReleasesWork,
            MainSteps, PreparationSteps, WriteSteps, Running
    <1>1. CASE Abort \/ Kill
        BY <1>1 DEF Abort, Kill
    <1>2. ASSUME NEW released \in BOOLEAN, Rerun(released) PROVE MountInv'
        BY <1>2 DEF Rerun
    <1>3. ASSUME NEW s \in Spots, ForeignMount(s) PROVE MountInv'
        <2> USE <1>3 DEF ForeignMount, WithForeign, controlVars
        <2>1. Recorded' /\ CheckedInMain' /\ SafeToRemove'
            BY DEF SourceChecked
        <2>2. \A t \in Spots \ raced' :
                  pc \in InspectedAt(t) \cup UnmountedAt(t) => mount'[t] = mount[t]
            BY DEF SourceChecked
        <2>3. ActiveAfterInspection' /\ ActiveIsOwn' /\ LeftUnmounted'
            BY <2>2
        <2> QED
            BY <2>1, <2>3
    <1>4. CASE (\E p \in Parts : ForeignSwapon(p) \/ KeepDrift(p)) \/ \E d \in Disks : DiskDrift(d)
        BY <1>4 DEF ForeignSwapon, KeepDrift, DiskDrift, controlVars
    <1>5. CASE NginxCrashes \/ NginxExits
        BY <1>5 DEF NginxCrashes, NginxExits, controlVars
    <1> QED
        BY <1>1, <1>2, <1>3, <1>4, <1>5 DEF Environment, Outside

-----------------------------------------------------------------------------
(* Swap areas: registered before swapon, and walked backwards by cleanup.   *)
LEMMA SwapInit == Init => SwapInv
    BY DEF Init, ScriptStart, FreshMachine, SwapInv, AfterSwaps

(* A step that leaves the swap areas and their record alone.                *)
LEMMA SwapFrame ==
    ASSUME SwapInv, UNCHANGED swapVars, pc' \notin {"swapon", "c_swapoff"},
           pc' \in AfterSwaps => pc \in AfterSwaps /\ (~cleanup_failed' => ~cleanup_failed)
    PROVE  SwapInv'
    BY DEF SwapInv, Registered, swapVars

LEMMA SwapMain == IInv /\ SwapInv /\ Main => SwapInv'
    <1> SUFFICES ASSUME IInv, SwapInv, Main PROVE SwapInv'
        OBVIOUS
    <1> USE DEF AfterSwaps, Goto, Within, Advance, Die, planVars, mountVars, swapVars,
            hostVars, nginxVars, workVars, bootVars, storageVars, cleanupVars,
            TouchesNothing, TouchesStorage, TouchesMounts, TouchesSwaps, TouchesHost,
            TouchesServer, TouchesWork, TouchesBoot, TouchesCleanup, ReleasesMounts,
            ReleasesFiles, ReleasesSwaps, ReleasesServer, ReleasesHost, ReleasesWork
    <1>1. CASE PackageActions
        <2>1. UNCHANGED swapVars /\ pc' \notin {"swapon", "c_swapoff"} \cup AfterSwaps
            BY <1>1 DEF PackageActions, ConfirmPackage, ClaimMirror, MountMirror,
                BackupConf, BackupList, SetChanged, RankMirrors, StripSigLevel, FileList,
                Bootstrap, StartNginx, RecordNginx, AwaitNginx, RestorePolicy, HttpList,
                ResolvePackages, Copied
        <2> QED
            BY <2>1, SwapFrame
    <1>2. CASE RegisterSwap
        <2>1. /\ SWAPS_TO_DISABLE' = Append(SWAPS_TO_DISABLE, idx) /\ idx' = idx /\ idx \in Parts
              /\ pc' = "swapon" /\ swap' = swap /\ SWAPS_TO_DISABLE \in Seq(Parts)
            BY <1>2 DEF RegisterSwap, IInv, IndexInRange, PartLoops, TypeOK, MountTypeOK
        <2>2. /\ Len(SWAPS_TO_DISABLE') = Len(SWAPS_TO_DISABLE) + 1
              /\ Len(SWAPS_TO_DISABLE) \in Nat
              /\ SWAPS_TO_DISABLE'[Len(SWAPS_TO_DISABLE')] = idx
              /\ \A k \in 1 .. Len(SWAPS_TO_DISABLE) : SWAPS_TO_DISABLE'[k] = SWAPS_TO_DISABLE[k]
            BY <2>1
        <2> QED
            BY <2>1, <2>2 DEF SwapInv, Registered
    <1>3. CASE SwapOn
        <2>1. CASE swap[idx] = "off"
            BY <1>3, <2>1 DEF SwapOn, SwapInv, Registered, IInv, TypeOK, MountTypeOK
        <2>2. CASE swap[idx] # "off"
            BY <1>3, <2>2 DEF SwapOn, SwapInv, Registered
        <2> QED
            BY <2>1, <2>2
    <1>4. CASE StorageActions /\ ~RegisterSwap /\ ~SwapOn
        <2>1. UNCHANGED swapVars /\ pc' \notin {"swapon", "c_swapoff"} \cup AfterSwaps
            BY <1>4 DEF StorageActions, ConfirmSource, MakeWorkDir, Preflight, SkipProbe,
                ClaimProbe, MountProbe, UmountProbe, ReleaseProbe, RemoveProbe,
                ConfirmDestructive, Recheck, KeepTable, Wipe, WriteTable, AwaitPartitions,
                CheckKept, BeginFormat, EndFormat, ClaimRoot, Mount, SkipSwap
        <2> QED
            BY <2>1, SwapFrame
    <1>5. CASE StopActions
        <2>1. UNCHANGED swapVars /\ pc' \notin {"swapon", "c_swapoff"} \cup AfterSwaps
            BY <1>5 DEF StopActions, StopKill, StopWait, StopClear, AfterStop
        <2> QED
            BY <2>1, SwapFrame
    <1>6. CASE BootActions
        <2>1. UNCHANGED swapVars /\ pc' \notin {"swapon", "c_swapoff"} \cup AfterSwaps
            BY <1>6 DEF BootActions, SnapshotDir, SnapshotClaim, SnapshotMount,
                SnapshotFill, Pacstrap, WritePayload, Chroot, Sign, StageFile, RecordStage,
                CopyStage, CommitStage, ClearRecord, DiscardCheck, DiscardUmount,
                DiscardClear, DiscardRmdir, Firmware, RemovePayload, Succeed, Finish
        <2> QED
            BY <2>1, SwapFrame
    <1> QED
        BY <1>1, <1>2, <1>3, <1>4, <1>5, <1>6 DEF Main

LEMMA SwapCleanup == IInv /\ SwapInv /\ CleanupActions => SwapInv'
    <1> SUFFICES ASSUME IInv, SwapInv, CleanupActions PROVE SwapInv'
        OBVIOUS
    <1> USE DEF AfterSwaps, Goto, Within, Advance, Die, planVars, mountVars, swapVars,
            hostVars, nginxVars, workVars, bootVars, storageVars, cleanupVars,
            TouchesNothing, TouchesStorage, TouchesMounts, TouchesSwaps, TouchesHost,
            TouchesServer, TouchesWork, TouchesBoot, TouchesCleanup, ReleasesMounts,
            ReleasesFiles, ReleasesSwaps, ReleasesServer, ReleasesHost, ReleasesWork
    <1>1. CASE QuerySwaps
        BY <1>1 DEF QuerySwaps, When, Attempt, Report, SwapInv, Registered, IInv, TypeOK,
            MountTypeOK
    <1>2. CASE SwapOff
        <2> DEFINE q == SWAPS_TO_DISABLE[idx]
        <2>1. /\ idx \in Nat /\ idx > 0 /\ idx' = idx - 1 /\ pc = "c_swapoff" /\ pc' = pc
              /\ SWAPS_TO_DISABLE \in Seq(Parts) /\ idx <= Len(SWAPS_TO_DISABLE)
              /\ UNCHANGED <<SWAPS_TO_DISABLE, active_swaps>>
              /\ swap \in [Parts -> {"off", "own", "foreign"}]
            BY <1>2 DEF SwapOff, IInv, TypeOK, MountTypeOK, ControlTypeOK, IndexInRange
        <2>2. q \in Parts
            BY <2>1
        <2>3. \A p \in Parts : p # q /\ Registered(p, idx) => Registered(p, idx')
            BY <2>1 DEF Registered
        <2>4. \A p \in Parts : swap'[p] = "own" => swap[p] = "own"
            BY <1>2, <2>1, <2>2 DEF SwapOff, When, Attempt
        <2>5. ~cleanup_failed' => ~cleanup_failed /\ (q \in active_swaps => swap'[q] = "off")
            BY <1>2, <2>1, <2>2 DEF SwapOff, When, Attempt, Report
        <2> HIDE DEF q
        <2> QED
            BY <2>1, <2>2, <2>3, <2>4, <2>5 DEF SwapInv, Registered
    <1>3. CASE SwapsDone
        BY <1>3 DEF SwapsDone, SwapInv, Registered
    <1>4. CASE CleanupActions /\ ~QuerySwaps /\ ~SwapOff /\ ~SwapsDone
        <2>1. /\ UNCHANGED swapVars /\ pc' \notin {"swapon", "c_swapoff"}
              /\ pc' \in AfterSwaps => pc \in AfterSwaps /\ (~cleanup_failed' => ~cleanup_failed)
            BY <1>4 DEF CleanupActions, InspectProbe, CleanProbe, InspectTarget,
                InspectMirror, InspectSnapshot, CleanStaged, CleanPayload, CleanTarget,
                CleanKill, CleanWait, CleanMirror, RestoreConf, RestoreList, CleanSnapshot,
                RemoveSnapshot, RemoveWorkDir, Exit, Inspect, UmountSpot, When, Attempt,
                Report
        <2> QED
            BY <2>1, SwapFrame
    <1> QED
        BY <1>1, <1>2, <1>3, <1>4

LEMMA SwapOutside == IInv /\ SwapInv /\ Outside => SwapInv'
    <1> SUFFICES ASSUME IInv, SwapInv, Outside PROVE SwapInv'
        OBVIOUS
    <1> USE DEF AfterSwaps, Goto, Within, Advance, Die, planVars, mountVars, swapVars,
            hostVars, nginxVars, workVars, bootVars, storageVars, cleanupVars,
            TouchesNothing, TouchesStorage, TouchesMounts, TouchesSwaps, TouchesHost,
            TouchesServer, TouchesWork, TouchesBoot, TouchesCleanup, ReleasesMounts,
            ReleasesFiles, ReleasesSwaps, ReleasesServer, ReleasesHost, ReleasesWork,
            controlVars
    <1>1. CASE Abort \/ Kill
        <2>1. UNCHANGED swapVars /\ pc' \notin {"swapon", "c_swapoff"} \cup AfterSwaps
            BY <1>1 DEF Abort, Kill
        <2> QED
            BY <2>1, SwapFrame
    <1>2. ASSUME NEW released \in BOOLEAN, Rerun(released) PROVE SwapInv'
        BY <1>2 DEF Rerun, SwapInv
    <1>3. CASE Environment
        <2>1. UNCHANGED <<pc, idx, cleanup_failed, active_swaps, SWAPS_TO_DISABLE>>
            BY <1>3 DEF Environment, ForeignMount, ForeignSwapon, KeepDrift, DiskDrift,
                NginxCrashes, NginxExits
        <2>2. \A p \in Parts : swap'[p] = "own" => swap[p] = "own"
            BY <1>3 DEF Environment, ForeignMount, ForeignSwapon, KeepDrift, DiskDrift,
                NginxCrashes, NginxExits, IInv, TypeOK, MountTypeOK
        <2> QED
            BY <2>1, <2>2 DEF SwapInv, Registered
    <1> QED
        BY <1>1, <1>2, <1>3 DEF Outside

-----------------------------------------------------------------------------
(* Host files: flagged after both backups, restored from whole backups.     *)
LEMMA HostInit == Init => HostInv
    BY DEF Init, ScriptStart, FreshMachine, HostInv, ChangesFlagged, BackupsWhole,
           PolicyOriginal, HostRestored, Untouched, Relaxed, ConfRestoredAt, MainSteps,
           PreparationSteps, WriteSteps, Stopped

LEMMA HostMain == HostInv /\ Main => HostInv'
    <1> SUFFICES ASSUME HostInv, Main PROVE HostInv'
        OBVIOUS
    <1> USE DEF HostInv, ChangesFlagged, BackupsWhole, PolicyOriginal, HostRestored,
            Untouched, Relaxed, ConfRestoredAt, MainSteps, PreparationSteps, WriteSteps,
            CleanupSteps, Stopped, Goto, Within, Advance, Die, planVars, mountVars,
            swapVars, hostVars, nginxVars, workVars, bootVars, storageVars, cleanupVars,
            TouchesNothing, TouchesStorage, TouchesMounts, TouchesSwaps, TouchesHost,
            TouchesServer, TouchesWork, TouchesBoot, TouchesCleanup, ReleasesMounts,
            ReleasesFiles, ReleasesSwaps, ReleasesServer, ReleasesHost, ReleasesWork
    <1>1. CASE BackupConf \/ BackupList \/ SetChanged
        BY <1>1 DEF BackupConf, BackupList, SetChanged, Copied
    <1>2. CASE RankMirrors \/ StripSigLevel \/ FileList \/ RestorePolicy \/ HttpList
        BY <1>2 DEF RankMirrors, StripSigLevel, FileList, RestorePolicy, HttpList, Copied
    <1>3. CASE PackageActions /\ ~(BackupConf \/ BackupList \/ SetChanged)
             /\ ~(RankMirrors \/ StripSigLevel \/ FileList \/ RestorePolicy \/ HttpList)
        BY <1>3 DEF PackageActions, ConfirmPackage, ClaimMirror, MountMirror, Bootstrap,
            StartNginx, RecordNginx, AwaitNginx, ResolvePackages
    <1>4. CASE MakeWorkDir
        BY <1>4 DEF MakeWorkDir
    <1>5. CASE StorageActions /\ ~MakeWorkDir
        BY <1>5 DEF StorageActions, ConfirmSource, Preflight, SkipProbe, ClaimProbe,
            MountProbe, UmountProbe, ReleaseProbe, RemoveProbe, ConfirmDestructive, Recheck,
            KeepTable, Wipe, WriteTable, AwaitPartitions, CheckKept, BeginFormat, EndFormat,
            ClaimRoot, Mount, SkipSwap, RegisterSwap, SwapOn
    <1>6. CASE StopActions
        BY <1>6 DEF StopActions, StopKill, StopWait, StopClear, AfterStop
    <1>7. CASE BootActions
        BY <1>7 DEF BootActions, SnapshotDir, SnapshotClaim, SnapshotMount, SnapshotFill,
            Pacstrap, WritePayload, Chroot, Sign, StageFile, RecordStage, CopyStage,
            CommitStage, ClearRecord, DiscardCheck, DiscardUmount, DiscardClear,
            DiscardRmdir, Firmware, RemovePayload, Succeed, Finish
    <1> QED
        BY <1>1, <1>2, <1>3, <1>4, <1>5, <1>6, <1>7 DEF Main

LEMMA HostCleanup == HostInv /\ CleanupActions => HostInv'
    <1> SUFFICES ASSUME HostInv, CleanupActions PROVE HostInv'
        OBVIOUS
    <1> USE DEF HostInv, ChangesFlagged, BackupsWhole, PolicyOriginal, HostRestored,
            Untouched, Relaxed, ConfRestoredAt, MainSteps, PreparationSteps, WriteSteps,
            CleanupSteps, Stopped, Goto, Within, Advance, Die, planVars, mountVars,
            swapVars, hostVars, nginxVars, workVars, bootVars, storageVars, cleanupVars,
            TouchesNothing, TouchesStorage, TouchesMounts, TouchesSwaps, TouchesHost,
            TouchesServer, TouchesWork, TouchesBoot, TouchesCleanup, ReleasesMounts,
            ReleasesFiles, ReleasesSwaps, ReleasesServer, ReleasesHost, ReleasesWork
    <1>1. CASE RestoreConf
        BY <1>1 DEF RestoreConf, When, Attempt, Report
    <1>2. CASE RestoreList
        BY <1>2 DEF RestoreList, When, Attempt, Report
    <1>3. CASE RemoveWorkDir
        BY <1>3 DEF RemoveWorkDir, When, Attempt, Report
    <1>4. CASE InspectProbe \/ CleanProbe \/ InspectTarget \/ InspectMirror \/ InspectSnapshot
        BY <1>4 DEF InspectProbe, CleanProbe, InspectTarget, InspectMirror, InspectSnapshot,
            Inspect, UmountSpot, When, Attempt, Report
    <1>5. CASE CleanStaged \/ CleanPayload \/ CleanTarget \/ QuerySwaps \/ SwapOff \/ SwapsDone
        BY <1>5 DEF CleanStaged, CleanPayload, CleanTarget, QuerySwaps, SwapOff, SwapsDone,
            UmountSpot, When, Attempt, Report
    <1>6. CASE CleanKill \/ CleanWait \/ CleanMirror \/ CleanSnapshot \/ RemoveSnapshot \/ Exit
        BY <1>6 DEF CleanKill, CleanWait, CleanMirror, CleanSnapshot, RemoveSnapshot, Exit,
            UmountSpot, When, Attempt, Report
    <1> QED
        BY <1>1, <1>2, <1>3, <1>4, <1>5, <1>6 DEF CleanupActions

(* A second run starts without backups of its own: HostInv is about the     *)
(* first.                                                                   *)
LEMMA HostOutside == IInv /\ HostInv /\ Outside => HostInv'
    <1> SUFFICES ASSUME IInv, HostInv, Outside PROVE HostInv'
        OBVIOUS
    <1> USE DEF HostInv, ChangesFlagged, BackupsWhole, PolicyOriginal, HostRestored,
            Untouched, Relaxed, ConfRestoredAt, MainSteps, PreparationSteps, WriteSteps,
            CleanupSteps, Stopped, Goto, Within, Advance, Die, planVars, mountVars,
            swapVars, hostVars, nginxVars, workVars, bootVars, storageVars, cleanupVars,
            TouchesNothing, TouchesStorage, TouchesMounts, TouchesSwaps, TouchesHost,
            TouchesServer, TouchesWork, TouchesBoot, TouchesCleanup, ReleasesMounts,
            ReleasesFiles, ReleasesSwaps, ReleasesServer, ReleasesHost, ReleasesWork,
            controlVars
    <1>1. CASE Abort \/ Kill
        BY <1>1 DEF Abort, Kill
    <1>2. ASSUME NEW released \in BOOLEAN, Rerun(released) PROVE HostInv'
        <2>1. run \in Nat \ {0} /\ run' = run + 1
            BY <1>2, RunsAssumption DEF Rerun, IInv, TypeOK, ControlTypeOK
        <2> QED
            BY <2>1
    <1>3. CASE Environment
        BY <1>3 DEF Environment, ForeignMount, ForeignSwapon, KeepDrift, DiskDrift,
            NginxCrashes, NginxExits
    <1> QED
        BY <1>1, <1>2, <1>3 DEF Outside

-----------------------------------------------------------------------------
(* Boot files: placed in order, so that no prefix of them is a broken chain. *)
LEMMA BootInit == Init => BootInv
    BY DEF Init, ScriptStart, FreshMachine, BootInv, PlacedInOrder, ShimsBesideLoaders,
           StageInv, EntryInv, FileLoops, AfterFiles

(* A name is placed in its turn.                                            *)
LEMMA ChainOrder ==
    ASSUME NEW i \in 1 .. 11, \A k \in 1 .. 11 : k < i => BootFiles[k] \in placed,
           ShimsBesideLoaders, placed' = placed \cup {BootFiles[i]}
    PROVE  ShimsBesideLoaders'
    <1>1. /\ BootFiles[1] = "kernel.bak" /\ BootFiles[2] = "kernel"
          /\ BootFiles[3] = "BOOT/GRUBX64" /\ BootFiles[4] = "ARCH/GRUBX64"
          /\ BootFiles[5] = "BOOT/MMX64" /\ BootFiles[6] = "BOOT/FBX64"
          /\ BootFiles[7] = "ARCH/MMX64" /\ BootFiles[8] = "ARCH/FBX64"
          /\ BootFiles[9] = "MOK.cer" /\ BootFiles[10] = "ARCH/SHIMX64"
          /\ BootFiles[11] = "BOOT/BOOTX64"
        BY DEF BootFiles
    <1>2. CASE i = 2
        BY <1>1, <1>2 DEF ShimsBesideLoaders
    <1>3. CASE i = 10
        <2>1. {"kernel", "ARCH/GRUBX64", "ARCH/MMX64"} \subseteq placed
            BY <1>1, <1>3
        <2> QED
            BY <1>1, <1>3, <2>1 DEF ShimsBesideLoaders
    <1>4. CASE i = 11
        <2>1. {"kernel", "BOOT/GRUBX64", "BOOT/FBX64"} \subseteq placed
            BY <1>1, <1>4
        <2> QED
            BY <1>1, <1>4, <2>1 DEF ShimsBesideLoaders
    <1>5. CASE i \notin {2, 10, 11}
        <2>1. BootFiles[i] \notin {"kernel", "ARCH/SHIMX64", "BOOT/BOOTX64"}
            BY <1>1, <1>5
        <2> QED
            BY <2>1 DEF ShimsBesideLoaders
    <1> QED
        BY <1>2, <1>3, <1>4, <1>5

LEMMA BootMain == IInv /\ BootInv /\ Main => BootInv'
    <1> SUFFICES ASSUME IInv, BootInv, Main PROVE BootInv'
        OBVIOUS
    <1>t. idx \in Nat /\ (pc \in FileLoops => idx \in 1 .. 11) /\ Len(BootFiles) = 11
        BY BootFilesLength DEF IInv, TypeOK, ControlTypeOK, IndexInRange
    <1> USE DEF BootInv, PlacedInOrder, ShimsBesideLoaders, StageInv, EntryInv, FileLoops,
            AfterFiles, MainSteps, PreparationSteps, WriteSteps, CleanupSteps, Stopped,
            Goto, Within, Advance, Die, planVars, mountVars, swapVars, hostVars, nginxVars,
            workVars, bootVars, storageVars, cleanupVars, TouchesNothing, TouchesStorage,
            TouchesMounts, TouchesSwaps, TouchesHost, TouchesServer, TouchesWork,
            TouchesBoot, TouchesCleanup, ReleasesMounts, ReleasesFiles, ReleasesSwaps,
            ReleasesServer, ReleasesHost, ReleasesWork
    <1>1. CASE PackageActions
        BY <1>1 DEF PackageActions, ConfirmPackage, ClaimMirror, MountMirror, BackupConf,
            BackupList, SetChanged, RankMirrors, StripSigLevel, FileList, Bootstrap,
            StartNginx, RecordNginx, AwaitNginx, RestorePolicy, HttpList, ResolvePackages,
            Copied
    <1>2. CASE BeginFormat
        BY <1>2 DEF BeginFormat
    <1>3. CASE StorageActions /\ ~BeginFormat
        BY <1>3 DEF StorageActions, ConfirmSource, MakeWorkDir, Preflight, SkipProbe,
            ClaimProbe, MountProbe, UmountProbe, ReleaseProbe, RemoveProbe,
            ConfirmDestructive, Recheck, KeepTable, Wipe, WriteTable, AwaitPartitions,
            CheckKept, EndFormat, ClaimRoot, Mount, SkipSwap, RegisterSwap, SwapOn
    <1>4. CASE StopActions
        BY <1>4 DEF StopActions, StopKill, StopWait, StopClear, AfterStop
    <1>5. CASE CommitStage
        <2>1. /\ placed' = placed \cup {BootFiles[idx]} /\ idx' = idx
              /\ pc = "stage_commit" /\ pc' = "stage_clear"
            BY <1>5 DEF CommitStage
        <2>2. ShimsBesideLoaders'
            BY <1>t, <2>1, ChainOrder
        <2>3. PlacedInOrder'
            BY <1>t, <2>1
        <2> QED
            BY <1>5, <2>2, <2>3 DEF CommitStage
    <1>6. CASE ClearRecord
        <2> HIDE DEF ShimsBesideLoaders
        <2>1. PlacedInOrder'
            BY <1>t, <1>6 DEF ClearRecord
        <2>2. ShimsBesideLoaders'
            BY <1>6 DEF ClearRecord, ShimsBesideLoaders
        <2> QED
            BY <1>6, <2>1, <2>2 DEF ClearRecord
    <1>7. CASE SnapshotDir \/ SnapshotClaim \/ SnapshotMount \/ SnapshotFill
             \/ Pacstrap \/ WritePayload \/ Chroot
        BY <1>7 DEF SnapshotDir, SnapshotClaim, SnapshotMount, SnapshotFill, Pacstrap,
            WritePayload, Chroot
    <1>8. CASE Sign \/ StageFile \/ RecordStage \/ CopyStage
        BY <1>t, <1>8 DEF Sign, StageFile, RecordStage, CopyStage
    <1>9. CASE DiscardCheck \/ DiscardUmount \/ DiscardClear \/ DiscardRmdir
        BY <1>9 DEF DiscardCheck, DiscardUmount, DiscardClear, DiscardRmdir
    <1>10. CASE Firmware
        <2>1. plan.secure => "ARCH/SHIMX64" \in placed
            BY <1>10 DEF Firmware, BootFiles
        <2> QED
            BY <1>10, <2>1 DEF Firmware
    <1>11. CASE RemovePayload \/ Succeed \/ Finish
        BY <1>11 DEF RemovePayload, Succeed, Finish
    <1> QED
        BY <1>1, <1>2, <1>3, <1>4, <1>5, <1>6, <1>7, <1>8, <1>9, <1>10, <1>11
        DEF Main, BootActions

LEMMA BootCleanup == IInv /\ BootInv /\ CleanupActions => BootInv'
    <1> SUFFICES ASSUME IInv, BootInv, CleanupActions PROVE BootInv'
        OBVIOUS
    <1> USE DEF BootInv, PlacedInOrder, ShimsBesideLoaders, StageInv, EntryInv, FileLoops,
            AfterFiles, MainSteps, PreparationSteps, WriteSteps, CleanupSteps, Stopped,
            Goto, Within, Advance, Die, planVars, mountVars, swapVars, hostVars, nginxVars,
            workVars, bootVars, storageVars, cleanupVars, TouchesNothing, TouchesStorage,
            TouchesMounts, TouchesSwaps, TouchesHost, TouchesServer, TouchesWork,
            TouchesBoot, TouchesCleanup, ReleasesMounts, ReleasesFiles, ReleasesSwaps,
            ReleasesServer, ReleasesHost, ReleasesWork
    <1>1. CASE CleanStaged
        BY <1>1 DEF CleanStaged, When, Attempt
    <1>2. CASE InspectProbe \/ CleanProbe \/ InspectTarget \/ InspectMirror \/ InspectSnapshot
        BY <1>2 DEF InspectProbe, CleanProbe, InspectTarget, InspectMirror, InspectSnapshot,
            Inspect, UmountSpot, When, Attempt, Report
    <1>3. CASE CleanPayload \/ CleanTarget \/ QuerySwaps \/ SwapOff \/ SwapsDone \/ RemoveWorkDir
        BY <1>3 DEF CleanPayload, CleanTarget, QuerySwaps, SwapOff, SwapsDone, RemoveWorkDir,
            UmountSpot, When, Attempt, Report
    <1>4. CASE CleanKill \/ CleanWait \/ CleanMirror \/ RestoreConf \/ RestoreList
        BY <1>4 DEF CleanKill, CleanWait, CleanMirror, RestoreConf, RestoreList, UmountSpot,
            When, Attempt, Report
    <1>5. CASE CleanSnapshot \/ RemoveSnapshot \/ Exit
        BY <1>5 DEF CleanSnapshot, RemoveSnapshot, Exit, UmountSpot, When, Attempt, Report
    <1> QED
        BY <1>1, <1>2, <1>3, <1>4, <1>5 DEF CleanupActions

LEMMA BootOutside == IInv /\ BootInv /\ Outside => BootInv'
    <1> SUFFICES ASSUME IInv, BootInv, Outside PROVE BootInv'
        OBVIOUS
    <1> USE DEF BootInv, PlacedInOrder, ShimsBesideLoaders, StageInv, EntryInv, FileLoops,
            AfterFiles, MainSteps, PreparationSteps, WriteSteps, CleanupSteps, Stopped,
            Goto, Within, Advance, Die, planVars, mountVars, swapVars, hostVars, nginxVars,
            workVars, bootVars, storageVars, cleanupVars, TouchesNothing, TouchesStorage,
            TouchesMounts, TouchesSwaps, TouchesHost, TouchesServer, TouchesWork,
            TouchesBoot, TouchesCleanup, ReleasesMounts, ReleasesFiles, ReleasesSwaps,
            ReleasesServer, ReleasesHost, ReleasesWork, controlVars
    <1>1. CASE Abort \/ Kill
        BY <1>1 DEF Abort, Kill
    <1>2. ASSUME NEW released \in BOOLEAN, Rerun(released) PROVE BootInv'
        <2>1. run \in Nat \ {0} /\ run' = run + 1
            BY <1>2, RunsAssumption DEF Rerun, IInv, TypeOK, ControlTypeOK
        <2> QED
            BY <1>2, <2>1 DEF Rerun
    <1>3. CASE Environment
        BY <1>3 DEF Environment, ForeignMount, ForeignSwapon, KeepDrift, DiskDrift,
            NginxCrashes, NginxExits
    <1> QED
        BY <1>1, <1>2, <1>3 DEF Outside

-----------------------------------------------------------------------------
(* Kept filesystems: looked at by the format loop, used after it.           *)
LEMMA KeepInit == Init => KeepInv
    BY DEF Init, ScriptStart, FreshMachine, KeepInv, AfterFormat, WriteSteps, Kept, Parts

(* A step outside the format loop that takes nothing new into use.          *)
LEMMA KeepFrame ==
    ASSUME KeepInv, UNCHANGED <<plan, keepSeen, keepDrift>>,
           sub' \subseteq sub, \A p \in Parts : swap'[p] = "own" => swap[p] = "own",
           pc' \notin {"format", "mkfs"}, pc' \in AfterFormat => pc \in AfterFormat
    PROVE  KeepInv'
    BY DEF KeepInv, Kept, Verified

LEMMA KeepMain == IInv /\ KeepInv /\ Main => KeepInv'
    <1> SUFFICES ASSUME IInv, KeepInv, Main PROVE KeepInv'
        OBVIOUS
    <1>0. /\ idx \in Nat /\ (pc \in PartLoops => idx \in Parts) /\ NumParts \in Nat \ {0}
          /\ swap \in [Parts -> {"off", "own", "foreign"}]
        BY SizesAssumption DEF IInv, TypeOK, ControlTypeOK, MountTypeOK, IndexInRange
    <1> USE DEF AfterFormat, MainSteps, PreparationSteps, WriteSteps, CleanupSteps, Stopped,
            Goto, Within, Advance, Die, planVars, mountVars, swapVars, hostVars, nginxVars,
            workVars, bootVars, storageVars, cleanupVars, TouchesNothing, TouchesStorage,
            TouchesMounts, TouchesSwaps, TouchesHost, TouchesServer, TouchesWork,
            TouchesBoot, TouchesCleanup, ReleasesMounts, ReleasesFiles, ReleasesSwaps,
            ReleasesServer, ReleasesHost, ReleasesWork
    <1>1. CASE PackageActions
        <2>1. /\ UNCHANGED <<plan, keepSeen, keepDrift>>
              /\ sub' \subseteq sub /\ \A p \in Parts : swap'[p] = "own" => swap[p] = "own"
              /\ pc' \notin {"format", "mkfs"} /\ (pc' \in AfterFormat => pc \in AfterFormat)
            BY <1>1 DEF PackageActions, ConfirmPackage, ClaimMirror, MountMirror,
                BackupConf, BackupList, SetChanged, RankMirrors, StripSigLevel, FileList,
                Bootstrap, StartNginx, RecordNginx, AwaitNginx, RestorePolicy, HttpList,
                ResolvePackages, Copied
        <2> QED
            BY <2>1, KeepFrame
    <1>2. CASE AwaitPartitions
        BY <1>0, <1>2 DEF AwaitPartitions, KeepInv, Kept, Verified, Parts, PartLoops
    <1>3. CASE CheckKept
        BY <1>0, <1>3 DEF CheckKept, KeepInv, Kept, Verified, Parts, PartLoops
    <1>4. CASE BeginFormat
        BY <1>0, <1>4 DEF BeginFormat, KeepInv, Kept, Verified, Parts, PartLoops
    <1>5. CASE EndFormat
        <2>1. \A p \in Parts : Kept(p) /\ p < idx + 1 => Verified(p)
            BY <1>0, <1>5 DEF EndFormat, IInv, FormatsOnlyPlanned, KeepInv, Kept, Verified,
                Parts, PartLoops
        <2> QED
            BY <1>0, <1>5, <2>1 DEF EndFormat, KeepInv, Kept, Verified, Parts, PartLoops
    <1>6. CASE Mount
        <2>1. /\ UNCHANGED <<plan, keepSeen, keepDrift, swap>> /\ sub' \subseteq sub \cup {idx}
              /\ pc \in AfterFormat /\ pc' \in AfterFormat /\ idx \in Parts
            BY <1>0, <1>6 DEF Mount, PartLoops
        <2> QED
            BY <2>1 DEF KeepInv, Kept, Verified
    <1>7. CASE SwapOn
        <2>1. /\ UNCHANGED <<plan, keepSeen, keepDrift, sub>> /\ idx \in Parts
              /\ \A p \in Parts : swap'[p] = "own" => p = idx \/ swap[p] = "own"
              /\ pc \in AfterFormat /\ pc' \notin {"format", "mkfs"}
            BY <1>0, <1>7 DEF SwapOn, PartLoops
        <2> QED
            BY <2>1 DEF KeepInv, Kept, Verified
    <1>8. CASE StorageActions /\ ~(AwaitPartitions \/ CheckKept \/ BeginFormat \/ EndFormat)
             /\ ~Mount /\ ~SwapOn
        <2>1. /\ UNCHANGED <<plan, keepSeen, keepDrift>>
              /\ sub' \subseteq sub /\ \A p \in Parts : swap'[p] = "own" => swap[p] = "own"
              /\ pc' \notin {"format", "mkfs"} /\ (pc' \in AfterFormat => pc \in AfterFormat)
            BY <1>8 DEF StorageActions, ConfirmSource, MakeWorkDir, Preflight, SkipProbe,
                ClaimProbe, MountProbe, UmountProbe, ReleaseProbe, RemoveProbe,
                ConfirmDestructive, Recheck, KeepTable, Wipe, WriteTable, ClaimRoot,
                SkipSwap, RegisterSwap
        <2> QED
            BY <2>1, KeepFrame
    <1>9. CASE StopActions
        <2>1. /\ UNCHANGED <<plan, keepSeen, keepDrift>>
              /\ sub' \subseteq sub /\ \A p \in Parts : swap'[p] = "own" => swap[p] = "own"
              /\ pc' \notin {"format", "mkfs"} /\ (pc' \in AfterFormat => pc \in AfterFormat)
            BY <1>9 DEF StopActions, StopKill, StopWait, StopClear, AfterStop
        <2> QED
            BY <2>1, KeepFrame
    <1>10. CASE BootActions
        <2>1. /\ UNCHANGED <<plan, keepSeen, keepDrift>>
              /\ sub' \subseteq sub /\ \A p \in Parts : swap'[p] = "own" => swap[p] = "own"
              /\ pc' \notin {"format", "mkfs"} /\ (pc' \in AfterFormat => pc \in AfterFormat)
            BY <1>10 DEF BootActions, SnapshotDir, SnapshotClaim, SnapshotMount,
                SnapshotFill, Pacstrap, WritePayload, Chroot, Sign, StageFile, RecordStage,
                CopyStage, CommitStage, ClearRecord, DiscardCheck, DiscardUmount,
                DiscardClear, DiscardRmdir, Firmware, RemovePayload, Succeed, Finish
        <2> QED
            BY <2>1, KeepFrame
    <1> QED
        BY <1>1, <1>2, <1>3, <1>4, <1>5, <1>6, <1>7, <1>8, <1>9, <1>10 DEF Main

LEMMA KeepElsewhere == IInv /\ KeepInv /\ (CleanupActions \/ Outside) => KeepInv'
    <1> SUFFICES ASSUME IInv, KeepInv, CleanupActions \/ Outside PROVE KeepInv'
        OBVIOUS
    <1>0. swap \in [Parts -> {"off", "own", "foreign"}]
        BY DEF IInv, TypeOK, MountTypeOK
    <1> USE DEF AfterFormat, MainSteps, PreparationSteps, WriteSteps, CleanupSteps, Stopped,
            Goto, Within, Advance, Die, planVars, mountVars, swapVars, hostVars, nginxVars,
            workVars, bootVars, storageVars, cleanupVars, TouchesNothing, TouchesStorage,
            TouchesMounts, TouchesSwaps, TouchesHost, TouchesServer, TouchesWork,
            TouchesBoot, TouchesCleanup, ReleasesMounts, ReleasesFiles, ReleasesSwaps,
            ReleasesServer, ReleasesHost, ReleasesWork, controlVars
    <1>1. CASE CleanupActions
        <2>1. /\ UNCHANGED <<plan, keepSeen, keepDrift>>
              /\ sub' \subseteq sub /\ \A p \in Parts : swap'[p] = "own" => swap[p] = "own"
              /\ pc' \notin AfterFormat \cup {"format", "mkfs"}
            BY <1>0, <1>1 DEF CleanupActions, InspectProbe, CleanProbe, InspectTarget,
                InspectMirror, InspectSnapshot, CleanStaged, CleanPayload, CleanTarget,
                QuerySwaps, SwapOff, SwapsDone, CleanKill, CleanWait, CleanMirror,
                RestoreConf, RestoreList, CleanSnapshot, RemoveSnapshot, RemoveWorkDir,
                Exit, Inspect, UmountSpot, When, Attempt, Report
        <2> QED
            BY <2>1, KeepFrame
    <1>2. CASE Abort \/ Kill
        <2>1. /\ UNCHANGED <<plan, keepSeen, keepDrift>>
              /\ sub' \subseteq sub /\ \A p \in Parts : swap'[p] = "own" => swap[p] = "own"
              /\ pc' \notin AfterFormat \cup {"format", "mkfs"}
            BY <1>2 DEF Abort, Kill
        <2> QED
            BY <2>1, KeepFrame
    <1>3. ASSUME NEW released \in BOOLEAN, Rerun(released) PROVE KeepInv'
        BY <1>3 DEF Rerun, KeepInv
    <1>4. ASSUME NEW q \in Parts, KeepDrift(q) PROVE KeepInv'
        BY <1>4 DEF KeepDrift, KeepInv, Kept, Verified
    <1>5. CASE Environment /\ ~\E q \in Parts : KeepDrift(q)
        <2>1. /\ UNCHANGED <<plan, keepSeen, keepDrift, pc, idx, sub>>
              /\ \A p \in Parts : swap'[p] = "own" => swap[p] = "own"
            BY <1>0, <1>5 DEF Environment, ForeignMount, ForeignSwapon, DiskDrift,
                NginxCrashes, NginxExits
        <2> QED
            BY <2>1 DEF KeepInv, Kept, Verified
    <1> QED
        BY <1>1, <1>2, <1>3, <1>4, <1>5 DEF Outside, Environment

-----------------------------------------------------------------------------
(* Finished work: the loops have made every table and filesystem.           *)
LEMMA DoneInit == Init => DoneInv
    BY DEF Init, ScriptStart, FreshMachine, DoneInv, AfterFormat, AfterServer, FileLoops,
           AfterFiles, WriteSteps, DiskLoops, CleanupSteps

(* A step before the writes, or one into cleanup with a failure status.     *)
LEMMA DoneEarly ==
    ASSUME DoneInv, ~INSTALL_SUCCEEDED', pc' \notin WriteSteps \cup {"ended"},
           pc' \in CleanupSteps => status' # 0
    PROVE  DoneInv'
    BY DEF DoneInv, WriteSteps, CleanupSteps, AfterFormat, AfterServer, FileLoops, AfterFiles,
           DiskLoops

LEMMA DoneMain == IInv /\ BootInv /\ DoneInv /\ Main => DoneInv'
    <1> SUFFICES ASSUME IInv, BootInv, DoneInv, Main PROVE DoneInv'
        OBVIOUS
    <1>0. /\ idx \in Nat /\ (pc \in PartLoops => idx \in Parts) /\ NumParts \in Nat \ {0}
          /\ NumDisks \in Nat \ {0} /\ (pc \in DiskLoops => idx \in Disks)
          /\ pc \in MainSteps
          /\ table \in [Disks -> {"original", "wiped", "created"}]
          /\ content \in [Parts -> {"original", "gone", "torn", "formatted"}]
        <2>1. pc \in MainSteps
            BY DEF Main, PackageActions, StorageActions, StopActions, BootActions,
                ConfirmPackage, ClaimMirror, MountMirror, BackupConf, BackupList,
                SetChanged, RankMirrors, StripSigLevel, FileList, Bootstrap, StartNginx,
                RecordNginx, AwaitNginx, RestorePolicy, HttpList, ResolvePackages,
                ConfirmSource, MakeWorkDir, Preflight, SkipProbe, ClaimProbe, MountProbe,
                UmountProbe, ReleaseProbe, RemoveProbe, ConfirmDestructive, Recheck,
                KeepTable, Wipe, WriteTable, AwaitPartitions, CheckKept, BeginFormat,
                EndFormat, ClaimRoot, Mount, SkipSwap, RegisterSwap, SwapOn, StopKill,
                StopWait, StopClear, SnapshotDir, SnapshotClaim, SnapshotMount,
                SnapshotFill, Pacstrap, WritePayload, Chroot, Sign, StageFile, RecordStage,
                CopyStage, CommitStage, ClearRecord, DiscardCheck, DiscardUmount,
                DiscardClear, DiscardRmdir, Firmware, RemovePayload, Succeed, Finish,
                Copied, Goto, Within, Advance, Die, MainSteps, PreparationSteps, WriteSteps
        <2> QED
            BY <2>1, SizesAssumption DEF IInv, TypeOK, ControlTypeOK, StorageTypeOK,
                IndexInRange
    <1>s. INSTALL_SUCCEEDED => pc = "done"
        BY <1>0 DEF DoneInv, MainSteps, PreparationSteps, WriteSteps, CleanupSteps, Stopped
    <1> USE DEF AfterFormat, AfterServer, AfterFiles, FileLoops, DiskLoops, MainSteps,
            PreparationSteps, WriteSteps, CleanupSteps, Stopped, Goto, Within, Advance, Die,
            planVars, mountVars, swapVars, hostVars, nginxVars, workVars, bootVars,
            storageVars, cleanupVars, TouchesNothing, TouchesStorage, TouchesMounts,
            TouchesSwaps, TouchesHost, TouchesServer, TouchesWork, TouchesBoot,
            TouchesCleanup, ReleasesMounts, ReleasesFiles, ReleasesSwaps, ReleasesServer,
            ReleasesHost, ReleasesWork
    <1>1. CASE PackageActions
        <2>1. /\ ~INSTALL_SUCCEEDED' /\ pc' \notin WriteSteps \cup {"ended"}
              /\ pc' \in CleanupSteps => status' # 0
            BY <1>s, <1>1 DEF PackageActions, ConfirmPackage, ClaimMirror, MountMirror,
                BackupConf, BackupList, SetChanged, RankMirrors, StripSigLevel, FileList,
                Bootstrap, StartNginx, RecordNginx, AwaitNginx, RestorePolicy, HttpList,
                ResolvePackages, Copied
        <2> QED
            BY <2>1, DoneEarly
    <1>2. CASE ConfirmSource \/ MakeWorkDir \/ Preflight \/ SkipProbe \/ ClaimProbe
             \/ MountProbe \/ UmountProbe \/ ReleaseProbe \/ RemoveProbe \/ ConfirmDestructive
        <2>1. /\ ~INSTALL_SUCCEEDED' /\ pc' \notin WriteSteps \cup {"ended"}
              /\ pc' \in CleanupSteps => status' # 0
            BY <1>s, <1>2 DEF ConfirmSource, MakeWorkDir, Preflight, SkipProbe, ClaimProbe,
                MountProbe, UmountProbe, ReleaseProbe, RemoveProbe, ConfirmDestructive
        <2> QED
            BY <2>1, DoneEarly
    <1>3. CASE Recheck
        BY <1>0, <1>s, <1>3 DEF Recheck, DoneInv, TablesMade, PartsMade, Installed,
            Automatic, Kept, Parts, Disks, PartLoops
    <1>4. CASE KeepTable
        BY <1>0, <1>s, <1>4 DEF KeepTable, DoneInv, TablesMade, PartsMade, Installed,
            Automatic, Kept, Parts, Disks, PartLoops
    <1>5. CASE Wipe
        BY <1>0, <1>s, <1>5 DEF Wipe, DoneInv, TablesMade, PartsMade, Installed, Automatic,
            Kept, Parts, Disks, PartLoops
    <1>6. CASE WriteTable
        BY <1>0, <1>s, <1>6 DEF WriteTable, DoneInv, TablesMade, PartsMade, Installed,
            Automatic, Kept, Parts, Disks, PartLoops
    <1>7. CASE AwaitPartitions
        BY <1>0, <1>s, <1>7 DEF AwaitPartitions, DoneInv, TablesMade, PartsMade, Installed,
            Automatic, Kept, Parts, Disks, PartLoops
    <1>8. CASE CheckKept
        BY <1>0, <1>s, <1>8 DEF CheckKept, DoneInv, TablesMade, PartsMade, Installed,
            Automatic, Kept, Parts, Disks, PartLoops
    <1>9. CASE BeginFormat
        BY <1>0, <1>s, <1>9 DEF BeginFormat, DoneInv, TablesMade, PartsMade, Installed,
            Automatic, Kept, Parts, Disks, PartLoops
    <1>10. CASE EndFormat
        BY <1>0, <1>s, <1>10 DEF EndFormat, IInv, FormatsOnlyPlanned, DoneInv, TablesMade,
            PartsMade, Installed, Automatic, Kept, Parts, Disks, PartLoops
    <1>11. CASE ClaimRoot \/ Mount \/ SkipSwap \/ RegisterSwap \/ SwapOn
        BY <1>0, <1>s, <1>11 DEF ClaimRoot, Mount, SkipSwap, RegisterSwap, SwapOn, DoneInv,
            TablesMade, PartsMade, Installed, Automatic, Kept, Parts, Disks, PartLoops
    <1>12. CASE StopActions
        BY <1>0, <1>s, <1>12 DEF StopActions, StopKill, StopWait, StopClear, AfterStop,
            DoneInv, TablesMade, PartsMade, Installed, Automatic, Kept, Parts, Disks,
            PartLoops
    <1>13. CASE SnapshotDir \/ SnapshotClaim \/ SnapshotMount \/ SnapshotFill
        <2>1. /\ ~INSTALL_SUCCEEDED' /\ pc' \notin WriteSteps \cup {"ended"}
              /\ pc' \in CleanupSteps => status' # 0
            BY <1>s, <1>13 DEF SnapshotDir, SnapshotClaim, SnapshotMount, SnapshotFill
        <2> QED
            BY <2>1, DoneEarly
    <1>14. CASE Pacstrap \/ WritePayload \/ Chroot \/ Sign \/ StageFile
              \/ RecordStage \/ CopyStage \/ CommitStage \/ ClearRecord
        BY <1>0, <1>s, <1>14 DEF Pacstrap, WritePayload, Chroot, Sign, StageFile,
            RecordStage, CopyStage, CommitStage, ClearRecord, DoneInv, TablesMade,
            PartsMade, Installed, Automatic, Kept, Parts, Disks, PartLoops
    <1>15. CASE DiscardCheck \/ DiscardUmount \/ DiscardClear \/ DiscardRmdir
              \/ RemovePayload
        BY <1>0, <1>s, <1>15 DEF DiscardCheck, DiscardUmount, DiscardClear, DiscardRmdir,
            RemovePayload, DoneInv, TablesMade, PartsMade, Installed, Automatic, Kept,
            Parts, Disks, PartLoops
    <1>16. CASE Firmware
        <2>1. plan.efi => entry'
            BY <1>16 DEF Firmware
        <2> QED
            BY <1>0, <1>s, <1>16, <2>1 DEF Firmware, DoneInv, TablesMade, PartsMade,
                Installed, Automatic, Kept, Parts, Disks, PartLoops
    <1>17. CASE Succeed
        BY <1>0, <1>17 DEF Succeed, BootInv, PlacedInOrder, DoneInv, TablesMade, PartsMade,
            Installed, Automatic, Kept, Parts, Disks, PartLoops
    <1>18. CASE Finish
        BY <1>0, <1>18 DEF Finish, DoneInv, TablesMade, PartsMade, Installed, Automatic,
            Kept, Parts, Disks, PartLoops
    <1> QED
        BY <1>1, <1>2, <1>3, <1>4, <1>5, <1>6, <1>7, <1>8, <1>9, <1>10, <1>11, <1>12, <1>13,
           <1>14, <1>15, <1>16, <1>17, <1>18 DEF Main, StorageActions, BootActions

LEMMA DoneElsewhere == IInv /\ DoneInv /\ (CleanupActions \/ Outside) => DoneInv'
    <1> SUFFICES ASSUME IInv, DoneInv, CleanupActions \/ Outside PROVE DoneInv'
        OBVIOUS
    <1> USE DEF AfterFormat, AfterServer, AfterFiles, FileLoops, DiskLoops, MainSteps,
            PreparationSteps, WriteSteps, CleanupSteps, Stopped, Goto, Within, Advance, Die,
            planVars, mountVars, swapVars, hostVars, nginxVars, workVars, bootVars,
            storageVars, cleanupVars, TouchesNothing, TouchesStorage, TouchesMounts,
            TouchesSwaps, TouchesHost, TouchesServer, TouchesWork, TouchesBoot,
            TouchesCleanup, ReleasesMounts, ReleasesFiles, ReleasesSwaps, ReleasesServer,
            ReleasesHost, ReleasesWork, controlVars
    <1>1. CASE CleanupActions /\ ~Exit
        <2>1. /\ UNCHANGED <<plan, table, content, placed, entry, INSTALL_SUCCEEDED, status>>
              /\ nginx = "reaped" => nginx' = "reaped"
              /\ pc \in CleanupSteps /\ pc' \in CleanupSteps
            BY <1>1 DEF CleanupActions, InspectProbe, CleanProbe, InspectTarget,
                InspectMirror, InspectSnapshot, CleanStaged, CleanPayload, CleanTarget,
                QuerySwaps, SwapOff, SwapsDone, CleanKill, CleanWait, CleanMirror,
                RestoreConf, RestoreList, CleanSnapshot, RemoveSnapshot, RemoveWorkDir,
                Inspect, UmountSpot, When, Attempt, Report
        <2> QED
            BY <2>1 DEF DoneInv, TablesMade, PartsMade, Installed, Automatic, Kept
    <1>2. CASE Exit
        BY <1>2 DEF Exit, DoneInv, TablesMade, PartsMade, Installed, Automatic, Kept, IInv,
            TypeOK, ControlTypeOK
    <1>3. CASE Abort \/ Kill
        BY <1>3 DEF Abort, Kill, DoneInv, TablesMade, PartsMade, Installed, Automatic, Kept
    <1>4. ASSUME NEW released \in BOOLEAN, Rerun(released) PROVE DoneInv'
        BY <1>4, DoneEarly DEF Rerun
    <1>5. CASE Environment
        <2>1. UNCHANGED <<plan, table, content, placed, entry, INSTALL_SUCCEEDED, status, pc, idx,
                          cleanup_failed>> /\ (nginx = "reaped" => nginx' = "reaped")
            BY <1>5 DEF Environment, ForeignMount, ForeignSwapon, KeepDrift, DiskDrift,
                NginxCrashes, NginxExits
        <2> QED
            BY <2>1 DEF DoneInv, TablesMade, PartsMade, Installed, Automatic, Kept
    <1> QED
        BY <1>1, <1>2, <1>3, <1>4, <1>5 DEF Outside

-----------------------------------------------------------------------------
(* Released work: what lies on the target or in the work directory.         *)
LEMMA ReleaseInit == Init => ReleaseInv
    BY DEF Init, ScriptStart, FreshMachine, ReleaseInv, TargetMounted, TargetReleased,
           WorkDirRemoved, MountedSteps, AfterFormat, WriteSteps, FilesLeft, UnmountedAt,
           InspectedAt, BeforeInspection, CleanupSteps

LEMMA ReleaseMain == IInv /\ ReleaseInv /\ Main => ReleaseInv'
    <1> SUFFICES ASSUME IInv, ReleaseInv, Main PROVE ReleaseInv'
        OBVIOUS
    <1>0. /\ idx \in Nat /\ (pc \in PartLoops => idx \in Parts) /\ mount \in [Spots -> MountStates]
          /\ "target" \in Spots /\ "probe" \in Spots /\ "mirror" \in Spots /\ "snapshot" \in Spots
          /\ plan.usage[1] = "root"
        BY PlansAssumption DEF IInv, TypeOK, ControlTypeOK, MountTypeOK, IndexInRange,
            Emitted, Spots
    <1> USE DEF ReleaseInv, TargetMounted, TargetReleased, WorkDirRemoved, MountedSteps,
            AfterFormat, FilesLeft, Own, BeforeInspection, InspectedAt, UnmountedAt,
            MainSteps, PreparationSteps, WriteSteps, CleanupSteps, Stopped, Goto, Within,
            Advance, Die, planVars, mountVars, swapVars, hostVars, nginxVars, workVars,
            bootVars, storageVars, cleanupVars, TouchesNothing, TouchesStorage,
            TouchesMounts, TouchesSwaps, TouchesHost, TouchesServer, TouchesWork,
            TouchesBoot, TouchesCleanup, ReleasesMounts, ReleasesFiles, ReleasesSwaps,
            ReleasesServer, ReleasesHost, ReleasesWork
    <1>1. CASE PackageActions
        BY <1>0, <1>1 DEF PackageActions, ConfirmPackage, ClaimMirror, MountMirror,
            BackupConf, BackupList, SetChanged, RankMirrors, StripSigLevel, FileList,
            Bootstrap, StartNginx, RecordNginx, AwaitNginx, RestorePolicy, HttpList,
            ResolvePackages, Copied, WithOwn
    <1>2. CASE Mount
        <2>1. /\ pc = "mount" /\ idx \in Parts /\ pc' \in {"mount", "register_swap"}
              /\ UNCHANGED <<run, stage, payload>>
            BY <1>0, <1>2 DEF Mount, PartLoops
        <2>2. Own("target") => Own("target")'
            BY <1>0, <1>2 DEF Mount, WithOwn
        <2>3. idx = 1 => Own("target")'
            BY <1>0, <1>2 DEF Mount, WithOwn
        <2>4. idx # 1 => idx > 1
            BY <1>0, <2>1 DEF Parts
        <2>5. Own("target")'
            BY <2>1, <2>2, <2>3, <2>4
        <2> QED
            BY <2>1, <2>5
    <1>3. CASE ClaimProbe \/ MountProbe \/ UmountProbe \/ ReleaseProbe
        BY <1>0, <1>3 DEF ClaimProbe, MountProbe, UmountProbe, ReleaseProbe, WithOwn,
            WithoutTop
    <1>4. CASE BeginFormat
        <2>1. payload' => payload
            BY <1>4 DEF BeginFormat
        <2>2. stage' \in {"partial", "full"} => stage' = stage
            BY <1>4 DEF BeginFormat
        <2> QED
            BY <1>0, <1>4, <2>1, <2>2 DEF BeginFormat
    <1>5. CASE StorageActions /\ ~Mount /\ ~BeginFormat
             /\ ~(ClaimProbe \/ MountProbe \/ UmountProbe \/ ReleaseProbe)
        BY <1>0, <1>5 DEF StorageActions, ConfirmSource, MakeWorkDir, Preflight, SkipProbe,
            RemoveProbe, ConfirmDestructive, Recheck, KeepTable, Wipe, WriteTable,
            AwaitPartitions, CheckKept, EndFormat, ClaimRoot, SkipSwap, RegisterSwap, SwapOn
    <1>6. CASE StopActions
        BY <1>0, <1>6 DEF StopActions, StopKill, StopWait, StopClear, AfterStop
    <1>7. CASE BootActions
        BY <1>0, <1>7 DEF BootActions, SnapshotDir, SnapshotClaim, SnapshotMount,
            SnapshotFill, Pacstrap, WritePayload, Chroot, Sign, StageFile, RecordStage,
            CopyStage, CommitStage, ClearRecord, DiscardCheck, DiscardUmount, DiscardClear,
            DiscardRmdir, Firmware, RemovePayload, Succeed, Finish, WithOwn, WithoutTop
    <1> QED
        BY <1>1, <1>2, <1>3, <1>4, <1>5, <1>6, <1>7 DEF Main

LEMMA ReleaseCleanup ==
    IInv /\ MountInv /\ BootInv /\ ReleaseInv /\ CleanupActions => ReleaseInv'
    <1> SUFFICES ASSUME IInv, MountInv, BootInv, ReleaseInv, CleanupActions PROVE ReleaseInv'
        OBVIOUS
    <1>0. /\ mount \in [Spots -> MountStates] /\ workdir \in BOOLEAN
          /\ "target" \in Spots /\ "probe" \in Spots /\ "mirror" \in Spots /\ "snapshot" \in Spots
        BY DEF IInv, TypeOK, MountTypeOK, BootTypeOK, Spots
    <1>a. pc \in InspectedAt("target") /\ "target" \notin raced /\ ~cleanup_failed /\ Own("target")
            => active["target"]
        BY <1>0 DEF MountInv, ActiveIsOwn
    <1> USE DEF ReleaseInv, TargetMounted, TargetReleased, WorkDirRemoved, MountedSteps,
            AfterFormat, FilesLeft, Own, BeforeInspection, InspectedAt, UnmountedAt,
            MainSteps, PreparationSteps, WriteSteps, CleanupSteps, Stopped, Goto, Within,
            Advance, Die, planVars, mountVars, swapVars, hostVars, nginxVars, workVars,
            bootVars, storageVars, cleanupVars, TouchesNothing, TouchesStorage,
            TouchesMounts, TouchesSwaps, TouchesHost, TouchesServer, TouchesWork,
            TouchesBoot, TouchesCleanup, ReleasesMounts, ReleasesFiles, ReleasesSwaps,
            ReleasesServer, ReleasesHost, ReleasesWork
    <1>1. CASE CleanStaged
        BY <1>0, <1>a, <1>1 DEF CleanStaged, BootInv, StageInv, When, Attempt, Report
    <1>2. CASE CleanPayload
        BY <1>0, <1>a, <1>2 DEF CleanPayload, When, Attempt, Report
    <1>3. CASE CleanTarget
        BY <1>0, <1>a, <1>3 DEF CleanTarget, When, Attempt, Report
    <1>4. CASE RemoveWorkDir
        BY <1>0, <1>4 DEF RemoveWorkDir, When, Attempt, Report
    <1>5. CASE CleanProbe \/ CleanMirror \/ CleanSnapshot
        BY <1>0, <1>5 DEF CleanProbe, CleanMirror, CleanSnapshot, UmountSpot, When, Attempt,
            Report
    <1>6. CASE InspectProbe \/ InspectTarget \/ InspectMirror \/ InspectSnapshot
        BY <1>0, <1>6 DEF InspectProbe, InspectTarget, InspectMirror, InspectSnapshot,
            Inspect, Report
    <1>7. CASE QuerySwaps \/ SwapOff \/ SwapsDone \/ CleanKill \/ CleanWait
             \/ RestoreConf \/ RestoreList \/ RemoveSnapshot \/ Exit
        BY <1>0, <1>7 DEF QuerySwaps, SwapOff, SwapsDone, CleanKill, CleanWait, RestoreConf,
            RestoreList, RemoveSnapshot, Exit, When, Attempt, Report
    <1> QED
        BY <1>1, <1>2, <1>3, <1>4, <1>5, <1>6, <1>7 DEF CleanupActions

LEMMA ReleaseOutside == IInv /\ ReleaseInv /\ Outside => ReleaseInv'
    <1> SUFFICES ASSUME IInv, ReleaseInv, Outside PROVE ReleaseInv'
        OBVIOUS
    <1> USE DEF ReleaseInv, TargetMounted, TargetReleased, WorkDirRemoved, MountedSteps,
            AfterFormat, FilesLeft, Own, BeforeInspection, InspectedAt, UnmountedAt,
            MainSteps, PreparationSteps, WriteSteps, CleanupSteps, Stopped, Goto, Within,
            Advance, Die, planVars, mountVars, swapVars, hostVars, nginxVars, workVars,
            bootVars, storageVars, cleanupVars, TouchesNothing, TouchesStorage,
            TouchesMounts, TouchesSwaps, TouchesHost, TouchesServer, TouchesWork,
            TouchesBoot, TouchesCleanup, ReleasesMounts, ReleasesFiles, ReleasesSwaps,
            ReleasesServer, ReleasesHost, ReleasesWork, controlVars, Running
    <1>1. CASE Abort \/ Kill
        BY <1>1 DEF Abort, Kill
    <1>2. ASSUME NEW released \in BOOLEAN, Rerun(released) PROVE ReleaseInv'
        <2>1. run \in Nat \ {0} /\ run' = run + 1
            BY <1>2, RunsAssumption DEF Rerun, IInv, TypeOK, ControlTypeOK
        <2> QED
            BY <1>2, <2>1 DEF Rerun
    <1>3. ASSUME NEW s \in Spots, ForeignMount(s) PROVE ReleaseInv'
        BY <1>3 DEF ForeignMount, WithForeign, SourceChecked, IInv, TypeOK, MountTypeOK,
            MountStates, Spots
    <1>4. CASE Environment /\ ~\E s \in Spots : ForeignMount(s)
        BY <1>4 DEF Environment, ForeignSwapon, KeepDrift, DiskDrift, NginxCrashes, NginxExits
    <1> QED
        BY <1>1, <1>2, <1>3, <1>4 DEF Outside, Environment

-----------------------------------------------------------------------------
(* The invariants together.                                                 *)
SafetyInv == /\ IInv /\ MountInv /\ SwapInv /\ HostInv
             /\ BootInv /\ KeepInv /\ DoneInv /\ ReleaseInv

(* A step that changes nothing keeps each of them.                          *)
LEMMA SafetyStutters == SafetyInv /\ UNCHANGED vars => SafetyInv'
    <1> SUFFICES ASSUME SafetyInv, UNCHANGED vars PROVE SafetyInv'
        OBVIOUS
    <1> USE DEF SafetyInv, vars, controlVars, planVars, mountVars, swapVars, hostVars,
            nginxVars, workVars, bootVars, storageVars, cleanupVars
    <1>1. IInv'
        BY NextIInv
    <1>2. MountInv'
        BY DEF MountInv, Recorded, CheckedInMain, SafeToRemove, ActiveAfterInspection,
            ActiveIsOwn, LeftUnmounted, Own
    <1>3. SwapInv'
        BY DEF SwapInv, Registered
    <1>4. HostInv'
        BY DEF HostInv, ChangesFlagged, BackupsWhole, PolicyOriginal, HostRestored
    <1>5. BootInv'
        BY DEF BootInv, PlacedInOrder, ShimsBesideLoaders, StageInv, EntryInv
    <1>6. KeepInv'
        BY DEF KeepInv, Kept, Verified
    <1>7. DoneInv'
        BY DEF DoneInv, TablesMade, PartsMade, Installed, Automatic, Kept
    <1>8. ReleaseInv'
        BY DEF ReleaseInv, TargetMounted, TargetReleased, WorkDirRemoved, FilesLeft, Own
    <1> QED
        BY <1>1, <1>2, <1>3, <1>4, <1>5, <1>6, <1>7, <1>8

LEMMA SafetySteps == SafetyInv /\ [Next]_vars => SafetyInv'
    <1> SUFFICES ASSUME SafetyInv, [Next]_vars PROVE SafetyInv'
        OBVIOUS
    <1>1. CASE Main
        BY <1>1, NextIInv, MountMain, SwapMain, HostMain, BootMain, KeepMain, DoneMain,
           ReleaseMain DEF SafetyInv
    <1>2. CASE CleanupActions
        BY <1>2, NextIInv, MountCleanup, SwapCleanup, HostCleanup, BootCleanup, KeepElsewhere,
           DoneElsewhere, ReleaseCleanup DEF SafetyInv
    <1>3. CASE Outside
        BY <1>3, NextIInv, MountOutside, SwapOutside, HostOutside, BootOutside, KeepElsewhere,
           DoneElsewhere, ReleaseOutside DEF SafetyInv
    <1>4. CASE UNCHANGED vars
        BY <1>4, SafetyStutters
    <1> QED
        BY <1>1, <1>2, <1>3, <1>4 DEF Next, Outside

LEMMA SafetyInvariance == Spec => []SafetyInv
    <1>1. Init => SafetyInv
        BY InitIInv, MountInit, SwapInit, HostInit, BootInit, KeepInit, DoneInit, ReleaseInit
        DEF SafetyInv
    <1> QED
        BY <1>1, SafetySteps, PTL DEF Spec

-----------------------------------------------------------------------------
(* What every run has on record; the first one records more.                *)
MountsAndSwapsRecorded ==
    /\ \A s \in Spots \ raced : Own(s) => claim[s]
    /\ \A p \in Parts : swap[p] = "own" => Registered(p, Len(SWAPS_TO_DISABLE))

(* At every moment a trap may run, the mounts and swap areas of the run are *)
(* on record, in every run; in the first one so are the changed host files, *)
(* with whole backups, and the stage files.  (A second start on a machine nobody   *)
(* restored begins with empty records: see the run rerun.)                  *)
THEOREM OwnedAlwaysRecorded ==
    Spec => [](MountsAndSwapsRecorded /\ (run = 1 => OwnedIsRecorded))
    <1>1. SafetyInv => MountsAndSwapsRecorded
        BY DEF SafetyInv, MountInv, Recorded, SwapInv, MountsAndSwapsRecorded
    <1>2. SafetyInv /\ run = 1 => OwnedIsRecorded
        <2> SUFFICES ASSUME SafetyInv, run = 1 PROVE OwnedIsRecorded
            OBVIOUS
        <2>1. \A s \in Spots \ raced : mount[s] \in {"own", "both"} => claim[s]
            BY <1>1 DEF MountsAndSwapsRecorded, Own
        <2>2. \A p \in Parts : swap[p] = "own" => Registered(p, Len(SWAPS_TO_DISABLE))
            BY <1>1 DEF MountsAndSwapsRecorded
        <2>3. DOMAIN SWAPS_TO_DISABLE = 1 .. Len(SWAPS_TO_DISABLE)
            BY DEF SafetyInv, IInv, TypeOK, MountTypeOK
        <2>4. conf # "original" \/ list # "original" => HOST_PACMAN_CHANGED
            BY DEF SafetyInv, HostInv, ChangesFlagged
        <2>5. stage \in {"partial", "full"} => staged
            BY DEF SafetyInv, BootInv, StageInv
        <2> QED
            BY <2>1, <2>2, <2>3, <2>4, <2>5 DEF OwnedIsRecorded, Registered
    <1> QED
        BY <1>1, <1>2, SafetyInvariance, PTL

(* Even after a kill in the middle of a copy, the first run leaves          *)
(* pacman.conf and the mirror list in place or whole in its work directory. *)
THEOREM HostFilesAlwaysRecoverable == Spec => [](run = 1 => HostFilesRecoverable)
    <1>1. SafetyInv /\ run = 1 => HostFilesRecoverable
        BY DEF SafetyInv, HostInv, ChangesFlagged, BackupsWhole, HostFilesRecoverable
    <1> QED
        BY <1>1, SafetyInvariance, PTL

(* In the first run, nothing is fetched over HTTP under the relaxed policy. *)
THEOREM HttpAlwaysVerified == Spec => [](run = 1 => HttpUsesOriginalPolicy)
    <1>1. SafetyInv /\ run = 1 => HttpUsesOriginalPolicy
        BY DEF SafetyInv, HostInv, PolicyOriginal, HttpUsesOriginalPolicy, Relaxed, MainSteps,
           PreparationSteps, WriteSteps
    <1> QED
        BY <1>1, SafetyInvariance, PTL

(* Interrupted at any point of any run, a shim lies beside its signed       *)
(* loader and a signed kernel beside the unsigned original; in the first    *)
(* run the firmware entry names a loader that is there, too.  (A later run  *)
(* that formats the EFI partition leaves the old entry in the firmware.)    *)
THEOREM BootChainAlwaysWhole == Spec => [](ShimsBesideLoaders /\ (run = 1 => BootChainWhole))
    <1>1. SafetyInv => ShimsBesideLoaders /\ (run = 1 => BootChainWhole)
        BY DEF SafetyInv, BootInv, ShimsBesideLoaders, EntryInv, BootChainWhole
    <1> QED
        BY <1>1, SafetyInvariance, PTL

(* In every run, a kept filesystem that is mounted below /mnt or enabled as *)
(* swap by the script was compared by format_partitions and is the one in   *)
(* the plan; and once formatting is over, before the root or anything else  *)
(* is mounted, this holds of every kept filesystem.  (What changes one after *)
(* that comparison is left out, and its siblings listed earlier are         *)
(* formatted before it.)                                                    *)
THEOREM KeptAlwaysIdentified ==
    Spec => [](/\ KeptIsIdentifiedBeforeUse
               /\ \A p \in Parts : Kept(p) /\ (p \in sub \/ swap[p] = "own") => p \in keepSeen
               /\ pc \in AfterFormat =>
                      \A p \in Parts : Kept(p) => p \in keepSeen /\ p \notin keepDrift)
    <1>1. SafetyInv =>
             /\ KeptIsIdentifiedBeforeUse
             /\ \A p \in Parts : Kept(p) /\ (p \in sub \/ swap[p] = "own") => p \in keepSeen
             /\ pc \in AfterFormat =>
                    \A p \in Parts : Kept(p) => p \in keepSeen /\ p \notin keepDrift
        BY DEF SafetyInv, KeepInv, Verified, KeptIsIdentifiedBeforeUse
    <1> QED
        BY <1>1, SafetyInvariance, PTL

(* What every run has to release, and what the first one gives back as well. *)
OwnReleased == /\ \A s \in Spots : ~Own(s)
               /\ sub = {} /\ \A p \in Parts : swap[p] # "own"
               /\ ~workdir

LEMMA OwnIsReleased ==
    SafetyInv /\ pc = "ended" /\ ~cleanup_failed /\ raced = {} => OwnReleased
    <1> SUFFICES ASSUME SafetyInv, pc = "ended", ~cleanup_failed, raced = {} PROVE OwnReleased
        OBVIOUS
    <1>1. \A s \in Spots : ~Own(s)
        BY DEF SafetyInv, MountInv, LeftUnmounted, UnmountedAt
    <1>2. sub = {}
        BY DEF SafetyInv, ReleaseInv, TargetReleased, UnmountedAt, Spots
    <1>3. \A p \in Parts : swap[p] # "own"
        BY DEF SafetyInv, SwapInv, AfterSwaps
    <1>4. ~workdir
        BY DEF SafetyInv, ReleaseInv, WorkDirRemoved
    <1> QED
        BY <1>1, <1>2, <1>3, <1>4 DEF OwnReleased

LEMMA CleanupReleased ==
    SafetyInv /\ run = 1 => ReleasedOrReported
    <1> SUFFICES ASSUME SafetyInv, run = 1, pc = "ended", ~cleanup_failed, raced = {}
                 PROVE  Released
        BY DEF ReleasedOrReported
    <1>1. conf = "original" /\ list = "original"
        BY DEF SafetyInv, HostInv, HostRestored, ConfRestoredAt
    <1>2. stage \in {"none", "empty"} /\ ~payload
        BY DEF SafetyInv, ReleaseInv, TargetReleased, UnmountedAt, IInv, TypeOK, BootTypeOK
    <1> QED
        BY OwnIsReleased, <1>1, <1>2 DEF Released, OwnReleased, Own

(* A cleanup that reports no failure has released every mount, child mount  *)
(* and swap area of its run and removed the work directory; after the first *)
(* run the host files, the stage files and the payloads are back, too.      *)
THEOREM CleanupReleasesOrReports ==
    Spec => [](/\ pc = "ended" /\ ~cleanup_failed /\ raced = {} => OwnReleased
               /\ run = 1 => ReleasedOrReported)
    BY OwnIsReleased, CleanupReleased, SafetyInvariance, PTL

(* In every run, the exit status is 0 only when the main program came to    *)
(* its end (INSTALL_SUCCEEDED, so pacstrap and the chroot script succeeded),*)
(* every planned table, filesystem, boot file and firmware entry has been   *)
(* made, the mirror server has ended and cleanup reported no failure; on a  *)
(* first start everything was released and restored as well.                *)
THEOREM ExitZeroAlwaysMeansInstalled ==
    Spec => [](/\ pc = "ended" /\ status = 0 => INSTALL_SUCCEEDED /\ Installed /\ ~cleanup_failed
               /\ run = 1 => ExitZeroMeansInstalled)
    <1>1. SafetyInv /\ pc = "ended" /\ status = 0
            => INSTALL_SUCCEEDED /\ Installed /\ ~cleanup_failed
        BY DEF SafetyInv, DoneInv
    <1>2. SafetyInv /\ run = 1 => ExitZeroMeansInstalled
        <2> SUFFICES ASSUME SafetyInv, run = 1, pc = "ended", status = 0
                     PROVE  ExitZeroMeansInstalled
            BY DEF ExitZeroMeansInstalled
        <2>1. raced = {} => Released
            BY <1>1, CleanupReleased DEF ReleasedOrReported
        <2>2. /\ \A d \in Disks : Automatic(d) => table[d] = "created"
              /\ \A p \in Parts : ~Kept(p) => content[p] = "formatted"
            BY <1>1, SizesAssumption DEF Installed, TablesMade, PartsMade, Disks, Parts
        <2>3. plan.secure => placed = {BootFiles[k] : k \in DOMAIN BootFiles}
            BY <1>1, BootFilesLength DEF Installed, SafetyInv, IInv, TypeOK, BootTypeOK
        <2> QED
            BY <1>1, <2>1, <2>2, <2>3 DEF ExitZeroMeansInstalled, Installed
    <1> QED
        BY <1>1, <1>2, SafetyInvariance, PTL

-----------------------------------------------------------------------------
(* A mount of somebody else that was there when the script looked is never  *)
(* unmounted by the script, in any run.                                     *)
THEOREM ForeignMountsAlwaysSpared == Spec => ForeignMountsSpared
    <1> DEFINE Spared == \A s \in Spots : Running /\ Foreign(s) /\ ~Foreign(s)' => s \in raced
    <1>1. SafetyInv /\ [Next]_vars => [Spared]_vars
        <2> SUFFICES ASSUME SafetyInv, Next PROVE Spared
            OBVIOUS
        <2>0. mount \in [Spots -> MountStates]
            BY DEF SafetyInv, IInv, TypeOK, MountTypeOK
        <2> USE DEF SafetyInv, Goto, Within, Advance, Die, WithOwn, WithoutTop, controlVars,
                planVars, mountVars, swapVars, hostVars, nginxVars, workVars, bootVars,
                storageVars, cleanupVars, TouchesNothing, TouchesStorage, TouchesMounts,
                TouchesSwaps, TouchesHost, TouchesServer, TouchesWork, TouchesBoot,
                TouchesCleanup, ReleasesMounts, ReleasesFiles, ReleasesSwaps,
                ReleasesServer, ReleasesHost, ReleasesWork
        <2> USE <2>0 DEF Spots, Foreign, MountStates
        <2>1. CASE MountMirror \/ MountProbe \/ Mount \/ SnapshotMount
            BY <2>1 DEF MountMirror, MountProbe, Mount, SnapshotMount
        <2>2. CASE UmountProbe \/ DiscardUmount
            BY <2>2 DEF UmountProbe, DiscardUmount, MountInv, CheckedInMain
        <2>3. CASE PackageActions /\ ~MountMirror
            <3>1. UNCHANGED mount
                BY <2>3 DEF PackageActions, ConfirmPackage, ClaimMirror, BackupConf,
                    BackupList, SetChanged, RankMirrors, StripSigLevel, FileList, Bootstrap,
                    StartNginx, RecordNginx, AwaitNginx, RestorePolicy, HttpList,
                    ResolvePackages, Copied
            <3> QED
                BY <3>1
        <2>4. CASE StorageActions /\ ~MountProbe /\ ~UmountProbe /\ ~Mount
            <3>1. UNCHANGED mount
                BY <2>4 DEF StorageActions, ConfirmSource, MakeWorkDir, Preflight,
                    SkipProbe, ClaimProbe, ReleaseProbe, RemoveProbe, ConfirmDestructive,
                    Recheck, KeepTable, Wipe, WriteTable, AwaitPartitions, CheckKept,
                    BeginFormat, EndFormat, ClaimRoot, SkipSwap, RegisterSwap, SwapOn
            <3> QED
                BY <3>1
        <2>5. CASE StopActions
            <3>1. UNCHANGED mount
                BY <2>5 DEF StopActions, StopKill, StopWait, StopClear, AfterStop
            <3> QED
                BY <3>1
        <2>6. CASE BootActions /\ ~SnapshotMount /\ ~DiscardUmount
            <3>1. UNCHANGED mount
                BY <2>6 DEF BootActions, SnapshotDir, SnapshotClaim, SnapshotFill, Pacstrap,
                    WritePayload, Chroot, Sign, StageFile, RecordStage, CopyStage,
                    CommitStage, ClearRecord, DiscardCheck, DiscardClear, DiscardRmdir,
                    Firmware, RemovePayload, Succeed, Finish
            <3> QED
                BY <3>1
        <2>7. CASE CleanProbe
            <3>1. active["probe"] => "probe" \in raced \/ mount["probe"] = "own"
                BY <2>7 DEF CleanProbe, UmountSpot, MountInv, ActiveIsOwn, InspectedAt
            <3> QED
                BY <2>7, <3>1 DEF CleanProbe, UmountSpot, When, Attempt
        <2>8. CASE CleanMirror
            <3>1. active["mirror"] => "mirror" \in raced \/ mount["mirror"] = "own"
                BY <2>8 DEF CleanMirror, UmountSpot, MountInv, ActiveIsOwn, InspectedAt
            <3> QED
                BY <2>8, <3>1 DEF CleanMirror, UmountSpot, When, Attempt
        <2>9. CASE CleanTarget
            <3>1. active["target"] => "target" \in raced \/ mount["target"] = "own"
                BY <2>9 DEF CleanTarget, UmountSpot, MountInv, ActiveIsOwn, InspectedAt
            <3> QED
                BY <2>9, <3>1 DEF CleanTarget, UmountSpot, When, Attempt
        <2>10. CASE CleanSnapshot
            <3>1. active["snapshot"] => "snapshot" \in raced \/ mount["snapshot"] = "own"
                BY <2>10 DEF CleanSnapshot, UmountSpot, MountInv, ActiveIsOwn, InspectedAt
            <3> QED
                BY <2>10, <3>1 DEF CleanSnapshot, UmountSpot, When, Attempt
        <2>11. CASE CleanupActions /\ ~CleanProbe /\ ~CleanMirror /\ ~CleanTarget /\ ~CleanSnapshot
            <3>1. UNCHANGED mount
                BY <2>11 DEF CleanupActions, InspectProbe, InspectTarget, InspectMirror,
                    InspectSnapshot, CleanStaged, CleanPayload, QuerySwaps, SwapOff,
                    SwapsDone, CleanKill, CleanWait, RestoreConf, RestoreList,
                    RemoveSnapshot, RemoveWorkDir, Exit, Inspect, UmountSpot, When, Attempt,
                    Report
            <3> QED
                BY <3>1
        <2>12. CASE Outside
            BY <2>12 DEF Outside, Abort, Kill, Environment, ForeignMount, ForeignSwapon,
                KeepDrift, DiskDrift, NginxCrashes, NginxExits, Rerun, WithForeign
        <2> QED
            BY <2>1, <2>2, <2>3, <2>4, <2>5, <2>6, <2>7, <2>8, <2>9, <2>10, <2>11,
               <2>12 DEF Next, Main, Outside
    <1>2. Spec => [][Spared]_vars
        BY <1>1, SafetyInvariance, PTL DEF Spec
    <1> QED
        BY <1>2 DEF ForeignMountsSpared

(* rm -rf never descends into the key snapshot or the KEEP probe while      *)
(* something is mounted there that was there when the script looked.        *)
THEOREM NothingEverRemovedThroughMount == Spec => NothingRemovedThroughMount
    <1> DEFINE Safe == /\ Running /\ workdir /\ ~workdir' =>
                            \A s \in {"probe", "snapshot"} \ raced : mount[s] = "none"
                       /\ Running /\ snapshotPath /\ ~snapshotPath' =>
                            "snapshot" \in raced \/ mount["snapshot"] = "none"
    <1>1. SafetyInv /\ [Next]_vars => [Safe]_vars
        <2> SUFFICES ASSUME SafetyInv, Next PROVE Safe
            OBVIOUS
        <2> USE DEF SafetyInv, Goto, Within, Advance, Die, WithOwn, WithoutTop, controlVars,
                planVars, mountVars, swapVars, hostVars, nginxVars, workVars, bootVars,
                storageVars, cleanupVars, TouchesNothing, TouchesStorage, TouchesMounts,
                TouchesSwaps, TouchesHost, TouchesServer, TouchesWork, TouchesBoot,
                TouchesCleanup, ReleasesMounts, ReleasesFiles, ReleasesSwaps,
                ReleasesServer, ReleasesHost, ReleasesWork
        <2>1. CASE PackageActions
            BY <2>1 DEF PackageActions, ConfirmPackage, ClaimMirror, MountMirror,
                BackupConf, BackupList, SetChanged, RankMirrors, StripSigLevel, FileList,
                Bootstrap, StartNginx, RecordNginx, AwaitNginx, RestorePolicy, HttpList,
                ResolvePackages, Copied
        <2>2. CASE StorageActions
            BY <2>2 DEF StorageActions, ConfirmSource, MakeWorkDir, Preflight, SkipProbe,
                ClaimProbe, MountProbe, UmountProbe, ReleaseProbe, RemoveProbe,
                ConfirmDestructive, Recheck, KeepTable, Wipe, WriteTable, AwaitPartitions,
                CheckKept, BeginFormat, EndFormat, ClaimRoot, Mount, SkipSwap, RegisterSwap,
                SwapOn
        <2>3. CASE StopActions \/ BootActions
            BY <2>3 DEF StopActions, StopKill, StopWait, StopClear, AfterStop, BootActions,
                SnapshotDir, SnapshotClaim, SnapshotMount, SnapshotFill, Pacstrap,
                WritePayload, Chroot, Sign, StageFile, RecordStage, CopyStage, CommitStage,
                ClearRecord, DiscardCheck, DiscardUmount, DiscardClear, DiscardRmdir,
                Firmware, RemovePayload, Succeed, Finish
        <2>4. CASE RemoveWorkDir
            <3>1. ~cleanup_failed /\ pc = "c_rm_workdir"
                    => \A s \in {"probe", "snapshot"} \ raced : mount[s] = "none"
                BY DEF MountInv, LeftUnmounted, UnmountedAt, InspectedAt, BeforeInspection,
                    Spots, CleanupSteps
            <3> QED
                BY <2>4, <3>1 DEF RemoveWorkDir, When, Attempt
        <2>5. CASE RemoveSnapshot
            BY <2>5 DEF RemoveSnapshot, When, Attempt, MountInv, SafeToRemove
        <2>6. CASE CleanupActions /\ ~RemoveWorkDir /\ ~RemoveSnapshot
            <3>1. UNCHANGED <<workdir, snapshotPath>>
                BY <2>6 DEF CleanupActions, InspectProbe, CleanProbe, InspectTarget,
                    InspectMirror, InspectSnapshot, CleanStaged, CleanPayload, CleanTarget,
                    QuerySwaps, SwapOff, SwapsDone, CleanKill, CleanWait, CleanMirror,
                    RestoreConf, RestoreList, CleanSnapshot, Exit, Inspect, UmountSpot,
                    When, Attempt, Report
            <3> QED
                BY <3>1
        <2>7. CASE Outside
            BY <2>7 DEF Outside, Abort, Kill, Environment, ForeignMount, ForeignSwapon,
                KeepDrift, DiskDrift, NginxCrashes, NginxExits, Rerun, WithForeign
        <2> QED
            BY <2>1, <2>2, <2>3, <2>4, <2>5, <2>6, <2>7 DEF Next, Main, Outside
    <1>2. Spec => [][Safe]_vars
        BY <1>1, SafetyInvariance, PTL DEF Spec
    <1> QED
        BY <1>2 DEF NothingRemovedThroughMount
=============================================================================
