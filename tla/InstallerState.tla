--------------------------- MODULE InstallerState ---------------------------
(***************************************************************************)
(* The state of one execution of a generated Arch installer script: the    *)
(* plan it carries, the devices it writes, the mounts and swap areas it     *)
(* activates, the Live environment files it changes, the boot files it      *)
(* installs and the script variables of runtime-state.sh that tell cleanup  *)
(* what this run owns.                                                      *)
(*                                                                          *)
(* bash runs a trap only between two simple commands, so one command that   *)
(* changes state is one action.  The modules InstallerPackages,             *)
(* InstallerStorage, InstallerBoot and InstallerCleanup define the actions  *)
(* over these variables; Installer composes them.                           *)
(***************************************************************************)
EXTENDS Integers, Sequences, FiniteSets

CONSTANTS
    NumDisks,   \* length of INSTALL_DISKS
    NumParts,   \* length of the PART_* arrays
    Plans,      \* the plans the builder may have emitted into the script
    MaxRuns     \* how often the operator starts the script of a plan

Disks == 1 .. NumDisks
Parts == 1 .. NumParts

Modes   == {"existing", "auto"}
Actions == {"keep", "format"}
Usages  == {"root", "boot", "mount", "swap", "unused"}

Plan == [local  : BOOLEAN,              \* USE_LOCAL_MIRROR
         secure : BOOLEAN,              \* ENABLE_SECURE_BOOT
         efi    : BOOLEAN,              \* CREATE_EFI_ENTRY
         mode   : [Disks -> Modes],     \* DISK_MODES
         disk   : [Parts -> Disks],     \* PART_DISK_INDEXES
         action : [Parts -> Actions],   \* PART_ACTIONS
         usage  : [Parts -> Usages]]    \* PART_USAGES

(* The root record comes first and is reformatted, a partition without a    *)
(* purpose is only emitted to be formatted, and so are planned partitions.  *)
Emitted(p) ==
    /\ p.usage[1] = "root" /\ p.action[1] = "format"
    /\ \A q \in Parts : q # 1 => p.usage[q] # "root"
    /\ \A q \in Parts : p.usage[q] = "unused" => p.action[q] = "format"
    /\ \A q \in Parts : p.mode[p.disk[q]] = "auto" => p.action[q] = "format"

ASSUME SizesAssumption == NumDisks \in Nat \ {0} /\ NumParts \in Nat \ {0}
ASSUME PlansAssumption == Plans \subseteq Plan /\ \A p \in Plans : Emitted(p)
ASSUME RunsAssumption  == MaxRuns \in [Plans -> Nat \ {0}]

-----------------------------------------------------------------------------
VARIABLES
    plan, run,              \* the plan; how many times the script was started
    pc, idx, status,        \* next command, loop index, exit status
    table, content,         \* partition tables and partition contents
    diskDrift, keepDrift,   \* devices that no longer match the plan's records
    consent, rechecked,     \* history: CONFIRM EXECUTE typed, recheck passed
    keepSeen,               \* history: KEEP records checked by format_partitions
    mount, claim, sub,      \* mounts, ownership flags, mounted child partitions
    swap, SWAPS_TO_DISABLE,
    conf, list,             \* /etc/pacman.conf and mirrorlist of the Live system
    backupConf, backupList, HOST_PACMAN_CHANGED,
    nginx, LOCAL_MIRROR_SERVER_RUNNING,
    workdir, snapshotPath,  \* $WORK_DIR exists, SECURE_BOOT_ASSET_SNAPSHOT set
    placed, stage, staged,  \* boot files installed, stage file, its record
    payload, entry,         \* chroot payloads in the target, firmware entry
    INSTALL_SUCCEEDED,
    cleanup_failed, active, remove_safe, active_swaps,  \* locals of cleanup
    raced                   \* history: foreign mounts after the source check

controlVars == <<pc, idx, status>>
planVars    == <<plan, run>>
storageVars == <<table, content, diskDrift, keepDrift, consent, rechecked, keepSeen>>
mountVars   == <<mount, claim, sub, raced>>
swapVars    == <<swap, SWAPS_TO_DISABLE>>
hostVars    == <<conf, list, backupConf, backupList, HOST_PACMAN_CHANGED>>
nginxVars   == <<nginx, LOCAL_MIRROR_SERVER_RUNNING>>
workVars    == <<workdir, snapshotPath>>
bootVars    == <<placed, stage, staged, payload, entry, INSTALL_SUCCEEDED>>
cleanupVars == <<cleanup_failed, active, remove_safe, active_swaps>>
vars == <<controlVars, planVars, storageVars, mountVars, swapVars, hostVars,
          nginxVars, workVars, bootVars, cleanupVars>>

-----------------------------------------------------------------------------
(* The four mountpoints whose ownership a flag of runtime-state.sh records: *)
(* KEEP_PROBE_ACTIVE, TARGET_MOUNTED, LOCAL_MIRROR_MOUNTED and              *)
(* SECURE_BOOT_SNAPSHOT_MOUNTED.                                            *)
Spots == {"probe", "target", "mirror", "snapshot"}

(* What findmnt --mountpoint reports there: nothing, the source this run    *)
(* mounted, some other source, or both sources stacked.                     *)
MountStates == {"none", "own", "foreign", "both"}

WithOwn(m)     == IF m = "none" THEN "own" ELSE "both"
WithForeign(m) == IF m \in {"own", "both"} THEN "both" ELSE "foreign"
WithoutTop(m)  == IF m = "both" THEN "own" ELSE "none"

(* The shim of the removable path installed before its loader. *)
ShimFirst == <<"kernel.bak", "kernel", "BOOT/BOOTX64", "BOOT/GRUBX64", "ARCH/GRUBX64",
               "BOOT/MMX64", "BOOT/FBX64", "ARCH/MMX64", "ARCH/FBX64", "MOK.cer",
               "ARCH/SHIMX64">>

(* The destinations of sign_secure_boot_assets, in the order it writes them. *)
BootFiles == <<"kernel.bak", "kernel", "BOOT/GRUBX64", "ARCH/GRUBX64", "BOOT/MMX64",
               "BOOT/FBX64", "ARCH/MMX64", "ARCH/FBX64", "MOK.cer", "ARCH/SHIMX64",
               "BOOT/BOOTX64">>

PreparationSteps ==
    {"confirm_source", "mktemp", "preflight", "confirm_package", "claim_mirror",
     "mount_mirror", "backup_conf", "backup_list", "set_changed", "rank", "siglevel",
     "file_list", "bootstrap", "start_nginx", "record_nginx", "await_nginx",
     "restore_conf", "http_list", "resolve", "snapshot_dir", "snapshot_claim",
     "snapshot_mount", "snapshot_fill", "probe", "probe_claim", "probe_mount",
     "probe_umount", "probe_release", "probe_rmdir", "confirm_destructive", "recheck"}
WriteSteps ==
    {"wipe", "write_table", "await", "format", "mkfs", "claim_root", "mount", "register_swap",
     "swapon", "pacstrap", "write_payload", "chroot", "stop_kill", "stop_wait", "stop_clear",
     "sign", "stage", "stage_record", "stage_copy", "stage_commit", "stage_clear",
     "discard_check", "discard_umount", "discard_clear", "discard_rmdir", "firmware",
     "rm_payload", "succeed", "done"}
MainSteps == PreparationSteps \cup WriteSteps
CleanupSteps ==
    {"c_probe", "c_probe_umount", "c_target", "c_mirror", "c_snapshot", "c_staged",
     "c_payload", "c_umount_target", "c_swaps", "c_swapoff", "c_kill", "c_wait",
     "c_umount_mirror", "c_restore_conf", "c_restore_list", "c_umount_snapshot",
     "c_rm_snapshot", "c_rm_workdir", "c_exit"}
Stopped == {"ended", "killed"}

(* "stripped" is a pacman.conf with SigLevel = Never; "torn" a file whose   *)
(* copy was cut short.                                                      *)
ConfValues == {"original", "stripped", "torn"}
ListValues == {"original", "file", "http", "ranked", "torn"}

ControlTypeOK ==
    /\ plan \in Plans /\ run \in 1 .. MaxRuns[plan]
    /\ pc \in MainSteps \cup CleanupSteps \cup Stopped
    /\ idx \in Nat /\ status \in {0, 1}
StorageTypeOK ==
    /\ table \in [Disks -> {"original", "wiped", "created"}]
    /\ content \in [Parts -> {"original", "gone", "torn", "formatted"}]
    /\ diskDrift \subseteq Disks /\ keepDrift \subseteq Parts /\ keepSeen \subseteq Parts
    /\ consent \in BOOLEAN /\ rechecked \in BOOLEAN
MountTypeOK ==
    /\ mount \in [Spots -> MountStates] /\ claim \in [Spots -> BOOLEAN]
    /\ sub \subseteq Parts /\ raced \subseteq Spots
    /\ swap \in [Parts -> {"off", "own", "foreign"}] /\ SWAPS_TO_DISABLE \in Seq(Parts)
HostTypeOK ==
    /\ conf \in ConfValues /\ backupConf \in ConfValues \cup {"none"}
    /\ list \in ListValues /\ backupList \in ListValues \cup {"none"}
    /\ HOST_PACMAN_CHANGED \in BOOLEAN
    /\ nginx \in {"none", "running", "stopping", "stopped", "failed", "reaped"}
    /\ LOCAL_MIRROR_SERVER_RUNNING \in BOOLEAN
BootTypeOK ==
    /\ workdir \in BOOLEAN /\ snapshotPath \in BOOLEAN
    /\ placed \subseteq {BootFiles[k] : k \in DOMAIN BootFiles}
    /\ stage \in {"none", "empty", "partial", "full"} /\ staged \in BOOLEAN
    /\ payload \in BOOLEAN /\ entry \in BOOLEAN /\ INSTALL_SUCCEEDED \in BOOLEAN
CleanupTypeOK ==
    /\ cleanup_failed \in BOOLEAN /\ active \in [Spots -> BOOLEAN]
    /\ remove_safe \in BOOLEAN /\ active_swaps \subseteq Parts

TypeOK == /\ ControlTypeOK /\ StorageTypeOK /\ MountTypeOK
          /\ HostTypeOK /\ BootTypeOK /\ CleanupTypeOK

(* The values of runtime-state.sh, and the locals of cleanup. *)
ScriptStart ==
    /\ pc = "confirm_source" /\ idx = 1 /\ status = 0
    /\ consent = FALSE /\ rechecked = FALSE /\ keepSeen = {}
    /\ claim = [s \in Spots |-> FALSE] /\ SWAPS_TO_DISABLE = <<>>
    /\ backupConf = "none" /\ backupList = "none" /\ HOST_PACMAN_CHANGED = FALSE
    /\ LOCAL_MIRROR_SERVER_RUNNING = FALSE
    /\ workdir = FALSE /\ snapshotPath = FALSE /\ staged = FALSE
    /\ INSTALL_SUCCEEDED = FALSE
    /\ cleanup_failed = FALSE /\ active = [s \in Spots |-> FALSE]
    /\ remove_safe = TRUE /\ active_swaps = {}

(* The machine on which the script is started for the first time. *)
FreshMachine ==
    /\ table = [d \in Disks |-> "original"] /\ content = [p \in Parts |-> "original"]
    /\ diskDrift = {} /\ keepDrift = {} /\ raced = {}
    /\ mount = [s \in Spots |-> "none"] /\ sub = {} /\ swap = [p \in Parts |-> "off"]
    /\ conf = "original" /\ list = "original" /\ nginx = "none"
    /\ placed = {} /\ stage = "none" /\ payload = FALSE /\ entry = FALSE

Init == plan \in Plans /\ run = 1 /\ ScriptStart /\ FreshMachine

-----------------------------------------------------------------------------
(* Frames: what a step may change besides the next command. *)
TouchesNothing == UNCHANGED <<planVars, storageVars, mountVars, swapVars, hostVars,
    nginxVars, workVars, bootVars, cleanupVars>>
TouchesStorage == UNCHANGED <<planVars, mountVars, swapVars, hostVars, nginxVars,
    workVars, bootVars, cleanupVars>>
TouchesMounts == UNCHANGED <<planVars, storageVars, swapVars, hostVars, nginxVars,
    workVars, bootVars, cleanupVars>>
TouchesSwaps == UNCHANGED <<planVars, storageVars, mountVars, hostVars, nginxVars,
    workVars, bootVars, cleanupVars>>
TouchesHost == UNCHANGED <<planVars, storageVars, mountVars, swapVars, nginxVars,
    workVars, bootVars, cleanupVars>>
TouchesServer == UNCHANGED <<planVars, storageVars, mountVars, swapVars, hostVars,
    workVars, bootVars, cleanupVars>>
TouchesWork == UNCHANGED <<planVars, storageVars, mountVars, swapVars, hostVars,
    nginxVars, bootVars, cleanupVars>>
TouchesBoot == UNCHANGED <<planVars, storageVars, mountVars, swapVars, hostVars,
    nginxVars, workVars, cleanupVars>>
TouchesCleanup == UNCHANGED <<planVars, storageVars, mountVars, swapVars, hostVars,
    nginxVars, workVars, bootVars>>

(* A release of cleanup may change the resource and cleanup_failed. *)
ReleasesMounts == UNCHANGED <<planVars, storageVars, swapVars, hostVars, nginxVars,
    workVars, bootVars, active, remove_safe, active_swaps>>
ReleasesFiles == UNCHANGED <<planVars, storageVars, mountVars, swapVars, hostVars,
    nginxVars, workVars, active, remove_safe, active_swaps>>
ReleasesSwaps == UNCHANGED <<planVars, storageVars, mountVars, hostVars, nginxVars,
    workVars, bootVars, active, remove_safe, active_swaps>>
ReleasesServer == UNCHANGED <<planVars, storageVars, mountVars, swapVars, hostVars,
    workVars, bootVars, active, remove_safe, active_swaps>>
ReleasesHost == UNCHANGED <<planVars, storageVars, mountVars, swapVars, nginxVars,
    workVars, bootVars, active, remove_safe, active_swaps>>
ReleasesWork == UNCHANGED <<planVars, storageVars, mountVars, swapVars, hostVars,
    nginxVars, bootVars, active, remove_safe, active_swaps>>

(* Moving to the next command; the loop index restarts between loops. *)
Goto(from, to) == pc = from /\ pc' = to /\ idx' = 1 /\ UNCHANGED status

(* Moving on within the body of one loop iteration. *)
Within(from, to) == pc = from /\ pc' = to /\ UNCHANGED <<idx, status>>

(* Leaving one iteration: back to the loop head, or past the loop. *)
Advance(from, head, past, last) ==
    /\ pc = from /\ UNCHANGED status
    /\ IF idx < last THEN pc' = head /\ idx' = idx + 1
                     ELSE pc' = past /\ idx' = 1

(* die, or a failing command under set -e: the EXIT trap enters cleanup. *)
Die(from) == pc = from /\ pc' = "c_probe" /\ idx' = 1 /\ status' = 1
=============================================================================
