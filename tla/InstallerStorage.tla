-------------------------- MODULE InstallerStorage --------------------------
(***************************************************************************)
(* Checks, consents and storage writes of main(): preflight, the KEEP probe, *)
(* the destructive confirmation and its recheck, then partition, format,    *)
(* mount and swap (runtime-preflight.sh, runtime-storage-validation.sh,     *)
(* runtime-keep-probe.sh, runtime-partitioning.sh, runtime-filesystems.sh). *)
(***************************************************************************)
EXTENDS InstallerState

Kept(p)     == plan.action[p] = "keep"
AlwaysAutomatic(d) == TRUE   \* existing layouts not skipped
Automatic(d) == plan.mode[d] = "auto"

(* Without verify_disk_identities and verify_existing_partition. *)
StorageIdle == mount["target"] = "none" /\ \A p \in Parts : swap[p] = "off"

(* verify_storage_state: nothing is mounted below /mnt, every disk and      *)
(* partition still matches its record and is idle, and so does every kept   *)
(* filesystem.  A mismatch dies.                                            *)
StorageMatchesPlan ==
    /\ mount["target"] = "none"
    /\ diskDrift = {}
    /\ \A p \in Parts : swap[p] = "off"
    /\ \A p \in Parts : Kept(p) => p \notin keepDrift

-----------------------------------------------------------------------------
(* confirm_secure_boot_package_source and the private work directory. *)
ConfirmSource ==
    /\ Goto("confirm_source", "mktemp")
    /\ TouchesNothing

MakeWorkDir ==
    /\ Goto("mktemp", "preflight") /\ workdir' = TRUE /\ UNCHANGED snapshotPath
    /\ TouchesWork

Preflight ==
    /\ IF StorageMatchesPlan THEN Goto("preflight", "confirm_package") ELSE Die("preflight")
    /\ TouchesNothing

-----------------------------------------------------------------------------
(* probe_kept_filesystems mounts every kept filesystem read-only in turn;   *)
(* a kept swap header is only read.                                         *)
Probed(p) == Kept(p) /\ plan.usage[p] # "swap"

SkipProbe ==
    /\ Advance("probe", "probe", "probe_rmdir", NumParts) /\ ~Probed(idx)
    /\ TouchesNothing

ClaimProbe ==
    /\ Within("probe", "probe_mount") /\ Probed(idx)
    /\ claim' = [claim EXCEPT !["probe"] = TRUE] /\ UNCHANGED <<mount, sub, raced>>
    /\ TouchesMounts

(* mount, then the source findmnt reports must be the probed device. *)
MountProbe ==
    /\ mount' = [mount EXCEPT !["probe"] = WithOwn(@)]
    /\ IF mount["probe"] = "none" THEN Within("probe_mount", "probe_umount")
                                  ELSE Die("probe_mount")
    /\ UNCHANGED <<claim, sub, raced>>
    /\ TouchesMounts

UmountProbe ==
    /\ Within("probe_umount", "probe_release")
    /\ mount' = [mount EXCEPT !["probe"] = WithoutTop(@)]
    /\ UNCHANGED <<claim, sub, raced>>
    /\ TouchesMounts

ReleaseProbe ==
    /\ Advance("probe_release", "probe", "probe_rmdir", NumParts)
    /\ claim' = [claim EXCEPT !["probe"] = FALSE] /\ UNCHANGED <<mount, sub, raced>>
    /\ TouchesMounts

(* rmdir refuses a mountpoint. *)
RemoveProbe ==
    /\ IF mount["probe"] = "none" THEN Goto("probe_rmdir", "confirm_destructive")
                                  ELSE Die("probe_rmdir")
    /\ TouchesNothing

-----------------------------------------------------------------------------
(* CONFIRM EXECUTE, immediately followed by the live-state recheck. *)
ConfirmDestructive ==
    /\ Goto("confirm_destructive", "recheck") /\ consent' = TRUE
    /\ UNCHANGED <<table, content, diskDrift, keepDrift, rechecked, keepSeen>>
    /\ TouchesStorage

Recheck ==
    /\ IF StorageMatchesPlan
       THEN Goto("recheck", "wipe") /\ rechecked' = TRUE
       ELSE Die("recheck") /\ UNCHANGED rechecked
    /\ UNCHANGED <<table, content, diskDrift, keepDrift, consent, keepSeen>>
    /\ TouchesStorage

-----------------------------------------------------------------------------
(* partition_disk: existing layouts are skipped. *)
KeepTable ==
    /\ Advance("wipe", "wipe", "await", NumDisks) /\ ~Automatic(idx)
    /\ TouchesNothing

(* wipefs: the old table is gone, and with it what the partitions held. *)
Wipe ==
    /\ Within("wipe", "write_table") /\ Automatic(idx)
    /\ table' = [table EXCEPT ![idx] = "wiped"]
    /\ content' = [p \in Parts |-> IF plan.disk[p] = idx THEN "gone" ELSE content[p]]
    /\ UNCHANGED <<diskDrift, keepDrift, consent, rechecked, keepSeen>>
    /\ TouchesStorage

(* sfdisk and the kernel's reread of the table. *)
WriteTable ==
    /\ Advance("write_table", "wipe", "await", NumDisks)
    /\ table' = [table EXCEPT ![idx] = "created"]
    /\ UNCHANGED <<content, diskDrift, keepDrift, consent, rechecked, keepSeen>>
    /\ TouchesStorage

(* wait_for_partitions: every created partition is idle, or the script dies. *)
AwaitPartitions ==
    /\ IF \A p \in Parts : Automatic(plan.disk[p]) => swap[p] = "off"
       THEN Goto("await", "format") ELSE Die("await")
    /\ TouchesNothing

-----------------------------------------------------------------------------
(* A kept partition passed by without looking at it. *)
SkipKept ==
    /\ pc = "format" /\ Kept(idx) /\ Advance("format", "format", "claim_root", NumParts)
    /\ TouchesNothing

(* format_partitions rechecks a kept filesystem when the loop reaches it. *)
CheckKept ==
    /\ pc = "format" /\ Kept(idx) /\ keepSeen' = keepSeen \cup {idx}
    /\ IF idx \in keepDrift THEN Die("format")
                            ELSE Advance("format", "format", "claim_root", NumParts)
    /\ UNCHANGED <<table, content, diskDrift, keepDrift, consent, rechecked>>
    /\ TouchesStorage

(* mkfs or mkswap overwrites the old filesystem before the new one is whole; *)
(* boot files and payloads of an earlier run on it are gone.                *)
BeginFormat ==
    /\ Within("format", "mkfs") /\ ~Kept(idx)
    /\ content' = [content EXCEPT ![idx] = "torn"]
    /\ IF plan.usage[idx] = "boot" THEN placed' = {} /\ stage' = "none"
                                   ELSE UNCHANGED <<placed, stage>>
    /\ payload' = (payload /\ plan.usage[idx] # "root")
    /\ UNCHANGED <<staged, entry, INSTALL_SUCCEEDED>>
    /\ UNCHANGED <<table, diskDrift, keepDrift, consent, rechecked, keepSeen>>
    /\ UNCHANGED <<planVars, mountVars, swapVars, hostVars, nginxVars, workVars,
                   cleanupVars>>

EndFormat ==
    /\ Advance("mkfs", "format", "claim_root", NumParts)
    /\ content' = [content EXCEPT ![idx] = "formatted"]
    /\ UNCHANGED <<table, diskDrift, keepDrift, consent, rechecked, keepSeen>>
    /\ TouchesStorage

-----------------------------------------------------------------------------
(* Ownership of /mnt never published. *)
RootNotClaimed ==
    /\ Goto("claim_root", "mount")
    /\ TouchesNothing

(* mount_filesystems: the root record comes first and publishes ownership   *)
(* of /mnt before it is mounted.                                            *)
ClaimRoot ==
    /\ Goto("claim_root", "mount") /\ claim' = [claim EXCEPT !["target"] = TRUE]
    /\ UNCHANGED <<mount, sub, raced>>
    /\ TouchesMounts

Mounted(p) == plan.usage[p] \notin {"swap", "unused"}

Mount ==
    /\ Advance("mount", "mount", "register_swap", NumParts)
    /\ mount' = IF plan.usage[idx] = "root"
                THEN [mount EXCEPT !["target"] = WithOwn(@)] ELSE mount
    /\ sub' = IF Mounted(idx) /\ plan.usage[idx] # "root" THEN sub \cup {idx} ELSE sub
    /\ UNCHANGED <<claim, raced>>
    /\ TouchesMounts

SkipSwap ==
    /\ Advance("register_swap", "register_swap", "pacstrap", NumParts)
    /\ plan.usage[idx] # "swap"
    /\ TouchesNothing

(* Ownership of a swap area is registered before swapon. *)
RegisterSwap ==
    /\ Within("register_swap", "swapon") /\ plan.usage[idx] = "swap"
    /\ SWAPS_TO_DISABLE' = Append(SWAPS_TO_DISABLE, idx) /\ UNCHANGED swap
    /\ TouchesSwaps

(* swapon refuses a device somebody else has activated. *)
SwapOn ==
    /\ pc = "swapon"
    /\ IF swap[idx] = "off"
       THEN /\ Advance("swapon", "register_swap", "pacstrap", NumParts)
            /\ swap' = [swap EXCEPT ![idx] = "own"]
       ELSE Die("swapon") /\ UNCHANGED swap
    /\ UNCHANGED SWAPS_TO_DISABLE
    /\ TouchesSwaps

StorageActions ==
    \/ ConfirmSource \/ MakeWorkDir \/ Preflight
    \/ SkipProbe \/ ClaimProbe \/ MountProbe \/ UmountProbe \/ ReleaseProbe
    \/ RemoveProbe \/ ConfirmDestructive \/ Recheck
    \/ KeepTable \/ Wipe \/ WriteTable \/ AwaitPartitions
    \/ CheckKept \/ BeginFormat \/ EndFormat
    \/ ClaimRoot \/ Mount \/ SkipSwap \/ RegisterSwap \/ SwapOn
=============================================================================
