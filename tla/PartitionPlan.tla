---------------------------- MODULE PartitionPlan ----------------------------
(***************************************************************************)
(* The partition records of an installation plan and the functions of       *)
(* src/model/storage.c that change them: the action a purpose implies, the  *)
(* actions and mount profiles a record accepts, the records of an existing  *)
(* partition table and of a guided layout, and the comparison of a plan     *)
(* with the detected devices.  PurposeIsSound, IdentityIsSound,             *)
(* LayoutMatchesMode and ValidStorage are what src/model/validation.c       *)
(* requires of one record, of one disk and of the plan.                     *)
(*                                                                          *)
(* The identity of a partition (start sector, size, PARTUUID) is one value: *)
(* the code only compares it.  A disk is told by its size, serial number    *)
(* and model.  Sizes of guided partitions are the subject of DiskLayout.    *)
(***************************************************************************)
EXTENDS Integers, Sequences, FiniteSets

CONSTANTS
    Paths,      \* the /dev paths of disks
    DiskSizes, Serials, Models,     \* what a disk is recognised by
    Blank,      \* the serial number or the model is not known
    Idents,     \* identities of partitions
    Uuids,      \* file system UUIDs
    NoIdent,    \* the identity of a partition that does not exist yet
    NoUuid      \* no file system UUID was detected

Filesystems == {"none", "vfat", "ext4", "xfs", "f2fs", "swap"}
Purposes    == {"unused", "root", "boot", "home", "var", "usr", "opt", "swap"}
Actions     == {"keep", "format"}
Profiles    == {"default", "balanced", "compressed"}
GuidedModes == {"auto_root_swap", "auto_home_swap", "auto_root_only", "auto_data"}
Modes       == GuidedModes \cup {"existing"}

DiskIds == [size : DiskSizes, serial : Serials \cup {Blank}, model : Models \cup {Blank}]

DetectedPartition ==
    [number : Nat \ {0}, ident : Idents, esp : BOOLEAN, fs : Filesystems,
     uuid : Uuids \cup {NoUuid}]
DiskInfo ==
    [id : DiskIds, gpt : BOOLEAN, read_only : BOOLEAN, parts : Seq(DetectedPartition)]

PartitionRecord ==
    [number : Nat \ {0}, ident : Idents \cup {NoIdent}, esp : BOOLEAN,
     fs : Filesystems, uuid : Uuids \cup {NoUuid}, planned : BOOLEAN,
     usage : Purposes, action : Actions, target : Filesystems, profile : Profiles]
DiskRecord ==
    [path : Paths, id : DiskIds, gpt : BOOLEAN, mode : Modes, parts : Seq(PartitionRecord)]

-----------------------------------------------------------------------------
(* File systems a mounted system directory may use. *)
Regular(fs) == fs \in {"ext4", "xfs", "f2fs"}

(* What the partition holds once the plan was carried out. *)
Effective(p) == IF p.action = "format" THEN p.target ELSE p.fs

SupportsProfile(p, profile) ==
    /\ p.usage \notin {"unused", "swap"}
    /\ Effective(p) \notin {"none", "swap"}
    /\ profile # "default" => Effective(p) = "f2fs" /\ p.action = "format"

(* The profile survives a change of purpose or file system. *)
KeepProfile(p) == p

WithSupportedProfile(p) ==
    IF SupportsProfile(p, p.profile) THEN p ELSE [p EXCEPT !.profile = "default"]

MayAssign(p, mode) == ~p.planned \/ mode = "auto_data"

(* Every purpose starts with a format. *)
AlwaysFormat(usage, fs) == "format"

(* A directory of a new system is formatted; everything else is kept when   *)
(* its present file system already suits the purpose.                       *)
ActionFor(usage, fs) ==
    IF \/ usage = "boot" /\ fs = "vfat"
       \/ usage = "swap" /\ fs = "swap"
       \/ usage \in {"home", "opt"} /\ Regular(fs)
    THEN "keep" ELSE "format"

TargetFor(usage, fs) ==
    IF ActionFor(usage, fs) = "keep" THEN "none"
    ELSE IF usage = "boot" THEN "vfat"
    ELSE IF usage = "swap" THEN "swap"
    ELSE IF usage \in {"root", "var", "usr"} /\ Regular(fs) THEN fs ELSE "ext4"

Unassigned(p, mode) ==
    IF p.planned /\ mode = "auto_data"
    THEN [p EXCEPT !.usage = "unused", !.profile = "default", !.action = "format",
                   !.target = IF p.target = "none" THEN "ext4" ELSE p.target]
    ELSE [p EXCEPT !.usage = "unused", !.profile = "default", !.action = "keep",
                   !.target = "none"]

AssignUsage(p, mode, usage) ==
    WithSupportedProfile(
        IF usage = "unused" THEN Unassigned(p, mode)
        ELSE [p EXCEPT !.usage = usage, !.action = ActionFor(usage, p.fs),
                       !.target = TargetFor(usage, p.fs)])

FixedRole(p) == p.planned /\ p.usage \in {"boot", "swap"}

KeepAllowed(p) ==
    /\ ~p.planned /\ p.usage \notin {"root", "var", "usr"}
    /\ CASE p.usage = "boot" -> p.fs = "vfat"
         [] p.usage = "swap" -> p.fs = "swap"
         [] OTHER -> Regular(p.fs)

FormatAllowed(p, fs) ==
    CASE p.usage = "boot" -> fs = "vfat"
      [] p.usage = "swap" -> fs = "swap"
      [] OTHER -> Regular(fs) \/ (p.usage = "unused" /\ fs \in {"vfat", "swap"})

ActionAllowed(p, action, fs) ==
    /\ ~FixedRole(p)
    /\ IF action = "keep" THEN fs = "none" /\ KeepAllowed(p) ELSE FormatAllowed(p, fs)

SetAction(p, action, fs) ==
    WithSupportedProfile([p EXCEPT !.action = action,
                                   !.target = IF action = "keep" THEN "none" ELSE fs])

-----------------------------------------------------------------------------
Existing(d) ==
    [number |-> d.number, ident |-> d.ident, esp |-> d.esp, fs |-> d.fs, uuid |-> d.uuid,
     planned |-> FALSE, usage |-> "unused", action |-> "keep", target |-> "none",
     profile |-> "default"]

ExistingParts(disk) == [k \in 1 .. Len(disk.parts) |-> Existing(disk.parts[k])]

(* Partition numbers counted from zero. *)
AutoPartitionFromZero(number, usage, fs) ==
    [number |-> number - 1, ident |-> NoIdent, esp |-> FALSE, fs |-> "none", uuid |-> NoUuid,
     planned |-> TRUE, usage |-> usage, action |-> "format", target |-> fs,
     profile |-> IF fs = "f2fs" THEN "balanced" ELSE "default"]

AutoPartition(number, usage, fs) ==
    [number |-> number, ident |-> NoIdent, esp |-> FALSE, fs |-> "none", uuid |-> NoUuid,
     planned |-> TRUE, usage |-> usage, action |-> "format", target |-> fs,
     profile |-> IF fs = "f2fs" THEN "balanced" ELSE "default"]

AutoBoot == AutoPartition(1, "boot", "vfat")
AutoRoot == AutoPartition(2, "root", "ext4")

GuidedParts(mode) ==
    CASE mode = "auto_data"      -> << AutoPartition(1, "unused", "ext4") >>
      [] mode = "auto_root_only" -> << AutoBoot, AutoRoot >>
      [] mode = "auto_home_swap" -> << AutoBoot, AutoRoot, AutoPartition(3, "home", "ext4"),
                                       AutoPartition(4, "swap", "swap") >>
      [] OTHER                   -> << AutoBoot, AutoRoot, AutoPartition(3, "swap", "swap") >>

UseExisting(d, disk)  == [d EXCEPT !.mode = "existing", !.parts = ExistingParts(disk)]
UseAutomatic(d, mode) == [d EXCEPT !.mode = mode, !.parts = GuidedParts(mode)]

NewDisk(path, disk) ==
    [path |-> path, id |-> disk.id, gpt |-> disk.gpt, mode |-> "existing",
     parts |-> ExistingParts(disk)]

(* The array without its element i, as memmove leaves it. *)
RemoveDiskAt(disks, i) ==
    [k \in 1 .. Len(disks) - 1 |-> IF k < i THEN disks[k] ELSE disks[k + 1]]

Planned(disks) == {disks[k].path : k \in DOMAIN disks}

-----------------------------------------------------------------------------
(* plan_storage_matches_inventory: an inventory maps a path to a sequence   *)
(* that is empty, or holds the disk detected there.                         *)
Ignored(p) == p.usage = "unused" /\ p.action = "keep"

(* What the plan does not know of a disk is not compared. *)
SameIdentity(planned, current) ==
    /\ current.size = planned.size
    /\ planned.serial \in {Blank, current.serial}
    /\ planned.model \in {Blank, current.model}

SamePartition(p, disk) ==
    \E k \in DOMAIN disk.parts :
        LET current == disk.parts[k] IN
        /\ current.number = p.number /\ current.ident = p.ident /\ current.esp = p.esp
        /\ p.action = "keep" => current.fs = p.fs /\ current.uuid = p.uuid

SameDisk(d, disk) ==
    /\ ~disk.read_only /\ SameIdentity(d.id, disk.id)
    /\ d.mode = "existing" =>
          /\ disk.gpt = d.gpt
          /\ \A k \in DOMAIN d.parts : Ignored(d.parts[k]) \/ SamePartition(d.parts[k], disk)

MatchesInventory(disks, inventory) ==
    \A i \in DOMAIN disks :
        LET found == inventory[disks[i].path] IN found # <<>> /\ SameDisk(disks[i], found[1])

-----------------------------------------------------------------------------
(* What validate_plan requires of a record that is not ignored. *)
PurposeIsSound(p, mode) ==
    /\ p.planned => p.action = "format" /\ mode # "existing"
    /\ p.action = "keep" => p.fs # "none"
    /\ p.action = "format" => p.target # "none"
    /\ p.profile # "default" => SupportsProfile(p, p.profile)
    /\ p.usage = "boot" => Effective(p) = "vfat"
    /\ p.usage = "swap" => Effective(p) = "swap"
    /\ p.usage \notin {"unused", "boot", "swap"} => Regular(Effective(p))
    /\ p.usage \in {"root", "var", "usr"} => p.action = "format"

(* A kept file system needs no UUID. *)
IdentityWithoutUuid(p, mode) == mode = "existing" => p.ident # NoIdent /\ (p.usage = "boot" => p.esp)

IdentityIsSound(p, mode) ==
    /\ p.action = "keep" => p.uuid # NoUuid
    /\ mode = "existing" => p.ident # NoIdent /\ (p.usage = "boot" => p.esp)

HasRole(d, usage, number) ==
    \E k \in DOMAIN d.parts : /\ d.parts[k].usage = usage /\ d.parts[k].number = number
                              /\ d.parts[k].planned /\ d.parts[k].action = "format"

LayoutMatchesMode(d) ==
    CASE d.mode = "auto_root_swap" ->
            Len(d.parts) = 3 /\ HasRole(d, "boot", 1) /\ HasRole(d, "root", 2) /\ HasRole(d, "swap", 3)
      [] d.mode = "auto_home_swap" ->
            /\ Len(d.parts) = 4 /\ HasRole(d, "boot", 1) /\ HasRole(d, "root", 2)
            /\ HasRole(d, "home", 3) /\ HasRole(d, "swap", 4)
      [] d.mode = "auto_root_only" ->
            Len(d.parts) = 2 /\ HasRole(d, "boot", 1) /\ HasRole(d, "root", 2)
      [] d.mode = "auto_data" ->
            /\ Len(d.parts) = 1 /\ d.parts[1].number = 1 /\ d.parts[1].planned
            /\ d.parts[1].action = "format" /\ d.parts[1].target # "none"
      [] OTHER -> TRUE

Assigned(disks, usage) ==
    {pair \in UNION {{<<i, k>> : k \in DOMAIN disks[i].parts} : i \in DOMAIN disks} :
        disks[pair[1]].parts[pair[2]].usage = usage}

(* The records the installer has to deal with. *)
Actionable(p) == p.usage # "unused" \/ p.action = "format" \/ p.planned

DisksAreSound(disks) ==
    \A i \in DOMAIN disks :
        /\ IF disks[i].mode = "existing" THEN disks[i].gpt ELSE LayoutMatchesMode(disks[i])
        /\ \A k \in DOMAIN disks[i].parts :
              LET p == disks[i].parts[k] IN
              Actionable(p) => PurposeIsSound(p, disks[i].mode) /\ IdentityIsSound(p, disks[i].mode)

RootBesideBoot(disks) ==
    \E root \in Assigned(disks, "root"), boot \in Assigned(disks, "boot") : root[1] = boot[1]

(* The plan is accepted: validate_plan finds no error in its storage. *)
ValidStorage(disks) ==
    /\ disks # <<>> /\ DisksAreSound(disks) /\ RootBesideBoot(disks)
    /\ \A usage \in Purposes \ {"unused"} : Cardinality(Assigned(disks, usage)) <= 1
=============================================================================
