------------------------- MODULE StoragePageProofs -------------------------
(***************************************************************************)
(* Proofs about the Storage page: whatever the operator types, on any       *)
(* devices, the records it builds are records validate_plan accepts.        *)
(***************************************************************************)
EXTENDS StoragePage, TLAPS

(* Dropping an unsupported profile keeps a record, all its other fields,    *)
(* and makes it sound if its purpose, action and target are.                *)
SoundButProfile(p, mode) ==
    RecordIsSound([p EXCEPT !.profile = "default"], mode)

(* A record that is ignored has no profile to lose when it is used again.   *)
ProfileFits(p) == p.profile # "default" => SupportsProfile(p, p.profile)

LEMMA ProfileDropped ==
    ASSUME NEW p \in PartitionRecord, NEW mode \in Modes, SoundButProfile(p, mode)
    PROVE  /\ WithSupportedProfile(p) \in PartitionRecord
           /\ RecordIsSound(WithSupportedProfile(p), mode)
           /\ ProfileFits(WithSupportedProfile(p))
           /\ \E profile \in Profiles : WithSupportedProfile(p) = [p EXCEPT !.profile = profile]
<1>1. CASE SupportsProfile(p, p.profile)
  <2>1. WithSupportedProfile(p) = p /\ p = [p EXCEPT !.profile = p.profile] /\ p.profile \in Profiles
    BY <1>1 DEF WithSupportedProfile, PartitionRecord
  <2>2. RecordIsSound(p, mode)
    BY <1>1 DEF SoundButProfile, RecordIsSound, Ignored, PurposeIsSound, SupportsProfile,
                Effective, PartitionRecord
  <2>3. QED
    BY <1>1, <2>1, <2>2 DEF ProfileFits
<1>2. CASE ~SupportsProfile(p, p.profile)
  BY <1>2 DEF WithSupportedProfile, SoundButProfile, PartitionRecord, Profiles, ProfileFits
<1>3. QED
  BY <1>1, <1>2

(* The functions of model/storage.c yield sound records. *)
LEMMA AssignedIsSound ==
    ASSUME NEW p \in PartitionRecord, NEW mode \in Modes, NEW usage \in Purposes,
           MayAssign(p, mode), p.planned => p.fs = "none"
    PROVE  /\ AssignUsage(p, mode, usage) \in PartitionRecord
           /\ RecordIsSound(AssignUsage(p, mode, usage), mode)
           /\ ProfileFits(AssignUsage(p, mode, usage))
           /\ AssignUsage(p, mode, usage).planned = p.planned
           /\ AssignUsage(p, mode, usage).number = p.number
           /\ AssignUsage(p, mode, usage).fs = p.fs
<1> DEFINE q == IF usage = "unused" THEN Unassigned(p, mode)
                ELSE [p EXCEPT !.usage = usage, !.action = ActionFor(usage, p.fs),
                               !.target = TargetFor(usage, p.fs)]
<1>1. p.planned => mode = "auto_data"
  BY DEF MayAssign
<1>2. /\ q \in PartitionRecord
      /\ q.planned = p.planned /\ q.number = p.number /\ q.fs = p.fs /\ q.usage = usage
  <2>1. CASE usage = "unused" /\ p.planned /\ mode = "auto_data"
    <3> DEFINE t == IF p.target = "none" THEN "ext4" ELSE p.target
    <3>1. t \in Filesystems
      BY DEF PartitionRecord, Filesystems
    <3>2. q = [p EXCEPT !.usage = "unused", !.profile = "default", !.action = "format",
                        !.target = t]
      BY <2>1 DEF Unassigned
    <3> HIDE DEF t
    <3>3. QED
      BY ZenonT(60), <2>1, <3>1, <3>2 DEF PartitionRecord, Purposes, Actions, Profiles
  <2>2. CASE usage = "unused" /\ ~(p.planned /\ mode = "auto_data")
    <3>1. q = [p EXCEPT !.usage = "unused", !.profile = "default", !.action = "keep",
                        !.target = "none"]
      BY <2>2, Zenon DEF Unassigned
    <3> HIDE DEF q
    <3>2. QED
      BY ZenonT(60), <2>2, <3>1 DEF PartitionRecord, Purposes, Actions, Profiles, Filesystems
  <2>3. CASE usage # "unused"
    <3>1. ActionFor(usage, p.fs) \in Actions /\ TargetFor(usage, p.fs) \in Filesystems
      BY DEF ActionFor, TargetFor, Actions, Filesystems, PartitionRecord
    <3>2. QED
      BY <2>3, <3>1 DEF PartitionRecord
  <2>4. QED
    BY <2>1, <2>2, <2>3
<1>3. usage = "unused" =>
        IF p.planned THEN q.action = "format" /\ q.target # "none"
        ELSE q.action = "keep" /\ q.target = "none"
  BY <1>1 DEF Unassigned, PartitionRecord, Filesystems
<1>4. usage # "unused" => q.action = ActionFor(usage, p.fs) /\ q.target = TargetFor(usage, p.fs)
  BY DEF PartitionRecord
<1> HIDE DEF q
<1>5. SoundButProfile(q, mode)
  <2> DEFINE d == [q EXCEPT !.profile = "default"]
  <2>1. /\ d.planned = p.planned /\ d.fs = p.fs /\ d.usage = usage /\ d.profile = "default"
        /\ d.action = q.action /\ d.target = q.target
    BY <1>2 DEF PartitionRecord
  <2> HIDE DEF d
  <2>2. RecordIsSound(d, mode)
    <3>1. CASE usage = "unused"
      BY <1>1, <1>3, <2>1, <3>1 DEF RecordIsSound, Ignored, PurposeIsSound
    <3>2. CASE usage # "unused"
      BY <1>1, <1>4, <2>1, <3>2 DEF RecordIsSound, PurposeIsSound, Effective, ActionFor,
         TargetFor, Regular, Purposes, PartitionRecord
    <3>3. QED
      BY <3>1, <3>2
  <2>3. QED
    BY <2>2 DEF SoundButProfile, d
<1>6. AssignUsage(p, mode, usage) = WithSupportedProfile(q)
  BY DEF AssignUsage, q
<1>7. QED
  BY <1>2, <1>5, <1>6, ProfileDropped DEF PartitionRecord

LEMMA SetActionIsSound ==
    ASSUME NEW p \in PartitionRecord, NEW mode \in Modes, NEW action \in Actions,
           NEW fs \in Filesystems, RecordIsSound(p, mode), ActionAllowed(p, action, fs)
    PROVE  /\ SetAction(p, action, fs) \in PartitionRecord
           /\ RecordIsSound(SetAction(p, action, fs), mode)
           /\ ProfileFits(SetAction(p, action, fs))
           /\ SetAction(p, action, fs).planned = p.planned
           /\ SetAction(p, action, fs).number = p.number
           /\ SetAction(p, action, fs).usage = p.usage
           /\ SetAction(p, action, fs).fs = p.fs
           /\ SetAction(p, action, fs).action = action
           /\ action = "format" => SetAction(p, action, fs).target # "none"
<1> DEFINE target == IF action = "keep" THEN "none" ELSE fs
           q == [p EXCEPT !.action = action, !.target = target]
<1>1. /\ q \in PartitionRecord /\ q.action = action /\ q.target = target
      /\ q.planned = p.planned /\ q.number = p.number /\ q.fs = p.fs /\ q.usage = p.usage
  BY DEF PartitionRecord, Filesystems, Actions
<1>2. action = "format" => fs # "none"
  BY DEF ActionAllowed, FormatAllowed, Regular
<1> HIDE DEF q
<1>3. SoundButProfile(q, mode)
  <2> DEFINE d == [q EXCEPT !.profile = "default"]
  <2>1. /\ d.planned = p.planned /\ d.fs = p.fs /\ d.usage = p.usage /\ d.profile = "default"
        /\ d.action = action /\ d.target = target
    BY <1>1 DEF PartitionRecord
  <2> HIDE DEF d
  <2>2. p.planned => mode # "existing"
    BY DEF RecordIsSound, PurposeIsSound
  <2>3. RecordIsSound(d, mode)
    <3>1. CASE action = "keep"
      BY <2>1, <2>2, <3>1 DEF RecordIsSound, Ignored, PurposeIsSound, ActionAllowed,
         KeepAllowed, Regular, Effective
    <3>2. CASE action = "format"
      BY <1>2, <2>1, <2>2, <3>2 DEF RecordIsSound, PurposeIsSound, ActionAllowed,
         FormatAllowed, Regular, Effective
    <3>3. QED
      BY <3>1, <3>2 DEF Actions
  <2>4. QED
    BY <2>3 DEF SoundButProfile, d
<1>4. SetAction(p, action, fs) = WithSupportedProfile(q)
  BY DEF SetAction, q
<1>5. QED
  BY <1>1, <1>2, <1>3, <1>4, ProfileDropped DEF PartitionRecord

LEMMA ProfileIsSound ==
    ASSUME NEW p \in PartitionRecord, NEW mode \in Modes, NEW profile \in Profiles,
           RecordIsSound(p, mode), SupportsProfile(p, profile)
    PROVE  /\ [p EXCEPT !.profile = profile] \in PartitionRecord
           /\ RecordIsSound([p EXCEPT !.profile = profile], mode)
           /\ ProfileFits([p EXCEPT !.profile = profile])
  BY DEF PartitionRecord, Modes, Purposes, Actions, Profiles, Filesystems, ProfileFits,
         SupportsProfile, Effective, RecordIsSound, Ignored, PurposeIsSound, Regular
-----------------------------------------------------------------------------
(* One disk of the plan, and what keeps it good. *)
GoodDisk(d) ==
    /\ d \in DiskRecord /\ LayoutMatchesMode(d)
    /\ \A k \in DOMAIN d.parts : /\ RecordIsSound(d.parts[k], d.mode)
                                 /\ ProfileFits(d.parts[k])
                                 /\ d.parts[k].planned => d.parts[k].fs = "none"

LEMMA ExistingPartsType ==
    ASSUME NEW disk \in DiskInfo
    PROVE  /\ ExistingParts(disk) \in Seq(PartitionRecord)
           /\ \A k \in DOMAIN ExistingParts(disk) :
                 /\ Ignored(ExistingParts(disk)[k]) /\ ~ExistingParts(disk)[k].planned
                 /\ ProfileFits(ExistingParts(disk)[k])
<1>1. disk.parts \in Seq(DetectedPartition)
  BY DEF DiskInfo
<1>2. \A k \in 1 .. Len(disk.parts) :
        /\ Existing(disk.parts[k]) \in PartitionRecord
        /\ Ignored(Existing(disk.parts[k])) /\ ~Existing(disk.parts[k]).planned
        /\ ProfileFits(Existing(disk.parts[k]))
  <2>1. TAKE k \in 1 .. Len(disk.parts)
  <2>2. disk.parts[k] \in DetectedPartition
    BY <1>1
  <2>3. QED
    BY <2>2 DEF Existing, DetectedPartition, PartitionRecord, Purposes, Actions, Filesystems,
                Profiles, Ignored, ProfileFits
<1>3. QED
  BY <1>1, <1>2 DEF ExistingParts

LEMMA ExistingIsGood ==
    ASSUME NEW d \in DiskRecord, NEW disk \in DiskInfo,
           d.mode = "existing", d.parts = ExistingParts(disk)
    PROVE  GoodDisk(d)
<1>1. LayoutMatchesMode(d)
  BY DEF LayoutMatchesMode
<1>2. QED
  BY <1>1, ExistingPartsType DEF GoodDisk, RecordIsSound

LEMMA UsedIsGood ==
    ASSUME NEW d \in DiskRecord, NEW disk \in DiskInfo PROVE GoodDisk(UseExisting(d, disk))
<1> DEFINE e == UseExisting(d, disk)
<1>1. e \in DiskRecord /\ e.mode = "existing" /\ e.parts = ExistingParts(disk)
  BY ExistingPartsType DEF UseExisting, DiskRecord, Modes
<1>2. QED
  BY <1>1, ExistingIsGood

LEMMA NewIsGood ==
    ASSUME NEW path \in Paths, NEW disk \in DiskInfo PROVE GoodDisk(NewDisk(path, disk))
<1> DEFINE e == NewDisk(path, disk)
<1>1. e \in DiskRecord /\ e.mode = "existing" /\ e.parts = ExistingParts(disk)
  BY ExistingPartsType DEF NewDisk, DiskRecord, DiskInfo, Modes
<1>2. QED
  BY <1>1, ExistingIsGood

LEMMA AutomaticIsGood ==
    ASSUME NEW d \in DiskRecord, NEW mode \in GuidedModes
    PROVE  GoodDisk(UseAutomatic(d, mode))
<1> DEFINE parts == GuidedParts(mode)
<1>1. \A number \in Nat \ {0}, usage \in Purposes, fs \in {"vfat", "ext4", "swap"} :
        LET p == AutoPartition(number, usage, fs) IN
        /\ p \in PartitionRecord /\ p.planned /\ p.fs = "none" /\ p.action = "format"
        /\ p.number = number /\ p.usage = usage /\ p.target = fs /\ p.profile = "default"
  BY DEF AutoPartition, PartitionRecord, Purposes, Actions, Filesystems, Profiles
<1>2. /\ parts \in Seq(PartitionRecord)
      /\ \A k \in DOMAIN parts :
            /\ parts[k].planned /\ parts[k].fs = "none" /\ parts[k].action = "format"
            /\ PurposeIsSound(parts[k], mode) /\ ProfileFits(parts[k])
  <2>1. CASE mode = "auto_data"
    BY <1>1, <2>1 DEF GuidedParts, PurposeIsSound, Effective, Regular,
       Purposes, ProfileFits
  <2>2. CASE mode = "auto_root_only"
    BY <1>1, <2>2 DEF GuidedParts, AutoBoot, AutoRoot, PurposeIsSound, Effective, Regular,
       Purposes, ProfileFits
  <2>3. CASE mode = "auto_home_swap"
    BY <1>1, <2>3 DEF GuidedParts, AutoBoot, AutoRoot, PurposeIsSound, Effective, Regular,
       Purposes, ProfileFits
  <2>4. CASE mode = "auto_root_swap"
    BY <1>1, <2>4 DEF GuidedParts, AutoBoot, AutoRoot, PurposeIsSound, Effective, Regular,
       Purposes, ProfileFits
  <2>5. QED
    BY <2>1, <2>2, <2>3, <2>4 DEF GuidedModes
<1> DEFINE e == UseAutomatic(d, mode)
<1>3. e \in DiskRecord /\ e.mode = mode /\ e.parts = parts
  BY <1>2 DEF UseAutomatic, DiskRecord, Modes
<1>4. LayoutMatchesMode(e)
  <2>1. CASE mode = "auto_data"
    BY <1>1, <1>3, <2>1 DEF GuidedParts, LayoutMatchesMode, Purposes
  <2>2. CASE mode = "auto_root_only"
    BY <1>1, <1>3, <2>2 DEF GuidedParts, AutoBoot, AutoRoot, LayoutMatchesMode, HasRole, Purposes
  <2>3. CASE mode = "auto_home_swap"
    BY <1>1, <1>3, <2>3 DEF GuidedParts, AutoBoot, AutoRoot, LayoutMatchesMode, HasRole, Purposes
  <2>4. CASE mode = "auto_root_swap"
    BY <1>1, <1>3, <2>4 DEF GuidedParts, AutoBoot, AutoRoot, LayoutMatchesMode, HasRole, Purposes
  <2>5. QED
    BY <2>1, <2>2, <2>3, <2>4 DEF GuidedModes
<1>5. QED
  BY <1>2, <1>3, <1>4 DEF GoodDisk, RecordIsSound

(* A record may be replaced by a sound one with the same number and origin, *)
(* and in a guided layout with the same purpose.                            *)
LEMMA ReplacedIsGood ==
    ASSUME NEW d, GoodDisk(d), NEW k \in DOMAIN d.parts, NEW q \in PartitionRecord,
           RecordIsSound(q, d.mode), ProfileFits(q), q.number = d.parts[k].number,
           q.planned = d.parts[k].planned, q.fs = d.parts[k].fs,
           q.planned => q.usage = d.parts[k].usage \/ d.mode = "auto_data"
    PROVE  GoodDisk([d EXCEPT !.parts[k] = q])
<1> DEFINE e == [d EXCEPT !.parts[k] = q]
<1>1. d.parts \in Seq(PartitionRecord) /\ d.mode \in Modes /\ d \in DiskRecord
  BY DEF GoodDisk, DiskRecord
<1>2. /\ e.parts = [d.parts EXCEPT ![k] = q] /\ e.mode = d.mode
      /\ DOMAIN e.parts = DOMAIN d.parts /\ Len(e.parts) = Len(d.parts)
      /\ e.parts \in Seq(PartitionRecord) /\ e.parts[k] = q
      /\ \A j \in DOMAIN d.parts : j # k => e.parts[j] = d.parts[j]
  BY <1>1 DEF DiskRecord
<1>3. e \in DiskRecord
  BY <1>1, <1>2 DEF DiskRecord
<1> HIDE DEF e
<1>4. \A j \in DOMAIN e.parts : /\ RecordIsSound(e.parts[j], e.mode)
                               /\ ProfileFits(e.parts[j])
                               /\ e.parts[j].planned => e.parts[j].fs = "none"
  BY <1>2 DEF GoodDisk
<1>5. q.planned => q.action = "format" /\ q.target # "none"
  BY DEF RecordIsSound, PurposeIsSound
<1>6. d.mode # "auto_data" =>
        \A usage, number : HasRole(d, usage, number) => HasRole(e, usage, number)
  BY <1>2, <1>5 DEF HasRole
<1>7. LayoutMatchesMode(e)
  <2>1. CASE d.mode = "auto_data"
    BY <1>1, <1>2, <1>5, <2>1 DEF GoodDisk, LayoutMatchesMode
  <2>2. CASE d.mode # "auto_data"
    BY <1>2, <1>6, <2>2 DEF GoodDisk, LayoutMatchesMode
  <2>3. QED
    BY <2>1, <2>2
<1>8. QED
  BY <1>3, <1>4, <1>7 DEF GoodDisk, e

-----------------------------------------------------------------------------
(* The inductive invariant: records and layouts are sound disk by disk,     *)
(* the selection is in the plan, and the flag covers the disks' identity.   *)
PageInv ==
    /\ PageTypeOK
    /\ \A i \in DOMAIN disks : GoodDisk(disks[i])
    /\ SelectionInPlan
    /\ FlagCoversDisks

Confirmations == {"nothing", "disk", "layout", "reload", "cfdisk", "keep", "format",
                  "purpose", "profile"}

LEMMA PageInitInv == PageInit => PageInv
<1> SUFFICES ASSUME PageInit PROVE PageInv
  OBVIOUS
<1>1. disks = <<>> /\ disks \in Seq(DiskRecord) /\ Len(disks) = 0 /\ DOMAIN disks = {}
  BY DEF PageInit
<1>2. PageTypeOK
  <2>1. /\ world \in Inventory /\ inventory \in Inventory /\ active_disk \in Nat \ {0}
        /\ row \in Nat /\ target_identity_matches \in BOOLEAN /\ dirty \in BOOLEAN
        /\ confirmed \in Confirmations
    <3>1. world \in Inventory /\ inventory \in Inventory
      BY Zenon DEF PageInit
    <3>2. active_disk = 1 /\ row = 1 /\ confirmed = "nothing"
      BY Zenon DEF PageInit
    <3>3. target_identity_matches = TRUE /\ dirty = FALSE
      BY Zenon DEF PageInit
    <3>4. target_identity_matches \in BOOLEAN /\ dirty \in BOOLEAN
      BY <3>3, Zenon
    <3>5. active_disk \in Nat \ {0} /\ row \in Nat /\ confirmed \in Confirmations
      BY <3>2 DEF Confirmations
    <3>6. QED
      BY <3>1, <3>4, <3>5, Zenon
  <2>2. Len(disks) <= MaxDisks
    BY <1>1, MaxDisksAssumption
  <2>3. QED
    BY <1>1, <2>1, <2>2 DEF PageTypeOK, Confirmations
<1>3. /\ \A i \in DOMAIN disks : GoodDisk(disks[i])
      /\ SelectionInPlan /\ FlagCoversDisks
  BY <1>1, Zenon DEF SelectionInPlan, FlagCoversDisks
<1>4. QED
  BY <1>2, <1>3 DEF PageInv

(* A plan that matches an inventory has its disks there. *)
LEMMA MatchCovers ==
    ASSUME NEW plan, NEW found, MatchesInventory(plan, found)
    PROVE  \A i \in DOMAIN plan : /\ found[plan[i].path] # <<>>
                                  /\ SameIdentity(plan[i].id, found[plan[i].path][1].id)
                                  /\ ~found[plan[i].path][1].read_only
  BY DEF MatchesInventory, SameDisk

LEMMA MatchIsBoolean == \A plan, found : MatchesInventory(plan, found) \in BOOLEAN
  BY DEF MatchesInventory

LEMMA FoundIsDisk ==
    ASSUME NEW found \in Detected, found # <<>>
    PROVE  found[1] \in DiskInfo
  BY DevicesAssumption DEF Detected

(* What remains to be shown of a key that changes the plan ...              *)
LEMMA PlanChanged ==
    ASSUME PageInv, disks' \in Seq(DiskRecord), Len(disks') <= MaxDisks,
           \A i \in DOMAIN disks' : GoodDisk(disks'[i]),
           world' \in Inventory, inventory' \in Inventory,
           active_disk' \in Nat \ {0}, row' \in Nat, dirty' \in BOOLEAN,
           confirmed' \in Confirmations, target_identity_matches' \in BOOLEAN,
           SelectionInPlan', FlagCoversDisks'
    PROVE  PageInv'
<1>1. PageTypeOK'
  BY DEF PageTypeOK, Confirmations
<1>2. QED
  BY <1>1 DEF PageInv

(* ... and the part the comparison with the inventory settles. *)
LEMMA ComparedCovers ==
    ASSUME Recompared PROVE target_identity_matches' \in BOOLEAN /\ FlagCoversDisks'
<1>1. target_identity_matches' = MatchesInventory(disks', inventory')
  BY DEF Recompared
<1>2. target_identity_matches' \in BOOLEAN
  BY <1>1, MatchIsBoolean
<1>3. FlagCoversDisks'
  <2> SUFFICES ASSUME target_identity_matches'
               PROVE  \A i \in DOMAIN disks' : /\ inventory'[disks'[i].path] # <<>>
                                               /\ SameIdentity(disks'[i].id, inventory'[disks'[i].path][1].id)
                                               /\ ~inventory'[disks'[i].path][1].read_only
    BY DEF FlagCoversDisks
  <2>1. MatchesInventory(disks', inventory')
    BY <1>1
  <2>2. QED
    BY <2>1, MatchCovers
<1>4. QED
  BY <1>2, <1>3

(* A flag that is left alone stays right when no planned disk changes its   *)
(* path or identity.                                                        *)
LEMMA KeptCovers ==
    ASSUME PageInv, UNCHANGED <<inventory, target_identity_matches>>,
           \A i \in DOMAIN disks' : /\ i \in DOMAIN disks /\ disks'[i].path = disks[i].path
                                    /\ disks'[i].id = disks[i].id
    PROVE  target_identity_matches' \in BOOLEAN /\ FlagCoversDisks'
  BY DEF PageInv, PageTypeOK, FlagCoversDisks

(* Replacing the active disk by a good one. *)
LEMMA ActiveReplaced ==
    ASSUME PageInv, HasActive, NEW d, GoodDisk(d), disks' = [disks EXCEPT ![active_disk] = d]
    PROVE  /\ disks' \in Seq(DiskRecord) /\ Len(disks') = Len(disks) /\ Len(disks') <= MaxDisks
           /\ \A i \in DOMAIN disks' : GoodDisk(disks'[i])
           /\ \A i \in DOMAIN disks' : i \in DOMAIN disks /\ (i # active_disk => disks'[i] = disks[i])
           /\ disks'[active_disk] = d
<1>1. disks \in Seq(DiskRecord) /\ Len(disks) <= MaxDisks /\ active_disk \in DOMAIN disks
  BY DEF PageInv, PageTypeOK, HasActive
<1>2. d \in DiskRecord
  BY DEF GoodDisk
<1>3. QED
  BY <1>1, <1>2 DEF PageInv

LEMMA ActiveIsGood ==
    ASSUME PageInv, HasActive
    PROVE  /\ active_disk \in DOMAIN disks /\ Active = disks[active_disk]
           /\ GoodDisk(Active) /\ Active \in DiskRecord /\ Active.path \in Paths
           /\ inventory[Active.path] \in Detected /\ Active.parts \in Seq(PartitionRecord)
<1>1. active_disk \in DOMAIN disks /\ Active = disks[active_disk]
  BY DEF PageInv, PageTypeOK, HasActive, Active
<1>2. GoodDisk(Active) /\ Active \in DiskRecord
  BY <1>1 DEF PageInv, GoodDisk
<1>3. Active.path \in Paths /\ Active.parts \in Seq(PartitionRecord)
  BY <1>2 DEF DiskRecord
<1>4. QED
  BY <1>1, <1>2, <1>3 DEF PageInv, PageTypeOK, Inventory

-----------------------------------------------------------------------------
LEMMA AddDiskInv == ASSUME PageInv, NEW path \in Paths, AddDisk(path) PROVE PageInv'
<1> DEFINE found == inventory[path]
           new == NewDisk(path, found[1])
<1>1. /\ found \in Detected /\ found # <<>> /\ Len(disks) < MaxDisks /\ disks \in Seq(DiskRecord)
      /\ world \in Inventory /\ inventory \in Inventory
  BY DEF AddDisk, PageInv, PageTypeOK, Inventory
<1>2. found[1] \in DiskInfo
  BY <1>1, FoundIsDisk
<1>3. GoodDisk(new)
  BY <1>2, NewIsGood
<1>4. disks' = Append(disks, new)
  BY DEF AddDisk, Edited
<1> HIDE DEF new
<1>5. /\ disks' \in Seq(DiskRecord) /\ Len(disks') = Len(disks) + 1
      /\ \A i \in DOMAIN disks' : GoodDisk(disks'[i])
  BY <1>1, <1>3, <1>4 DEF PageInv, GoodDisk
<1>6. /\ active_disk' = Len(disks') /\ row' = 0 /\ dirty' = TRUE /\ confirmed' = "disk"
      /\ world' = world /\ inventory' = inventory /\ Recompared
  BY <1>5 DEF AddDisk, Edited
<1>7. SelectionInPlan'
  BY <1>6 DEF SelectionInPlan, HasActive
<1>8. Len(disks') <= MaxDisks /\ active_disk' \in Nat \ {0}
  BY <1>1, <1>5, <1>6, MaxDisksAssumption
<1>9. QED
  BY <1>1, <1>5, <1>6, <1>7, <1>8, PlanChanged, ComparedCovers DEF Confirmations

LEMMA ChooseLayoutInv ==
    ASSUME PageInv, NEW mode \in OfferedLayouts, ChooseLayout(mode) PROVE PageInv'
<1> DEFINE d == UseAutomatic(Active, mode)
<1>1. /\ HasActive /\ disks' = [disks EXCEPT ![active_disk] = d]
      /\ row' = 0 /\ dirty' = TRUE /\ confirmed' = "layout"
      /\ UNCHANGED <<world, inventory, active_disk, target_identity_matches>>
  BY DEF ChooseLayout, OnHeader, Edited
<1>2. GoodDisk(d)
  BY <1>1, ActiveIsGood, AutomaticIsGood, OfferedAssumption
<1>3. d.path = Active.path /\ d.id = Active.id
  BY <1>1, ActiveIsGood DEF UseAutomatic, DiskRecord
<1> HIDE DEF d
<1>4. /\ disks' \in Seq(DiskRecord) /\ Len(disks') = Len(disks) /\ Len(disks') <= MaxDisks
      /\ \A i \in DOMAIN disks' : GoodDisk(disks'[i])
      /\ \A i \in DOMAIN disks' : i \in DOMAIN disks /\ (i # active_disk => disks'[i] = disks[i])
      /\ disks'[active_disk] = d
  BY <1>1, <1>2, ActiveReplaced
<1>5. SelectionInPlan'
  BY <1>1, <1>4 DEF SelectionInPlan, HasActive
<1>6. target_identity_matches' \in BOOLEAN /\ FlagCoversDisks'
  BY <1>1, <1>3, <1>4, KeptCovers DEF Active
<1>7. world' \in Inventory /\ inventory' \in Inventory /\ active_disk' \in Nat \ {0}
  BY <1>1 DEF PageInv, PageTypeOK
<1>8. QED
  BY <1>1, <1>4, <1>5, <1>6, <1>7, PlanChanged DEF Confirmations

LEMMA GptSet ==
    ASSUME NEW d \in DiskRecord, NEW gpt \in BOOLEAN PROVE [d EXCEPT !.gpt = gpt] \in DiskRecord
  BY DEF DiskRecord

(* Loading the partitions of a detected disk into the active one. *)
LEMMA LoadedInv ==
    ASSUME PageInv, HasActive, NEW e, GoodDisk(e), disks' = [disks EXCEPT ![active_disk] = e],
           row' = 0, dirty' = TRUE, confirmed' \in Confirmations, active_disk' = active_disk,
           world' \in Inventory, inventory' \in Inventory, Recompared
    PROVE  PageInv'
<1>1. /\ disks' \in Seq(DiskRecord) /\ Len(disks') = Len(disks) /\ Len(disks') <= MaxDisks
      /\ \A i \in DOMAIN disks' : GoodDisk(disks'[i])
  BY ActiveReplaced
<1>2. SelectionInPlan' /\ active_disk' \in Nat \ {0}
  BY <1>1 DEF SelectionInPlan, HasActive, PageInv, PageTypeOK
<1>3. QED
  BY <1>1, <1>2, PlanChanged, ComparedCovers

LEMMA ReloadExistingInv == ASSUME PageInv, ReloadExisting PROVE PageInv'
<1> DEFINE found == inventory[Active.path]
<1>1. /\ HasActive /\ found # <<>> /\ row' = 0 /\ dirty' = TRUE /\ confirmed' = "reload"
      /\ UNCHANGED <<world, inventory, active_disk>> /\ Recompared
      /\ disks' = [disks EXCEPT ![active_disk] = UseExisting(Active, found[1])]
  BY DEF ReloadExisting, OnHeader, ActiveDetected, Edited
<1>2. found \in Detected
  BY <1>1, ActiveIsGood
<1>3. found[1] \in DiskInfo
  BY <1>1, <1>2, FoundIsDisk
<1> DEFINE e == UseExisting(Active, found[1])
<1>4. GoodDisk(e)
  BY <1>1, <1>3, ActiveIsGood, UsedIsGood
<1> HIDE DEF found, e
<1>5. disks' = [disks EXCEPT ![active_disk] = e]
  BY <1>1 DEF e
<1>6. PageInv'
  BY <1>1, <1>4, <1>5, LoadedInv DEF Confirmations, PageInv, PageTypeOK
<1>7. QED
  BY <1>6

LEMMA CfdiskReloadsInv ==
    ASSUME PageInv, NEW found \in Detected, CfdiskReloads(found) PROVE PageInv'
<1> DEFINE d == [Active EXCEPT !.gpt = found[1].gpt]
           e == UseExisting(d, found[1])
<1>1. /\ HasActive /\ found # <<>> /\ row' = 0 /\ dirty' = TRUE /\ confirmed' = "cfdisk"
      /\ active_disk' = active_disk /\ Recompared
      /\ world' = [world EXCEPT ![Active.path] = found] /\ inventory' = world'
      /\ disks' = [disks EXCEPT ![active_disk] = e]
  BY DEF CfdiskReloads, CfdiskStarts, OnHeader
<1>2. found[1] \in DiskInfo
  BY <1>1, FoundIsDisk
<1>3. found[1].gpt \in BOOLEAN
  BY <1>2 DEF DiskInfo
<1>4. d \in DiskRecord
  BY <1>1, <1>3, ActiveIsGood, GptSet
<1>5. GoodDisk(e)
  BY <1>2, <1>4, UsedIsGood
<1> HIDE DEF d, e
<1>6. world' \in Inventory /\ inventory' \in Inventory
  BY <1>1 DEF PageInv, PageTypeOK, Inventory
<1>7. QED
  BY <1>1, <1>5, <1>6, LoadedInv DEF Confirmations

(* Keys that leave the plan alone. *)
LEMMA RefreshInv == ASSUME PageInv, Refresh PROVE PageInv'
<1>1. UNCHANGED <<world, disks, active_disk, row, dirty>> /\ inventory' = world
      /\ confirmed' = "nothing" /\ Recompared
  BY DEF Refresh
<1>2. target_identity_matches' \in BOOLEAN /\ FlagCoversDisks'
  BY <1>1, ComparedCovers
<1>3. PageTypeOK' /\ SelectionInPlan'
  BY <1>1, <1>2 DEF PageInv, PageTypeOK, SelectionInPlan, HasActive
<1>4. QED
  BY <1>1, <1>2, <1>3 DEF PageInv

LEMMA CfdiskFailsInv ==
    ASSUME PageInv, NEW found \in Detected,
           CfdiskLosesDisk \/ CfdiskThenRefreshFails(found)
    PROVE  PageInv'
<1>1. /\ UNCHANGED <<disks, active_disk, row, dirty>> /\ confirmed' = "cfdisk" /\ HasActive
      /\ \/ inventory' = world' /\ target_identity_matches' = FALSE
         \/ UNCHANGED <<inventory, target_identity_matches>>
  BY DEF CfdiskLosesDisk, CfdiskThenRefreshFails, CfdiskStarts, OnHeader
<1>2. world' \in Inventory
  <2>1. \E new \in Detected : world' = [world EXCEPT ![Active.path] = new]
    BY DEF CfdiskLosesDisk, CfdiskThenRefreshFails, Detected
  <2>2. QED
    BY <2>1 DEF PageInv, PageTypeOK, Inventory
<1>3. target_identity_matches' \in BOOLEAN /\ FlagCoversDisks'
  <2>1. CASE target_identity_matches' = FALSE
    BY <2>1, Zenon DEF FlagCoversDisks
  <2>2. CASE UNCHANGED <<inventory, target_identity_matches>>
    BY <1>1, <2>2, KeptCovers
  <2>3. QED
    BY <1>1, <2>1, <2>2
<1>4. PageTypeOK' /\ SelectionInPlan'
  BY <1>1, <1>2, <1>3 DEF PageInv, PageTypeOK, SelectionInPlan, HasActive
<1>5. QED
  BY <1>1, <1>3, <1>4 DEF PageInv

LEMMA RemoveActiveDiskInv == ASSUME PageInv, RemoveActiveDisk PROVE PageInv'
<1>1. /\ disks \in Seq(DiskRecord) /\ Len(disks) <= MaxDisks /\ MaxDisks \in Nat
      /\ active_disk \in 1 .. Len(disks) /\ disks' = RemoveDiskAt(disks, active_disk)
      /\ UNCHANGED <<world, inventory>> /\ row' = 0 /\ dirty' = TRUE /\ confirmed' = "disk"
      /\ world \in Inventory /\ inventory \in Inventory
      /\ Recompared
  BY MaxDisksAssumption DEF RemoveActiveDisk, OnHeader, HasActive, Edited, PageInv, PageTypeOK
<1> DEFINE n == Len(disks) - 1
           kept(k) == IF k < active_disk THEN disks[k] ELSE disks[k + 1]
<1>2. n \in Nat /\ \A k \in 1 .. n : GoodDisk(kept(k))
  BY <1>1 DEF PageInv
<1>3. /\ disks' \in Seq(DiskRecord) /\ Len(disks') = Len(disks) - 1
      /\ \A i \in DOMAIN disks' : GoodDisk(disks'[i])
  <2>1. disks' = [k \in 1 .. n |-> kept(k)]
    BY <1>1 DEF RemoveDiskAt
  <2>2. \A k \in 1 .. n : kept(k) \in DiskRecord
    BY <1>2 DEF GoodDisk
  <2> HIDE DEF kept, n
  <2>3. disks' \in Seq(DiskRecord) /\ Len(disks') = n /\ DOMAIN disks' = 1 .. n
    BY <1>2, <2>1, <2>2
  <2>4. \A i \in 1 .. n : disks'[i] = kept(i)
    BY <2>1
  <2>5. QED
    BY <1>2, <2>3, <2>4 DEF n
<1>4. /\ active_disk' \in Nat \ {0}
      /\ Len(disks') > 0 => active_disk' <= Len(disks')
  <2>1. active_disk' = IF active_disk > Len(disks) - 1 /\ active_disk > 1
                      THEN active_disk - 1 ELSE active_disk
    BY Zenon DEF RemoveActiveDisk
  <2>2. active_disk \in Nat /\ active_disk > 0 /\ active_disk <= Len(disks) /\ Len(disks) \in Nat
    BY <1>1
  <2>3. Len(disks') = Len(disks) - 1
    BY <1>3
  <2> HIDE <1>1, <1>3
  <2>4. QED
    BY <2>1, <2>2, <2>3
<1>5. SelectionInPlan'
  BY <1>3, <1>4 DEF SelectionInPlan, HasActive
<1>6. target_identity_matches' \in BOOLEAN /\ FlagCoversDisks'
  BY <1>1, ComparedCovers
<1>7. Len(disks') <= MaxDisks
  BY <1>1, <1>3
<1>8. QED
  BY <1>1, <1>3, <1>4, <1>5, <1>6, <1>7, PlanChanged DEF Confirmations

-----------------------------------------------------------------------------
(* Keys on a partition. *)
LEMMA SelectedIsSound ==
    ASSUME PageInv, OnPartition
    PROVE  /\ HasActive /\ Row \in DOMAIN Active.parts /\ Row \in Nat /\ Active.mode \in Modes
           /\ Selected \in PartitionRecord /\ RecordIsSound(Selected, Active.mode)
           /\ ProfileFits(Selected)
           /\ Selected.planned => Selected.fs = "none"
<1>1. HasActive /\ Row > 0
  BY DEF OnPartition
<1>2. Active.parts \in Seq(PartitionRecord) /\ GoodDisk(Active) /\ Active \in DiskRecord
  BY <1>1, ActiveIsGood
<1>3. row \in Nat /\ Len(Active.parts) \in Nat
  BY <1>2 DEF PageInv, PageTypeOK
<1>4. Row \in 1 .. Len(Active.parts)
  BY <1>1, <1>3 DEF Row
<1>5. QED
  BY <1>1, <1>2, <1>4 DEF Selected, GoodDisk, DiskRecord

LEMMA PartitionEdited ==
    ASSUME PageInv, OnPartition, NEW q \in PartitionRecord, RecordIsSound(q, Active.mode),
           ProfileFits(q), q.number = Selected.number, q.planned = Selected.planned, q.fs = Selected.fs,
           q.planned => q.usage = Selected.usage \/ Active.mode = "auto_data",
           disks' = Replaced(q), SelectionStays, dirty' \in BOOLEAN, confirmed' \in Confirmations
    PROVE  PageInv'
<1> DEFINE d == [Active EXCEPT !.parts[Row] = q]
<1>1. HasActive /\ Row \in DOMAIN Active.parts /\ Row \in Nat /\ GoodDisk(Active)
      /\ Active \in DiskRecord
  BY SelectedIsSound, ActiveIsGood
<1>2. GoodDisk(d)
  BY <1>1, ReplacedIsGood DEF Selected
<1>3. d.path = Active.path /\ d.id = Active.id
  BY <1>1 DEF DiskRecord
<1>4. disks' = [disks EXCEPT ![active_disk] = d]
  BY DEF Replaced, Active
<1> HIDE DEF d
<1>5. /\ disks' \in Seq(DiskRecord) /\ Len(disks') = Len(disks) /\ Len(disks') <= MaxDisks
      /\ \A i \in DOMAIN disks' : GoodDisk(disks'[i])
      /\ \A i \in DOMAIN disks' : i \in DOMAIN disks /\ (i # active_disk => disks'[i] = disks[i])
      /\ disks'[active_disk] = d
  BY <1>1, <1>2, <1>4, ActiveReplaced
<1>6. row' = Row /\ UNCHANGED <<world, inventory, active_disk, target_identity_matches>>
  BY DEF SelectionStays
<1>7. SelectionInPlan'
  BY <1>1, <1>5, <1>6 DEF SelectionInPlan, HasActive
<1>8. target_identity_matches' \in BOOLEAN /\ FlagCoversDisks'
  BY <1>3, <1>5, <1>6, KeptCovers DEF Active
<1>9. /\ world' \in Inventory /\ inventory' \in Inventory /\ active_disk' \in Nat \ {0}
      /\ row' \in Nat
  BY <1>1, <1>6 DEF PageInv, PageTypeOK
<1>10. QED
  BY <1>5, <1>7, <1>8, <1>9, PlanChanged

LEMMA AssignPurposeInv ==
    ASSUME PageInv, NEW usage \in OfferedPurposes, AssignPurpose(usage) PROVE PageInv'
<1> DEFINE q == AssignUsage(Selected, Active.mode, usage)
<1>1. /\ OnPartition /\ MayAssign(Selected, Active.mode) /\ disks' = Replaced(q)
      /\ Dirtied(q) /\ confirmed' = "purpose" /\ SelectionStays
  BY DEF AssignPurpose
<1>2. usage \in Purposes
  BY OfferedAssumption
<1>3. /\ q \in PartitionRecord /\ RecordIsSound(q, Active.mode) /\ q.planned = Selected.planned
      /\ ProfileFits(q)
      /\ q.number = Selected.number /\ q.fs = Selected.fs
  BY <1>1, <1>2, SelectedIsSound, AssignedIsSound
<1>4. q.planned => Active.mode = "auto_data"
  BY <1>1, <1>3 DEF MayAssign
<1> HIDE DEF q
<1>5. dirty' \in BOOLEAN
  BY <1>1, Zenon DEF Dirtied, PageInv, PageTypeOK
<1>6. QED
  BY <1>1, <1>3, <1>4, <1>5, PartitionEdited DEF Confirmations

LEMMA AssignPurposeAndFormatInv ==
    ASSUME PageInv, NEW usage \in OfferedPurposes, NEW action \in Actions,
           NEW fs \in OfferedFilesystems, AssignPurposeAndFormat(usage, action, fs)
    PROVE  PageInv'
<1> DEFINE a == AssignUsage(Selected, Active.mode, usage)
           q == SetAction(a, action, fs)
<1>1. /\ OnPartition /\ MayAssign(Selected, Active.mode) /\ disks' = Replaced(q)
      /\ ActionAllowed(a, action, fs) /\ dirty' = TRUE /\ confirmed' = action /\ SelectionStays
  BY DEF AssignPurposeAndFormat
<1>2. usage \in Purposes /\ fs \in Filesystems
  BY OfferedAssumption
<1>3. /\ a \in PartitionRecord /\ RecordIsSound(a, Active.mode) /\ a.planned = Selected.planned
      /\ a.number = Selected.number /\ a.fs = Selected.fs
  BY <1>1, <1>2, SelectedIsSound, AssignedIsSound
<1>4. a.planned => Active.mode = "auto_data"
  BY <1>1, <1>3 DEF MayAssign
<1>5. /\ q \in PartitionRecord /\ RecordIsSound(q, Active.mode) /\ q.planned = a.planned
      /\ ProfileFits(q)
      /\ q.number = a.number /\ q.fs = a.fs
  <2> HIDE DEF a
  <2>1. QED
    BY <1>1, <1>2, <1>3, SelectedIsSound, SetActionIsSound
<1> HIDE DEF a, q
<1>6. confirmed' \in Confirmations
  BY <1>1 DEF Actions, Confirmations
<1>7. QED
  BY <1>1, <1>3, <1>4, <1>5, <1>6, PartitionEdited

LEMMA EditFormatInv ==
    ASSUME PageInv, NEW action \in Actions, NEW fs \in OfferedFilesystems,
           EditFormat(action, fs)
    PROVE  PageInv'
<1> DEFINE q == SetAction(Selected, action, fs)
<1>1. /\ OnPartition /\ ActionAllowed(Selected, action, fs) /\ disks' = Replaced(q)
      /\ Dirtied(q) /\ confirmed' = action /\ SelectionStays
  BY DEF EditFormat
<1>2. /\ q \in PartitionRecord /\ RecordIsSound(q, Active.mode) /\ ProfileFits(q)
      /\ q.planned = Selected.planned /\ q.number = Selected.number /\ q.fs = Selected.fs
      /\ q.usage = Selected.usage
  BY <1>1, OfferedAssumption, SelectedIsSound, SetActionIsSound
<1> HIDE DEF q
<1>3. dirty' \in BOOLEAN
  BY <1>1, Zenon DEF Dirtied, PageInv, PageTypeOK
<1>4. confirmed' \in Confirmations
  BY <1>1 DEF Actions, Confirmations
<1>5. QED
  BY <1>1, <1>2, <1>3, <1>4, PartitionEdited

LEMMA EditMountOptionsInv ==
    ASSUME PageInv, NEW profile \in Profiles, EditMountOptions(profile) PROVE PageInv'
<1> DEFINE q == [Selected EXCEPT !.profile = profile]
<1>1. /\ OnPartition /\ SupportsProfile(Selected, profile) /\ disks' = Replaced(q)
      /\ dirty' = TRUE /\ confirmed' = "profile" /\ SelectionStays
  BY DEF EditMountOptions
<1>2. q \in PartitionRecord /\ RecordIsSound(q, Active.mode) /\ ProfileFits(q)
  BY <1>1, SelectedIsSound, ProfileIsSound
<1>3. /\ q.planned = Selected.planned /\ q.number = Selected.number /\ q.fs = Selected.fs
      /\ q.usage = Selected.usage
  BY <1>1, SelectedIsSound DEF PartitionRecord
<1> HIDE DEF q
<1>4. QED
  BY <1>1, <1>2, <1>3, PartitionEdited DEF Confirmations

LEMMA MovesInv == ASSUME PageInv, Moves \/ DevicesChange PROVE PageInv'
<1>1. UNCHANGED <<inventory, disks, target_identity_matches, dirty, confirmed>>
  BY DEF Moves, MoveUp, MoveDown, Reenter, DevicesChange
<1>2. world' \in Inventory
  BY DEF Moves, MoveUp, MoveDown, Reenter, DevicesChange, PageInv, PageTypeOK, Inventory
<1>3. disks # <<>> => active_disk' \in 1 .. Len(disks)
  BY DEF Moves, MoveUp, MoveDown, Reenter, DevicesChange, HasActive, PageInv, PageTypeOK,
         SelectionInPlan
<1>4. active_disk' \in Nat \ {0}
  BY DEF Moves, MoveUp, MoveDown, Reenter, DevicesChange, HasActive, PageInv, PageTypeOK
<1>5. row' \in Nat
  BY ActiveIsGood, SMTT(30)
  DEF Moves, MoveUp, MoveDown, Reenter, DevicesChange, PageInv, PageTypeOK, GoodDisk,
      DiskRecord, Row
<1>6. PageTypeOK' /\ SelectionInPlan' /\ FlagCoversDisks'
  BY <1>1, <1>2, <1>3, <1>4, <1>5
  DEF PageInv, PageTypeOK, SelectionInPlan, FlagCoversDisks, HasActive
<1>7. QED
  BY <1>1, <1>6 DEF PageInv

-----------------------------------------------------------------------------
LEMMA PageNextInv == PageInv /\ [PageNext]_pageVars => PageInv'
<1> SUFFICES ASSUME PageInv, [PageNext]_pageVars PROVE PageInv'
  OBVIOUS
<1>1. CASE HeaderKeys
  <2>1. CASE \E path \in Paths : AddDisk(path)
    BY <2>1, AddDiskInv
  <2>2. CASE \E mode \in OfferedLayouts : ChooseLayout(mode)
    BY <2>2, ChooseLayoutInv
  <2>3. CASE ReloadExisting \/ Refresh \/ RemoveActiveDisk
    BY <2>3, ReloadExistingInv, RefreshInv, RemoveActiveDiskInv
  <2>4. CASE \E found \in Detected : CfdiskReloads(found)
    BY <2>4, CfdiskReloadsInv
  <2>5. CASE \E found \in Detected : CfdiskLosesDisk \/ CfdiskThenRefreshFails(found)
    BY <2>5, CfdiskFailsInv
  <2>6. Detected # {}
    BY DEF Detected
  <2>7. QED
    BY <1>1, <2>1, <2>2, <2>3, <2>4, <2>5, <2>6 DEF HeaderKeys
<1>2. CASE PartitionKeys
  BY <1>2, AssignPurposeInv, AssignPurposeAndFormatInv, EditFormatInv, EditMountOptionsInv
  DEF PartitionKeys
<1>3. CASE Moves \/ DevicesChange
  BY <1>3, MovesInv
<1>4. CASE UNCHANGED pageVars
  BY <1>4 DEF pageVars, PageInv, PageTypeOK, SelectionInPlan, FlagCoversDisks, HasActive
<1>5. QED
  BY <1>1, <1>2, <1>3, <1>4 DEF PageNext

(* PageInv holds in every state the page can reach. *)
LEMMA PageInvariant == PageSpec => []PageInv
<1>1. PageInit => PageInv
  BY PageInitInv
<1>2. PageInv /\ [PageNext]_pageVars => PageInv'
  BY PageNextInv
<1>3. QED
  BY <1>1, <1>2, PTL DEF PageSpec

(* The page keeps its plan, inventory, selection and flags well formed for  *)
(* every set of devices and every number of disks (ui/pages/storage.c).     *)
THEOREM PageTypeCorrect == PageSpec => []PageTypeOK
<1>1. PageInv => PageTypeOK
  BY DEF PageInv
<1>2. QED
  BY <1>1, PageInvariant, PTL

(* Whatever keys are pressed on whatever devices, every record satisfies    *)
(* what validate_plan asks of its purpose, action, target and profile, and  *)
(* every guided layout keeps its fixed partitions (validation.c:56-88,      *)
(* 244-319): the editor cannot build a record the validator refuses.        *)
THEOREM RecordsAlwaysSound == PageSpec => []RecordsAreSound
<1>1. PageInv => RecordsAreSound
  BY DEF PageInv, RecordsAreSound, GoodDisk
<1>2. QED
  BY <1>1, PageInvariant, PTL

(* As long as the flag is set, every planned disk is the one detected last  *)
(* at its path, and it is writable: no key changes the plan's disks or the  *)
(* inventory without the comparison (pages/storage.c:59-283).               *)
THEOREM FlagAlwaysCoversDisks == PageSpec => []FlagCoversDisks
<1>1. PageInv => FlagCoversDisks
  BY DEF PageInv
<1>2. QED
  BY <1>1, PageInvariant, PTL

(* The selection is on a disk of the plan as long as the plan has one       *)
(* (pages/storage.c:271-283, 638-694).                                      *)
THEOREM SelectionAlwaysInPlan == PageSpec => []SelectionInPlan
<1>1. PageInv => SelectionInPlan
  BY DEF PageInv
<1>2. QED
  BY <1>1, PageInvariant, PTL

-----------------------------------------------------------------------------
(* What the keys do to the list of disks: nothing, a disk more, a disk      *)
(* less, the active disk filled anew, or one record of it replaced.         *)
KeepsPlan == UNCHANGED <<disks, dirty>>

(* The active disk gets records that are to be created or left alone.       *)
Refills ==
    /\ HasActive /\ dirty'
    /\ \E d \in DiskRecord :
          /\ GoodDisk(d) /\ d.path = Active.path /\ disks' = [disks EXCEPT ![active_disk] = d]
          /\ \A k \in DOMAIN d.parts : d.parts[k].planned \/ d.parts[k].action = "keep"

(* A record of the same partition turns from KEEP to FORMAT. *)
Turns(before, after) ==
    /\ ~after.planned /\ before.ident = after.ident
    /\ before.action = "keep" /\ after.action = "format"

EditsRecord ==
    /\ OnPartition
    /\ \E p \in PartitionRecord :
          /\ disks' = Replaced(p)
          /\ Turns(Selected, p) => confirmed' = "format"
          /\ dirty' \/ (p = Selected /\ dirty' = dirty)

LEMMA LayoutRefills ==
    ASSUME PageInv, NEW mode \in OfferedLayouts, ChooseLayout(mode) PROVE Refills
<1> DEFINE d == UseAutomatic(Active, mode)
<1>1. HasActive /\ dirty' = TRUE /\ disks' = [disks EXCEPT ![active_disk] = d]
  BY DEF ChooseLayout, OnHeader, Edited
<1>2. Active \in DiskRecord /\ mode \in GuidedModes
  BY <1>1, ActiveIsGood, OfferedAssumption
<1>3. GoodDisk(d) /\ d.path = Active.path /\ d.parts = GuidedParts(mode)
  BY <1>2, AutomaticIsGood DEF UseAutomatic, DiskRecord
<1>4. \A k \in DOMAIN GuidedParts(mode) : GuidedParts(mode)[k].planned
  <2>1. \A number, usage, fs : AutoPartition(number, usage, fs).planned
    BY DEF AutoPartition
  <2>2. QED
    BY <1>2, <2>1 DEF GuidedParts, AutoBoot, AutoRoot, GuidedModes
<1> HIDE DEF d
<1>5. QED
  BY <1>1, <1>3, <1>4 DEF Refills, GoodDisk

LEMMA UsedRefills ==
    ASSUME PageInv, HasActive, dirty', NEW a \in DiskRecord, a.path = Active.path,
           NEW disk \in DiskInfo, disks' = [disks EXCEPT ![active_disk] = UseExisting(a, disk)]
    PROVE  Refills
<1> DEFINE d == UseExisting(a, disk)
<1>1. GoodDisk(d) /\ d.path = Active.path /\ d.parts = ExistingParts(disk)
  BY UsedIsGood DEF UseExisting, DiskRecord
<1>2. \A k \in DOMAIN d.parts : d.parts[k].action = "keep"
  BY <1>1, ExistingPartsType DEF Ignored
<1> HIDE DEF d
<1>3. disks' = [disks EXCEPT ![active_disk] = d]
  BY DEF d
<1>4. QED
  BY <1>1, <1>2, <1>3 DEF Refills, GoodDisk

LEMMA ReloadRefills == ASSUME PageInv, ReloadExisting PROVE Refills
<1> DEFINE found == inventory[Active.path]
<1>1. /\ HasActive /\ dirty' = TRUE /\ found # <<>>
      /\ disks' = [disks EXCEPT ![active_disk] = UseExisting(Active, found[1])]
  BY DEF ReloadExisting, OnHeader, Edited, ActiveDetected
<1>2. found \in Detected /\ Active \in DiskRecord
  BY <1>1, ActiveIsGood
<1>3. found[1] \in DiskInfo
  BY <1>1, <1>2, FoundIsDisk
<1>4. QED
  BY <1>1, <1>2, <1>3, UsedRefills

LEMMA CfdiskRefills ==
    ASSUME PageInv, NEW found \in Detected, CfdiskReloads(found) PROVE Refills
<1> DEFINE a == [Active EXCEPT !.gpt = found[1].gpt]
<1>1. /\ HasActive /\ dirty' = TRUE /\ found # <<>>
      /\ disks' = [disks EXCEPT ![active_disk] = UseExisting(a, found[1])]
  BY DEF CfdiskReloads, CfdiskStarts, OnHeader
<1>2. found[1] \in DiskInfo /\ Active \in DiskRecord
  BY <1>1, FoundIsDisk, ActiveIsGood
<1>3. a \in DiskRecord /\ a.path = Active.path
  BY <1>2, GptSet DEF DiskInfo, DiskRecord
<1> HIDE DEF a
<1>4. QED
  BY <1>1, <1>2, <1>3, UsedRefills

(* A purpose assigned without a question about the file system never starts *)
(* a format, and leaves the plan unmarked only when nothing has changed.    *)
LEMMA AssignPurposeEdits ==
    ASSUME PageInv, NEW usage \in OfferedPurposes, AssignPurpose(usage) PROVE EditsRecord
<1> DEFINE mode == Active.mode
           q == AssignUsage(Selected, mode, usage)
           u == IF usage = "unused" THEN Unassigned(Selected, mode)
                ELSE [Selected EXCEPT !.usage = usage, !.action = ActionFor(usage, Selected.fs),
                                      !.target = TargetFor(usage, Selected.fs)]
<1>1. /\ OnPartition /\ MayAssign(Selected, mode) /\ ~AsksFormat(q)
      /\ disks' = Replaced(q) /\ Dirtied(q)
  BY DEF AssignPurpose
<1>2. /\ Selected \in PartitionRecord /\ RecordIsSound(Selected, mode) /\ ProfileFits(Selected)
      /\ usage \in Purposes /\ mode \in Modes /\ (Selected.planned => Selected.fs = "none")
  BY <1>1, SelectedIsSound, OfferedAssumption
<1>3. q \in PartitionRecord /\ q.planned = Selected.planned /\ q.fs = Selected.fs
  BY <1>1, <1>2, AssignedIsSound
<1>4. /\ u.usage = usage /\ u.fs = Selected.fs /\ u.planned = Selected.planned
      /\ usage = "unused" /\ ~Selected.planned => u.action = "keep"
      /\ usage # "unused" => u.action = ActionFor(usage, Selected.fs)
  BY <1>2 DEF Unassigned, PartitionRecord
<1>5. /\ u \in PartitionRecord
      /\ u.usage = Selected.usage /\ u.action = Selected.action /\ u.target = Selected.target
         => u = [Selected EXCEPT !.profile = u.profile]
      /\ u.profile \in {"default", Selected.profile}
  <2>1. ActionFor(usage, Selected.fs) \in Actions /\ TargetFor(usage, Selected.fs) \in Filesystems
    BY <1>2 DEF ActionFor, TargetFor, Actions, Filesystems, PartitionRecord
  <2>2. CASE usage # "unused"
    BY <1>2, <2>1, <2>2 DEF PartitionRecord
  <2>3. CASE usage = "unused" /\ ~(Selected.planned /\ mode = "auto_data")
    <3>1. u = [Selected EXCEPT !.usage = "unused", !.profile = "default", !.action = "keep",
                               !.target = "none"]
      BY <2>3, Zenon DEF Unassigned
    <3> HIDE DEF u
    <3>2. QED
      BY ZenonT(60), <1>2, <3>1 DEF PartitionRecord, Purposes, Actions, Profiles, Filesystems
  <2>4. CASE usage = "unused" /\ Selected.planned /\ mode = "auto_data"
    <3> DEFINE t == IF Selected.target = "none" THEN "ext4" ELSE Selected.target
    <3>1. t \in Filesystems
      BY <1>2 DEF PartitionRecord, Filesystems
    <3>2. u = [Selected EXCEPT !.usage = "unused", !.profile = "default", !.action = "format",
                               !.target = t]
      BY <2>4 DEF Unassigned
    <3> HIDE DEF t, u
    <3>3. QED
      BY <1>2, <3>1, <3>2 DEF PartitionRecord, Purposes, Actions, Profiles
  <2>5. QED
    BY <2>2, <2>3, <2>4
<1>6. /\ q = u \/ (q = [u EXCEPT !.profile = "default"] /\ ~SupportsProfile(u, u.profile))
      /\ q.usage = u.usage /\ q.action = u.action /\ q.target = u.target
  <2>1. q = WithSupportedProfile(u)
    BY DEF AssignUsage
  <2> HIDE DEF u, q
  <2>2. QED
    BY <1>5, <2>1 DEF WithSupportedProfile, PartitionRecord
<1> HIDE DEF q, u, mode
<1>7. ~Turns(Selected, q)
  BY <1>1, <1>2, <1>3, <1>4, <1>6
  DEF Turns, AsksFormat, FixedRole, ActionFor, RecordIsSound, Ignored, PurposeIsSound,
      Effective, PartitionRecord, Purposes
<1>8. /\ q.usage = Selected.usage /\ q.action = Selected.action /\ q.target = Selected.target
         => q = Selected
  <2> SUFFICES ASSUME q.usage = Selected.usage, q.action = Selected.action,
                      q.target = Selected.target
               PROVE  q = Selected
    OBVIOUS
  <2>1. q.profile \in {"default", Selected.profile} /\ q = [Selected EXCEPT !.profile = q.profile]
    BY <1>2, <1>5, <1>6 DEF PartitionRecord
  <2>2. CASE Selected.profile = "default"
    BY <1>2, <2>1, <2>2 DEF PartitionRecord
  <2>3. CASE Selected.profile # "default"
    <3>1. Selected.usage # "unused" /\ SupportsProfile(Selected, Selected.profile)
      BY <1>2, <2>3 DEF ProfileFits, SupportsProfile
    <3>2. u = [Selected EXCEPT !.profile = u.profile] /\ usage # "unused"
      BY <1>4, <1>5, <1>6, <3>1
    <3>3. u.profile = Selected.profile
      BY <1>2, <3>2 DEF u, PartitionRecord
    <3>4. u = Selected
      BY <1>2, <3>2, <3>3 DEF PartitionRecord
    <3>5. QED
      BY <1>6, <3>1, <3>4
  <2>4. QED
    BY <2>2, <2>3
<1>9. dirty' \/ (q = Selected /\ dirty' = dirty)
  <2>1. dirty' = (dirty \/ q.usage # Selected.usage \/ q.action # Selected.action
                        \/ q.target # Selected.target)
    BY <1>1 DEF Dirtied
  <2>2. dirty \in BOOLEAN
    BY DEF PageInv, PageTypeOK
  <2>3. QED
    BY <1>8, <2>1, <2>2, Zenon
<1>10. QED
  BY <1>1, <1>3, <1>7, <1>9 DEF EditsRecord

LEMMA AssignPurposeAndFormatEdits ==
    ASSUME PageInv, NEW usage \in OfferedPurposes, NEW action \in Actions,
           NEW fs \in OfferedFilesystems, AssignPurposeAndFormat(usage, action, fs)
    PROVE  EditsRecord
<1> DEFINE a == AssignUsage(Selected, Active.mode, usage)
           q == SetAction(a, action, fs)
<1>1. /\ OnPartition /\ MayAssign(Selected, Active.mode) /\ disks' = Replaced(q)
      /\ ActionAllowed(a, action, fs) /\ dirty' = TRUE /\ confirmed' = action
  BY DEF AssignPurposeAndFormat
<1>2. usage \in Purposes /\ fs \in Filesystems
  BY OfferedAssumption
<1>3. a \in PartitionRecord /\ RecordIsSound(a, Active.mode)
  BY <1>1, <1>2, SelectedIsSound, AssignedIsSound
<1>4. q \in PartitionRecord /\ q.action = action
  <2> HIDE DEF a
  <2>1. QED
    BY <1>1, <1>2, <1>3, SelectedIsSound, SetActionIsSound
<1> HIDE DEF a, q
<1>5. QED
  BY <1>1, <1>4 DEF EditsRecord, Turns

LEMMA EditFormatEdits ==
    ASSUME PageInv, NEW action \in Actions, NEW fs \in OfferedFilesystems,
           EditFormat(action, fs)
    PROVE  EditsRecord
<1> DEFINE q == SetAction(Selected, action, fs)
           target == IF action = "keep" THEN "none" ELSE fs
           u == [Selected EXCEPT !.action = action, !.target = target]
<1>1. /\ OnPartition /\ ActionAllowed(Selected, action, fs) /\ disks' = Replaced(q)
      /\ Dirtied(q) /\ confirmed' = action
  BY DEF EditFormat
<1>2. /\ Selected \in PartitionRecord /\ RecordIsSound(Selected, Active.mode)
      /\ ProfileFits(Selected) /\ Active.mode \in Modes /\ fs \in Filesystems
  BY <1>1, SelectedIsSound, OfferedAssumption
<1>3. q \in PartitionRecord /\ q.action = action /\ q.usage = Selected.usage
  BY <1>1, <1>2, SetActionIsSound
<1>4. q.action = Selected.action /\ q.target = Selected.target => q = Selected
  <2>1. q = WithSupportedProfile(u)
    BY DEF SetAction
  <2>2. u \in PartitionRecord /\ u.action = action /\ u.target = target /\ u.profile = Selected.profile
    BY <1>2 DEF PartitionRecord, Filesystems
  <2>3. action = Selected.action /\ target = Selected.target => u = Selected
    BY <1>2 DEF PartitionRecord
  <2> HIDE DEF u, target
  <2>4. q.action = u.action /\ q.target = u.target
    BY <2>1, <2>2 DEF WithSupportedProfile, PartitionRecord
  <2>5. WithSupportedProfile(Selected) = Selected
    <3>1. CASE Selected.profile = "default"
      BY <1>2, <3>1 DEF WithSupportedProfile, PartitionRecord
    <3>2. CASE Selected.profile # "default"
      BY <1>2, <3>2 DEF WithSupportedProfile, ProfileFits
    <3>3. QED
      BY <3>1, <3>2
  <2>6. QED
    BY <2>1, <2>2, <2>3, <2>4, <2>5
<1> HIDE DEF q
<1>5. dirty' \/ (q = Selected /\ dirty' = dirty)
  <2>1. dirty' = (dirty \/ q.usage # Selected.usage \/ q.action # Selected.action
                        \/ q.target # Selected.target)
    BY <1>1 DEF Dirtied
  <2>2. dirty \in BOOLEAN
    BY DEF PageInv, PageTypeOK
  <2>3. QED
    BY <1>3, <1>4, <2>1, <2>2, Zenon
<1>6. QED
  BY <1>1, <1>3, <1>5 DEF EditsRecord, Turns

LEMMA EditMountOptionsEdits ==
    ASSUME PageInv, NEW profile \in Profiles, EditMountOptions(profile) PROVE EditsRecord
<1> DEFINE q == [Selected EXCEPT !.profile = profile]
<1>1. /\ OnPartition /\ SupportsProfile(Selected, profile) /\ disks' = Replaced(q)
      /\ dirty' = TRUE
  BY DEF EditMountOptions
<1>2. q \in PartitionRecord /\ q.action = Selected.action
  BY <1>1, SelectedIsSound, ProfileIsSound DEF PartitionRecord
<1> HIDE DEF q
<1>3. QED
  BY <1>1, <1>2 DEF EditsRecord, Turns

(* Every step of the page is one of the five. *)
LEMMA WhatAStepDoes ==
    ASSUME PageInv, [PageNext]_pageVars
    PROVE  \/ KeepsPlan \/ Refills \/ EditsRecord
           \/ dirty' /\ \E path \in Paths : AddDisk(path)
           \/ dirty' /\ RemoveActiveDisk
<1>1. CASE HeaderKeys
  <2>1. CASE \E path \in Paths : AddDisk(path)
    BY <2>1 DEF AddDisk, Edited
  <2>2. CASE \E mode \in OfferedLayouts : ChooseLayout(mode)
    BY <2>2, LayoutRefills
  <2>3. CASE ReloadExisting
    BY <2>3, ReloadRefills
  <2>4. CASE Refresh \/ CfdiskLosesDisk \/ \E found \in Detected : CfdiskThenRefreshFails(found)
    BY <2>4 DEF Refresh, CfdiskLosesDisk, CfdiskThenRefreshFails, KeepsPlan
  <2>5. CASE RemoveActiveDisk
    BY <2>5 DEF RemoveActiveDisk, Edited
  <2>6. CASE \E found \in Detected : CfdiskReloads(found)
    BY <2>6, CfdiskRefills
  <2>7. QED
    BY <1>1, <2>1, <2>2, <2>3, <2>4, <2>5, <2>6 DEF HeaderKeys
<1>2. CASE PartitionKeys
  BY <1>2, AssignPurposeEdits, AssignPurposeAndFormatEdits, EditFormatEdits,
     EditMountOptionsEdits
  DEF PartitionKeys
<1>3. CASE Moves \/ DevicesChange \/ UNCHANGED pageVars
  BY <1>3 DEF Moves, MoveUp, MoveDown, Reenter, DevicesChange, pageVars, KeepsPlan
<1>4. QED
  BY <1>1, <1>2, <1>3 DEF PageNext

-----------------------------------------------------------------------------
(* No path is planned twice, so a record found again at the same place of   *)
(* a disk with the same path is the record of the same partition, even      *)
(* while the disks behind a removed one move up.                            *)
PathsDistinct ==
    \A i \in DOMAIN disks : \A j \in DOMAIN disks : disks[i].path = disks[j].path => i = j

LEMMA EditedPaths ==
    ASSUME PathsDistinct, DOMAIN disks' = DOMAIN disks,
           \A i \in DOMAIN disks : disks'[i].path = disks[i].path
    PROVE  PathsDistinct'
  BY DEF PathsDistinct

(* A refilled disk: the other disks are as they were. *)
LEMMA OneRefilled ==
    ASSUME PageInv, Refills
    PROVE  /\ DOMAIN disks' = DOMAIN disks
           /\ \A i \in DOMAIN disks : disks'[i].path = disks[i].path
           /\ \A i \in DOMAIN disks : \/ disks'[i] = disks[i]
                                      \/ \A k \in DOMAIN disks'[i].parts :
                                            \/ disks'[i].parts[k].planned
                                            \/ disks'[i].parts[k].action = "keep"
<1>1. PICK d \in DiskRecord :
          /\ GoodDisk(d) /\ d.path = Active.path /\ disks' = [disks EXCEPT ![active_disk] = d]
          /\ \A k \in DOMAIN d.parts : d.parts[k].planned \/ d.parts[k].action = "keep"
  BY DEF Refills
<1>2. /\ DOMAIN disks' = DOMAIN disks
      /\ \A i \in DOMAIN disks : disks'[i] = IF i = active_disk THEN d ELSE disks[i]
  BY <1>1 DEF PageInv, PageTypeOK
<1>3. Active = disks[active_disk]
  BY DEF Active
<1>4. QED
  BY <1>1, <1>2, <1>3

(* An edited record: every other record is as it was. *)
LEMMA OneReplaced ==
    ASSUME PageInv, OnPartition, NEW p, disks' = Replaced(p)
    PROVE  /\ DOMAIN disks' = DOMAIN disks
           /\ \A i \in DOMAIN disks : disks'[i].path = disks[i].path
           /\ \A i \in DOMAIN disks : \A k \in DOMAIN disks'[i].parts :
                 \/ disks'[i].parts[k] = disks[i].parts[k]
                 \/ disks[i].parts[k] = Selected /\ disks'[i].parts[k] = p
<1>1. /\ HasActive /\ Row \in DOMAIN Active.parts /\ active_disk \in DOMAIN disks
      /\ Active = disks[active_disk] /\ Active \in DiskRecord
  BY SelectedIsSound, ActiveIsGood
<1> DEFINE d == [Active EXCEPT !.parts[Row] = p]
<1>2. disks' = [disks EXCEPT ![active_disk] = d]
  BY DEF Replaced, Active
<1>3. d.path = Active.path /\ d.parts = [Active.parts EXCEPT ![Row] = p]
  BY <1>1 DEF DiskRecord
<1> HIDE DEF d
<1>4. \A i \in DOMAIN disks : disks'[i] = IF i = active_disk THEN d ELSE disks[i]
  BY <1>2
<1>5. \A k \in DOMAIN d.parts : d.parts[k] = IF k = Row THEN p ELSE Active.parts[k]
  BY <1>3
<1>6. Selected = Active.parts[Row] /\ DOMAIN disks' = DOMAIN disks
  BY <1>2 DEF Selected
<1> HIDE <1>2, <1>3
<1>7. \A i \in DOMAIN disks : disks'[i].path = disks[i].path
  BY <1>1, <1>3, <1>4
<1>8. \A i \in DOMAIN disks : \A k \in DOMAIN disks'[i].parts :
         \/ disks'[i].parts[k] = disks[i].parts[k]
         \/ disks[i].parts[k] = Selected /\ disks'[i].parts[k] = p
  BY <1>1, <1>4, <1>5, <1>6
<1>9. QED
  BY <1>6, <1>7, <1>8

LEMMA AddDiskPaths ==
    ASSUME PageInv, PathsDistinct, NEW path \in Paths, AddDisk(path)
    PROVE  PathsDistinct' /\ \A i \in DOMAIN disks : i \in DOMAIN disks' => disks'[i] = disks[i]
<1> DEFINE new == NewDisk(path, inventory[path][1])
<1>1. disks' = Append(disks, new) /\ path \notin Planned(disks) /\ disks \in Seq(DiskRecord)
  BY DEF AddDisk, Edited, PageInv, PageTypeOK
<1>2. new.path = path
  BY DEF NewDisk
<1> HIDE DEF new
<1>3. \A i \in DOMAIN disks : disks[i].path # path
  BY <1>1 DEF Planned
<1>4. \A i \in DOMAIN disks' : \/ i \in DOMAIN disks /\ disks'[i] = disks[i]
                               \/ i = Len(disks) + 1 /\ disks'[i] = new
  BY <1>1
<1>5. Len(disks) + 1 \notin DOMAIN disks
  BY <1>1
<1>6. QED
  BY <1>2, <1>3, <1>4, <1>5 DEF PathsDistinct

(* The disks that remain keep their order. *)
LEMMA OneRemoved ==
    ASSUME PageInv, RemoveActiveDisk
    PROVE  \A i \in DOMAIN disks' : /\ i \in Nat /\ i \in DOMAIN disks /\ i + 1 \in DOMAIN disks
                                    /\ disks'[i] = IF i < active_disk THEN disks[i]
                                                   ELSE disks[i + 1]
<1>1. disks \in Seq(DiskRecord) /\ disks' = RemoveDiskAt(disks, active_disk)
  BY DEF RemoveActiveDisk, Edited, PageInv, PageTypeOK
<1>2. QED
  BY <1>1 DEF RemoveDiskAt

LEMMA RemovePaths == ASSUME PageInv, PathsDistinct, RemoveActiveDisk PROVE PathsDistinct'
<1> SUFFICES ASSUME NEW i \in DOMAIN disks', NEW j \in DOMAIN disks',
                    disks'[i].path = disks'[j].path
             PROVE  i = j
  BY DEF PathsDistinct
<1> DEFINE old(k) == IF k < active_disk THEN k ELSE k + 1
<1>1. /\ i \in Nat /\ j \in Nat /\ active_disk \in Nat
      /\ old(i) \in DOMAIN disks /\ disks'[i] = disks[old(i)]
      /\ old(j) \in DOMAIN disks /\ disks'[j] = disks[old(j)]
  BY OneRemoved DEF PageInv, PageTypeOK
<1> HIDE DEF old
<1>2. old(i) = old(j)
  BY <1>1 DEF PathsDistinct
<1>3. QED
  BY <1>1, <1>2 DEF old

LEMMA PathsStep == ASSUME PageInv, PathsDistinct, [PageNext]_pageVars PROVE PathsDistinct'
<1>1. CASE KeepsPlan
  BY <1>1 DEF KeepsPlan, PathsDistinct
<1>2. CASE Refills
  BY <1>2, OneRefilled, EditedPaths
<1>3. CASE EditsRecord
  BY <1>3, OneReplaced, EditedPaths DEF EditsRecord
<1>4. QED
  BY <1>1, <1>2, <1>3, WhatAStepDoes, AddDiskPaths, RemovePaths

LEMMA NoSilentFormatStep ==
    ASSUME PageInv, PathsDistinct, [PageNext]_pageVars,
           NEW i \in DOMAIN disks \cap DOMAIN disks',
           NEW k \in DOMAIN disks[i].parts \cap DOMAIN disks'[i].parts,
           disks[i].path = disks'[i].path, Turns(disks[i].parts[k], disks'[i].parts[k])
    PROVE  confirmed' = "format"
<1>1. disks[i].parts[k] # disks'[i].parts[k] /\ disks'[i].parts[k].action # "keep"
      /\ ~disks'[i].parts[k].planned
  BY DEF Turns
<1>2. ~KeepsPlan
  BY <1>1 DEF KeepsPlan
<1>3. ~Refills
  BY <1>1, OneRefilled
<1>4. \A path \in Paths : ~AddDisk(path)
  BY <1>1, AddDiskPaths
<1>5. ~RemoveActiveDisk
  <2> SUFFICES ASSUME RemoveActiveDisk PROVE FALSE
    OBVIOUS
  <2>1. i \in Nat /\ i + 1 \in DOMAIN disks /\ disks'[i] \in {disks[i], disks[i + 1]}
    BY OneRemoved
  <2>2. disks'[i] = disks[i + 1]
    BY <1>1, <2>1
  <2>3. i = i + 1
    BY <2>1, <2>2 DEF PathsDistinct
  <2>4. QED
    BY <2>1, <2>3
<1>6. EditsRecord
  BY <1>2, <1>3, <1>4, <1>5, WhatAStepDoes
<1>7. PICK p \in PartitionRecord :
         disks' = Replaced(p) /\ (Turns(Selected, p) => confirmed' = "format")
  BY <1>6 DEF EditsRecord
<1>8. disks[i].parts[k] = Selected /\ disks'[i].parts[k] = p
  BY <1>1, <1>6, <1>7, OneReplaced DEF EditsRecord
<1>9. QED
  BY <1>7, <1>8

(* A partition that was kept is formatted only after the operator chose a   *)
(* FORMAT for it in a dialog, on every set of devices and after every       *)
(* sequence of keys (README.md:376; pages/storage.c:285-636).  It takes     *)
(* that no path is planned twice: removing a disk moves others up.          *)
THEOREM NeverFormatsSilently == PageSpec => NoSilentFormat
<1>1. PageInit => PathsDistinct
  BY DEF PageInit, PathsDistinct
<1>2. PageInv /\ PathsDistinct /\ [PageNext]_pageVars => PathsDistinct'
  BY PathsStep
<1>3. PageInv /\ PathsDistinct /\ [PageNext]_pageVars =>
        [\A i \in DOMAIN disks \cap DOMAIN disks' :
          \A k \in DOMAIN disks[i].parts \cap DOMAIN disks'[i].parts :
             LET before == disks[i].parts[k]  after == disks'[i].parts[k] IN
             /\ disks[i].path = disks'[i].path /\ ~after.planned
             /\ before.ident = after.ident /\ before.action = "keep" /\ after.action = "format"
             => confirmed' = "format"]_pageVars
  BY NoSilentFormatStep DEF Turns
<1>4. QED
  BY <1>1, <1>2, <1>3, PageInvariant, PTL DEF PageSpec, NoSilentFormat
=============================================================================
