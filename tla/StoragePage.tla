---------------------------- MODULE StoragePage ----------------------------
(***************************************************************************)
(* The Storage page of the builder, src/src/ui/pages/storage.c: the plan's  *)
(* disks and partition records, the last device inventory, the selection    *)
(* and the two flags the rest of the builder relies on, dirty and           *)
(* target_identity_matches.  The page runs in one thread and its dialogs    *)
(* are modal, so one key with the answers given to its dialogs is one       *)
(* action; a dialog left with Esc changes nothing.  What is attached to the *)
(* machine changes on its own.                                              *)
(***************************************************************************)
EXTENDS PartitionPlan

CONSTANTS
    Devices,    \* the disks that may be found at a path
    MaxDisks,   \* AI_MAX_PLAN_DISKS
    OfferedPurposes, OfferedLayouts,   \* what the operator picks from in the
    OfferedFilesystems                 \* dialogs (bounds)

ASSUME DevicesAssumption == Devices \subseteq DiskInfo
ASSUME MaxDisksAssumption == MaxDisks \in Nat
ASSUME OfferedAssumption ==
    /\ OfferedPurposes \subseteq Purposes /\ OfferedLayouts \subseteq GuidedModes
    /\ OfferedFilesystems \subseteq Filesystems
ASSUME NoIdentAssumption == NoIdent \notin Idents

VARIABLES
    world,        \* the disks attached now
    inventory,    \* state->inventory, the disks last detected
    disks,        \* plan->storage.disks
    active_disk,  \* the disk the selection is on
    row,          \* the partition selected there; 0 is the disk's header
    target_identity_matches,
    dirty,
    confirmed     \* history: the last thing the operator asked for

pageVars == <<world, inventory, disks, active_disk, row, target_identity_matches, dirty,
              confirmed>>

Detected  == {<<>>} \cup {<<d>> : d \in Devices}
Inventory == [Paths -> Detected]

PageTypeOK ==
    /\ world \in Inventory /\ inventory \in Inventory
    /\ disks \in Seq(DiskRecord) /\ Len(disks) <= MaxDisks
    /\ active_disk \in Nat \ {0} /\ row \in Nat
    /\ target_identity_matches \in BOOLEAN /\ dirty \in BOOLEAN
    /\ confirmed \in {"nothing", "disk", "layout", "reload", "cfdisk", "keep", "format",
                      "purpose", "profile"}

(* run_tui on a plan that was not edited yet; the selection of the page. *)
PageInit ==
    /\ world \in Inventory /\ inventory = world /\ disks = <<>>
    /\ active_disk = 1 /\ row = 1
    /\ target_identity_matches = TRUE /\ dirty = FALSE /\ confirmed = "nothing"

-----------------------------------------------------------------------------
HasActive == active_disk <= Len(disks)
Active    == disks[active_disk]

(* handle_storage clamps the row before it looks at the key. *)
Row == IF row > Len(Active.parts) THEN Len(Active.parts) ELSE row
OnHeader    == HasActive /\ Row = 0
OnPartition == HasActive /\ Row > 0
Selected == Active.parts[Row]

ActiveDetected == inventory[Active.path]

(* A changed plan; the flag is computed anew only by some of the keys. *)
Edited(plan, what) ==
    /\ disks' = plan /\ dirty' = TRUE /\ confirmed' = what
    /\ UNCHANGED <<world, inventory>>
Recompared == target_identity_matches' = MatchesInventory(disks', inventory')

AddDisk(path) ==
    LET found == inventory[path] IN
    /\ found # <<>> /\ path \notin Planned(disks)
    /\ ~found[1].read_only /\ Len(disks) < MaxDisks
    /\ Edited(Append(disks, NewDisk(path, found[1])), "disk")
    /\ active_disk' = Len(disks) + 1 /\ row' = 0
    /\ Recompared

(* choose_layout, confirmed; the identity flag is left as it was. *)
ChooseLayout(mode) ==
    /\ OnHeader /\ ActiveDetected # <<>>
    /\ Edited([disks EXCEPT ![active_disk] = UseAutomatic(Active, mode)], "layout")
    /\ row' = 0 /\ UNCHANGED <<active_disk, target_identity_matches>>

ReloadExisting ==
    /\ OnHeader /\ ActiveDetected # <<>>
    /\ Edited([disks EXCEPT ![active_disk] = UseExisting(Active, ActiveDetected[1])], "reload")
    /\ row' = 0 /\ UNCHANGED active_disk
    /\ Recompared

(* A new inventory that is not compared with the plan. *)
RefreshKeepsFlag ==
    /\ inventory' = world /\ confirmed' = "nothing"
    /\ UNCHANGED <<world, disks, active_disk, row, target_identity_matches, dirty>>

(* detect_hardware succeeded; a failed detection changes only the status. *)
Refresh ==
    /\ inventory' = world /\ confirmed' = "nothing"
    /\ UNCHANGED <<world, disks, active_disk, row, dirty>>
    /\ Recompared

(* The selection does not move to another disk. *)
RemoveAndStay ==
    /\ OnHeader
    /\ Edited(RemoveDiskAt(disks, active_disk), "disk")
    /\ row' = 0 /\ UNCHANGED active_disk
    /\ Recompared

(* The selection always moves to the disk before. *)
RemoveAndStepBack ==
    /\ OnHeader
    /\ Edited(RemoveDiskAt(disks, active_disk), "disk")
    /\ row' = 0 /\ active_disk' = active_disk - 1
    /\ Recompared

RemoveActiveDisk ==
    /\ OnHeader
    /\ Edited(RemoveDiskAt(disks, active_disk), "disk")
    /\ active_disk' = IF active_disk > Len(disks) - 1 /\ active_disk > 1
                      THEN active_disk - 1 ELSE active_disk
    /\ row' = 0
    /\ Recompared

(* cfdisk left the device as found, then the page reloads its partitions;   *)
(* or the detection failed, or the disk is gone, and nothing is reloaded.   *)
CfdiskStarts == OnHeader /\ Active.mode = "existing"
CfdiskReloads(found) ==
    /\ CfdiskStarts /\ found # <<>>
    /\ world' = [world EXCEPT ![Active.path] = found] /\ inventory' = world'
    /\ disks' = [disks EXCEPT ![active_disk] =
                    UseExisting([Active EXCEPT !.gpt = found[1].gpt], found[1])]
    /\ dirty' = TRUE /\ row' = 0 /\ confirmed' = "cfdisk"
    /\ UNCHANGED active_disk
    /\ Recompared
CfdiskLosesDisk ==
    /\ CfdiskStarts
    /\ world' = [world EXCEPT ![Active.path] = <<>>] /\ inventory' = world'
    /\ target_identity_matches' = FALSE /\ confirmed' = "cfdisk"
    /\ UNCHANGED <<disks, active_disk, row, dirty>>
CfdiskThenRefreshFails(found) ==
    /\ CfdiskStarts
    /\ world' = [world EXCEPT ![Active.path] = found] /\ confirmed' = "cfdisk"
    /\ UNCHANGED <<inventory, disks, active_disk, row, target_identity_matches, dirty>>

-----------------------------------------------------------------------------
(* Keys on a partition. *)
Replaced(p) == [disks EXCEPT ![active_disk].parts[Row] = p]

(* Only a new purpose marks the plan. *)
DirtiedByPurpose(p) == dirty' = (dirty \/ p.usage # Selected.usage)

(* Only a difference in purpose, action or target marks the plan. *)
Dirtied(p) == dirty' = (dirty \/ p.usage # Selected.usage \/ p.action # Selected.action
                              \/ p.target # Selected.target)
SelectionStays ==
    /\ row' = Row
    /\ UNCHANGED <<world, inventory, active_disk, target_identity_matches>>

(* A new purpose asks for the file system action as well, except where the  *)
(* layout fixes it.                                                         *)
AsksFormat(p) == p.usage # "unused" /\ p.usage # Selected.usage /\ ~FixedRole(p)

AssignPurpose(usage) ==
    LET p == AssignUsage(Selected, Active.mode, usage) IN
    /\ OnPartition /\ MayAssign(Selected, Active.mode) /\ ~AsksFormat(p)
    /\ disks' = Replaced(p) /\ Dirtied(p) /\ confirmed' = "purpose"
    /\ SelectionStays

AssignPurposeAndFormat(usage, action, fs) ==
    LET assigned == AssignUsage(Selected, Active.mode, usage)
        p == SetAction(assigned, action, fs) IN
    /\ OnPartition /\ MayAssign(Selected, Active.mode) /\ AsksFormat(assigned)
    /\ ActionAllowed(assigned, action, fs)
    /\ disks' = Replaced(p) /\ dirty' = TRUE /\ confirmed' = action
    /\ SelectionStays

EditFormat(action, fs) ==
    LET p == SetAction(Selected, action, fs) IN
    /\ OnPartition /\ ActionAllowed(Selected, action, fs)
    /\ disks' = Replaced(p) /\ Dirtied(p) /\ confirmed' = action
    /\ SelectionStays

EditMountOptions(profile) ==
    /\ OnPartition /\ SupportsProfile(Selected, profile) /\ profile # Selected.profile
    /\ disks' = Replaced([Selected EXCEPT !.profile = profile])
    /\ dirty' = TRUE /\ confirmed' = "profile"
    /\ SelectionStays

(* Up and Down walk the headers and partitions of all disks as one list. *)
MoveUp ==
    /\ HasActive
    /\ IF Row > 0 THEN row' = Row - 1 /\ UNCHANGED active_disk
       ELSE /\ active_disk > 1 /\ active_disk' = active_disk - 1
            /\ row' = Len(disks[active_disk - 1].parts)
    /\ UNCHANGED <<world, inventory, disks, target_identity_matches, dirty, confirmed>>
MoveDown ==
    /\ HasActive
    /\ IF Row < Len(Active.parts) THEN row' = Row + 1 /\ UNCHANGED active_disk
       ELSE active_disk < Len(disks) /\ active_disk' = active_disk + 1 /\ row' = 0
    /\ UNCHANGED <<world, inventory, disks, target_identity_matches, dirty, confirmed>>

(* Entering the page again from the home page selects the first partition. *)
Reenter ==
    /\ row' = 1
    /\ UNCHANGED <<world, inventory, disks, active_disk, target_identity_matches, dirty,
                   confirmed>>

HeaderKeys ==
    \/ \E path \in Paths : AddDisk(path)
    \/ \E mode \in OfferedLayouts : ChooseLayout(mode)
    \/ ReloadExisting
    \/ Refresh
    \/ RemoveActiveDisk
    \/ \E found \in Detected : CfdiskReloads(found) \/ CfdiskThenRefreshFails(found)
    \/ CfdiskLosesDisk
PartitionKeys ==
    \/ \E usage \in OfferedPurposes : AssignPurpose(usage)
    \/ \E usage \in OfferedPurposes, action \in Actions, fs \in OfferedFilesystems :
           AssignPurposeAndFormat(usage, action, fs)
    \/ \E action \in Actions, fs \in OfferedFilesystems : EditFormat(action, fs)
    \/ \E profile \in Profiles : EditMountOptions(profile)
Moves == MoveUp \/ MoveDown \/ Reenter

(* A device is unplugged, replaced or repartitioned by somebody else. *)
DevicesChange ==
    /\ \E path \in Paths, found \in Detected :
           found # world[path] /\ world' = [world EXCEPT ![path] = found]
    /\ UNCHANGED <<inventory, disks, active_disk, row, target_identity_matches, dirty,
                   confirmed>>

PageNext == HeaderKeys \/ PartitionKeys \/ Moves \/ DevicesChange
PageSpec == PageInit /\ [][PageNext]_pageVars

-----------------------------------------------------------------------------
(* Every record the page can produce satisfies what validate_plan asks of   *)
(* its purpose, action, target and mount profile (validation.c:244-319),    *)
(* and every guided layout still has its fixed partitions (56-88): on these  *)
(* the editor and the validator agree after every sequence of keys.          *)
RecordIsSound(p, mode) == (Ignored(p) /\ ~p.planned) \/ PurposeIsSound(p, mode)
RecordsAreSound ==
    \A i \in DOMAIN disks :
        /\ LayoutMatchesMode(disks[i])
        /\ \A k \in DOMAIN disks[i].parts : RecordIsSound(disks[i].parts[k], disks[i].mode)

(* README.md:376: only an existing partition the operator switched to       *)
(* FORMAT is ever formatted.  A record of the same partition turns from     *)
(* KEEP to FORMAT only when the operator picked a FORMAT in a dialog.       *)
NoSilentFormat ==
    [][\A i \in DOMAIN disks \cap DOMAIN disks' :
          \A k \in DOMAIN disks[i].parts \cap DOMAIN disks'[i].parts :
             LET before == disks[i].parts[k]  after == disks'[i].parts[k] IN
             /\ disks[i].path = disks'[i].path /\ ~after.planned
             /\ before.ident = after.ident /\ before.action = "keep" /\ after.action = "format"
             => confirmed' = "format"]_pageVars

(* While target_identity_matches lets the builder generate, every planned   *)
(* path still had the planned disk, writable, at the last detection, as far *)
(* as the plan knows its serial number and model, whatever was edited,      *)
(* reloaded or removed since the flag was computed.                         *)
FlagCoversDisks ==
    target_identity_matches =>
        \A i \in DOMAIN disks : LET found == inventory[disks[i].path] IN
            found # <<>> /\ SameIdentity(disks[i].id, found[1].id) /\ ~found[1].read_only

(* The selection is on a disk of the plan as long as there is one: no key   *)
(* edits past the end of the list after disks were removed and added.       *)
SelectionInPlan == disks # <<>> => HasActive
=============================================================================
