--------------------------- MODULE LsblkInventory ----------------------------
(***************************************************************************)
(* detect_hardware (detector/storage.c): the translation of lsblk's device  *)
(* trees into the disks and partitions the builder works with.  A device is *)
(* [name, type, mounted, rm, usb, children]; children is a sequence.        *)
(***************************************************************************)
EXTENDS Integers, SequencesExt

CONSTANTS
    AI_MAX_DISKS,      \* capacity of HardwareInventory.disks
    MaxPartsPerDisk,   \* AI_MAX_PARTITIONS, capacity of DiskInfo.partitions
    MaxDepth,          \* how deep json_tokener_parse lets objects nest
    Devices            \* every device of the trees lsblk may answer with

Depth[item \in Devices] == Max({0} \cup {Depth[child] + 1 : child \in ToSet(item.children)})

ASSUME DevicesAssumption ==
    /\ AI_MAX_DISKS \in Nat /\ MaxPartsPerDisk \in Nat /\ MaxDepth \in Nat
    /\ \A item \in Devices :
          /\ {item.mounted, item.rm, item.usb} \subseteq BOOLEAN
          /\ item.children \in Seq(Devices)
          /\ Depth[item] \in 0 .. MaxDepth
          /\ \A child \in ToSet(item.children) : Depth[child] < Depth[item]

(* What lies beneath a device, each before its own children: the order in   *)
(* which collect_partitions and its calls of itself come to it.             *)
Visited[item \in Devices] ==
    FlattenSeq([k \in DOMAIN item.children |->
                   <<item.children[k]>> \o Visited[item.children[k]]])

CollectFlat(disk, item) ==
    [disk EXCEPT !.partitions = IF item.type = "part" THEN Append(@, item.name) ELSE @,
                 !.in_use = @ \/ item.mounted]

(* What collect_partitions does with one device: a partition is stored      *)
(* while there is room, a mount or a stacked device makes the whole disk    *)
(* one in use.                                                              *)
CollectDevice(disk, item) ==
    [disk EXCEPT
        !.partitions = IF item.type = "part" /\ Len(@) < MaxPartsPerDisk
                       THEN Append(@, item.name) ELSE @,
        !.in_use = @ \/ item.mounted \/ item.type \notin {"", "part"}]

(* The disk after each of the devices visited. *)
CollectedUpTo(disk, visited) ==
    LET upTo[n \in 0 .. Len(visited)] ==
            IF n = 0 THEN disk ELSE CollectDevice(upTo[n - 1], visited[n])
    IN  upTo

EmptyDisk(item) ==
    [path |-> item.name, partitions |-> <<>>,
     removable |-> item.rm \/ item.usb, in_use |-> item.mounted]
DiskInfo(item) == CollectedUpTo(EmptyDisk(item), Visited[item])[Len(Visited[item])]

IsDisk(item) == item.type = "disk"

(* Only whole disks at the top level, and no more than the model can hold.  *)
FoundUpTo(devices) ==
    LET upTo[n \in 0 .. Len(devices)] ==
            IF n = 0 THEN <<>>
            ELSE IF IsDisk(devices[n]) /\ Len(upTo[n - 1]) < AI_MAX_DISKS
                 THEN Append(upTo[n - 1], DiskInfo(devices[n])) ELSE upTo[n - 1]
    IN  upTo
Detected(devices) == FoundUpTo(devices)[Len(devices)]

-----------------------------------------------------------------------------
(* The reference: what lsblk said, read without regard to the order of the  *)
(* traversal or to where a device hangs in the tree.                        *)
Beneath[item \in Devices] ==
    UNION {{child} \cup Beneath[child] : child \in ToSet(item.children)}

Occupied(item) ==
    item.mounted \/ \E below \in Beneath[item] : below.mounted \/ below.type \notin {"", "part"}

PartitionNames(item) == {below.name : below \in {x \in Beneath[item] : x.type = "part"}}

(* A partition is missing only when every place is taken.                   *)
Faithful(disk, item) ==
    /\ disk.path = item.name
    /\ disk.in_use = Occupied(item)
    /\ disk.removable = (item.rm \/ item.usb)
    /\ ToSet(disk.partitions) \subseteq PartitionNames(item)
    /\ Len(disk.partitions) <= MaxPartsPerDisk
    /\ Len(disk.partitions) < MaxPartsPerDisk => ToSet(disk.partitions) = PartitionNames(item)

(* An inventory the storage page may rely on: the disks lsblk listed, in    *)
(* its order, all of them unless there are too many, none in use unseen.    *)
DisksAmong(devices, n) == {k \in 1 .. n : IsDisk(devices[k])}

WholeInventory(inventory, devices) ==
    LET disks == DisksAmong(devices, Len(devices))
    IN  /\ Len(inventory) = Min({Cardinality(disks), AI_MAX_DISKS})
        /\ \A k \in disks :
              LET place == Cardinality(DisksAmong(devices, k))
              IN  place <= AI_MAX_DISKS => Faithful(inventory[place], devices[k])
=============================================================================
