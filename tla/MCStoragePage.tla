--------------------------- MODULE MCStoragePage ---------------------------
(* Devices on which TLC runs the Storage page and the builder.              *)
EXTENDS StoragePage, TLC

CONSTANTS sda, sdb, size1, serial1, model1, data1, data2, uuid1, uuid2

Part(n, i, e, f, u) == [number |-> n, ident |-> i, esp |-> e, fs |-> f, uuid |-> u]
(* Two disks that only their serial numbers tell apart, and one has none:   *)
(* where it was planned the other one passes for it, but not vice versa.    *)
disk1 == [size |-> size1, serial |-> Blank, model |-> model1]
disk2 == [size |-> size1, serial |-> serial1, model |-> model1]
Disk(d, ps) == [id |-> d, gpt |-> TRUE, read_only |-> FALSE, parts |-> ps]

MCPaths   == {sda, sdb}
OnePath   == {sda}

(* A path is only ever compared with another. *)
PathSymmetry == Permutations(MCPaths)

MCSizes   == {size1}
MCSerials == {serial1}
MCModels  == {model1}
MCIdents  == {data1, data2}
MCUuids   == {uuid1, uuid2}

(* One partition: ext4, swap, or a disk of another identity. *)
OnePart   == Disk(disk1, <<Part(1, data1, FALSE, "ext4", uuid1)>>)
SwapPart  == Disk(disk1, <<Part(1, data1, FALSE, "swap", uuid2)>>)
OtherDisk == Disk(disk2, <<Part(1, data2, FALSE, "ext4", uuid1)>>)

VfatPart  == Disk(disk1, <<Part(1, data1, TRUE, "vfat", uuid1)>>)
F2fsPart  == Disk(disk1, <<Part(1, data1, FALSE, "f2fs", uuid1)>>)

RecordDevices == {OnePart, VfatPart, F2fsPart, SwapPart}
PlanDevices   == {OnePart, OtherDisk}

AllPurposes    == Purposes
SomePurposes   == {"unused", "home"}
AllLayouts     == GuidedModes
SomeLayouts    == {"auto_data"}
AllFilesystems == Filesystems
OneFilesystem  == {"none", "ext4"}
=============================================================================
