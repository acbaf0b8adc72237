----------------------------- MODULE MCBuilder -----------------------------
(* Two machines: one has a system disk whose two partitions may be used, or  *)
(* that gets a guided layout; the other has two disks with one partition    *)
(* each, which may be replaced.                                             *)
EXTENDS Builder

CONSTANTS sda, sdb, size1, serial1, model1, data1, data2, uuid1

Part(n, i, e, f, u) == [number |-> n, ident |-> i, esp |-> e, fs |-> f, uuid |-> u]
disk1 == [size |-> size1, serial |-> serial1, model |-> model1]
Disk(ps) == [id |-> disk1, gpt |-> TRUE, read_only |-> FALSE, parts |-> ps]

OnePath   == {sda}
TwoPaths  == {sda, sdb}
MCSizes   == {size1}
MCSerials == {serial1}
MCModels  == {model1}
MCIdents  == {data1, data2}
MCUuids   == {uuid1}

(* Either partition can be the EFI partition and the other one the root; the *)
(* file system of the second has no UUID by which it could be kept.         *)
SystemDevices == {Disk(<<Part(1, data1, TRUE, "vfat", uuid1), Part(2, data2, TRUE, "vfat", NoUuid)>>)}

DataDevices == {Disk(<<Part(1, i, FALSE, "ext4", uuid1)>>) : i \in MCIdents}

SystemPurposes == {"unused", "root", "boot"}
DataPurposes   == {"unused", "home"}
MCLayouts      == {"auto_root_only"}
MCFilesystems  == {"none", "ext4"}
=============================================================================
