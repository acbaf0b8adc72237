------------------------------- MODULE PlanFile -------------------------------
(***************************************************************************)
(* plan_load_json and plan_save_json (model/json.c): which plan files are   *)
(* accepted, and what they become in memory.  A file is                     *)
(*   [json, version, disks, partitions, fields, mode, size, number, usage,  *)
(*    text, system]                                                         *)
(* that is, its syntax, the lengths of its arrays, whether every field is   *)
(* there with its type, and one representative of each kind of value: an    *)
(* enumeration of a disk and of a partition, a 64-bit size, the unsigned    *)
(* partition number, a text, and the settings.  Integer widths are scaled.  *)
(***************************************************************************)
EXTENDS Integers, PackageGroups

CONSTANTS
    IntMax,        \* INT_MAX
    UintMax,       \* UINT_MAX
    Int64Max,      \* INT64_MAX
    Uint64Max,     \* UINT64_MAX
    MaxPlanDisks,  \* AI_MAX_PLAN_DISKS
    MaxPlanParts   \* AI_MAX_PARTITIONS as the schema checks it

(* An int holds every value of an enumeration, and more. *)
ASSUME WidthAssumption ==
    /\ {IntMax, UintMax, Int64Max, Uint64Max} \subseteq Nat
    /\ 7 < IntMax /\ IntMax < UintMax /\ UintMax < Int64Max /\ Int64Max < Uint64Max

(* Files as JSON can hold them: any integers, and nothing in the place of a *)
(* value whose disk or partition does not exist.                            *)
JsonFiles ==
    [json : BOOLEAN, fields : BOOLEAN, version : Int, disks : Nat, partitions : Nat, mode : Int,
     size : Int, number : Int, usage : Int, text : {"", "short", "long"}, system : Settings]

NothingElse(file) ==
    /\ file.disks = 0 => file.partitions = 0 /\ file.mode = 0 /\ file.size = 0
    /\ file.partitions = 0 => file.number = 0 /\ file.usage = 0

AI_PLAN_VERSION == 4
StorageModes    == 0 .. 4    \* STORAGE_EXISTING .. STORAGE_AUTO_DATA
PartUsages      == 0 .. 7    \* PART_UNUSED .. PART_SWAP

Clamp(value, low, high) == IF value < low THEN low ELSE IF value > high THEN high ELSE value

(* json_object_get_int, _int64 and _uint64 saturate. *)
GetInt(value)    == Clamp(value, -IntMax - 1, IntMax)
GetInt64(value)  == Clamp(value, -Int64Max - 1, Int64Max)
GetUint64(value) == Clamp(value, 0, Uint64Max)

RequireIntRange(value, enum) == GetInt(value) \in enum
RequireNonnegative(value, maximum) == GetInt64(value) \in 0 .. maximum

(* Syntax, version, required fields with their types (an enumeration of the  *)
(* settings out of range is refused like a missing one), array capacities;   *)
(* then every disk and every partition.                                      *)
ValidSchema(file) ==
    /\ file.fields
    /\ file.disks <= MaxPlanDisks
    /\ file.disks > 0 =>
        /\ RequireIntRange(file.mode, StorageModes)
        /\ RequireNonnegative(file.size, Int64Max)
        /\ file.partitions <= MaxPlanParts
        /\ file.partitions > 0 =>
            /\ RequireNonnegative(file.number, UintMax)
            /\ RequireIntRange(file.usage, PartUsages)

Accepted(file) ==
    file.json /\ GetInt64(file.version) = AI_PLAN_VERSION /\ ValidSchema(file)

(* copy_text cuts what its buffer cannot hold. *)
CopyText(text) == IF text = "long" THEN "cut" ELSE text

LoadedNarrow(file) ==
    [disks |-> file.disks, partitions |-> file.partitions,
     mode |-> GetInt(file.mode), size |-> GetInt(file.size),
     number |-> GetInt(file.number), usage |-> GetInt(file.usage),
     text |-> CopyText(file.text), system |-> file.system]

(* The plan in memory after load_disk_json and load_partitions_json: sizes  *)
(* are read as unsigned 64-bit integers, which hold more than the schema's  *)
(* signed ones, and the partition number with the 32 bits of an int.        *)
Loaded(file) ==
    [disks |-> file.disks, partitions |-> file.partitions,
     mode |-> GetInt(file.mode), size |-> GetUint64(file.size),
     number |-> GetInt(file.number), usage |-> GetInt(file.usage),
     text |-> CopyText(file.text), system |-> file.system]

(* What plan_save_json writes for a plan in memory. *)
Saved(plan) ==
    [json |-> TRUE, version |-> AI_PLAN_VERSION, fields |-> TRUE,
     disks |-> plan.disks, partitions |-> plan.partitions, mode |-> plan.mode,
     size |-> plan.size, number |-> plan.number, usage |-> plan.usage,
     text |-> plan.text, system |-> plan.system]

(* A file the program itself may have written: its values come from the     *)
(* model, where a size is a uint64_t, a text fits its buffer and lsblk      *)
(* numbers no partition beyond INT_MAX.                                     *)
Representable(file) == file.size <= Uint64Max /\ file.number <= IntMax /\ file.text # "long"
=============================================================================
