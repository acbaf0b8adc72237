---------------------------- MODULE Partitioning ----------------------------
(***************************************************************************)
(* From a plan to the partitions on the disks: the builder plans disks and   *)
(* validates the plan, the generator lists the partitions to work on in the  *)
(* order the script handles them (emitters/partition.c), and the script      *)
(* erases and rebuilds one guided disk after the other (partition_disk) and  *)
(* then verifies every listed partition (wait_for_partitions).               *)
(***************************************************************************)
EXTENDS DiskLayout, SequencesExt

CONSTANTS
    MaxDisks,       \* bound: disks of a plan
    Sizes,          \* sizes of disks, in sectors
    Memories,       \* sizes of memory, in sectors; 0: it cannot be read
    Edits,          \* sectors that a hand-edited plan file moves between two partitions
    KeptLayouts     \* partition records an existing disk may bring into a plan

ASSUME LayoutsAssumption ==
    /\ Sizes \subseteq Nat /\ Memories \subseteq Nat /\ Edits \subseteq Int
    /\ KeptLayouts \subseteq Seq(PlannedPartition)

VARIABLES
    stage,      \* "plan", "erase", "verify", "done", "died"
    memory,     \* of the computer the builder runs on
    plan,       \* the disks of the plan
    listed,     \* the PART_* arrays of the script, as PartitionRef: disk, place on it, record
    at,         \* the disk to rebuild, or the listed partition to verify
    tables      \* the partitions sfdisk made on each disk

vars == <<stage, memory, plan, listed, at, tables>>

DiskPlan ==
    [mode : GuidedModes \cup {"existing"}, size : Nat, parts : Seq(PlannedPartition)]

TypeOK ==
    /\ stage \in {"plan", "erase", "verify", "done", "died"}
    /\ memory \in Memories
    /\ plan \in Seq(DiskPlan)
    /\ \A k \in DOMAIN listed : LET e == listed[k] IN
          e.disk \in DOMAIN plan /\ e.index \in DOMAIN plan[e.disk].parts /\ e.part \in PlannedPartition
    /\ at \in Nat \ {0}
    /\ tables \in [DOMAIN plan -> Seq([start : Nat, size : Nat])]

-----------------------------------------------------------------------------
(* The order of the listed partitions. *)
MountOrder == [usage \in {"boot", "home", "opt", "usr", "var"} |->
    CASE usage = "boot" -> 1 [] usage = "home" -> 2 [] usage = "opt" -> 3
      [] usage = "usr" -> 4 [] OTHER -> 5]

(* Swap is not told from a directory. *)
RootThenAnything(left, right) == left.usage = "root" /\ right.usage # "root"

(* partition_order(left, right) < 0 *)
GoesBefore(left, right) ==
    LET one(usage) == left.usage = usage \/ right.usage = usage IN
    IF one("root") THEN left.usage = "root" /\ right.usage # "root"
    ELSE IF one("unused") THEN left.usage # "unused"  /\ right.usage = "unused"
    ELSE IF one("swap") THEN left.usage # "swap" /\ right.usage = "swap"
    ELSE MountOrder[left.usage] < MountOrder[right.usage]

Actionable(p) == p.usage # "unused" \/ p.action = "format" \/ p.planned

(* The new entry moves up past every entry it goes before. *)
InsertSorted(entries, e) ==
    LET stops == {k \in DOMAIN entries : ~GoesBefore(e.part, entries[k].part)}
        place == IF stops = {} THEN 1 ELSE 1 + Max(stops)
    IN InsertAt(entries, place, e)

(* The records of the plan as the two loops visit them, up to each disk.    *)
RecordsOf(i, d) == [k \in DOMAIN d.parts |-> [disk |-> i, index |-> k, part |-> d.parts[k]]]

RecordsUpTo(disks) ==
    LET upTo[i \in 0 .. Len(disks)] ==
            IF i = 0 THEN <<>> ELSE upTo[i - 1] \o RecordsOf(i, disks[i])
    IN upTo

(* What is listed of the first records. *)
ListedUpTo(records) ==
    LET upTo[n \in 0 .. Len(records)] ==
            IF n = 0 THEN <<>>
            ELSE IF Actionable(records[n].part) THEN InsertSorted(upTo[n - 1], records[n])
            ELSE upTo[n - 1]
    IN upTo

CollectActionable(disks) ==
    LET records == RecordsUpTo(disks)[Len(disks)] IN ListedUpTo(records)[Len(records)]

-----------------------------------------------------------------------------
(* validate_plan, as far as sizes, purposes and actions go. *)
ActionsAreSound(d) ==
    \A k \in DOMAIN d.parts :
        LET p == d.parts[k] IN
        /\ p.planned => p.action = "format" /\ d.mode # "existing"
        /\ p.usage \in {"root", "var", "usr"} => p.action = "format"

AssignedTo(usage) ==
    {pair \in UNION {{<<i, k>> : k \in DOMAIN plan[i].parts} : i \in DOMAIN plan} :
        plan[pair[1]].parts[pair[2]].usage = usage}

PlanIsValid ==
    /\ \A i \in DOMAIN plan : SizesAreSound(plan[i], memory) /\ ActionsAreSound(plan[i])
    /\ \A usage \in Usages \ {"unused"} : Cardinality(AssignedTo(usage)) <= 1
    /\ \E root \in AssignedTo("root"), boot \in AssignedTo("boot") : root[1] = boot[1]

Init ==
    /\ stage = "plan"
    /\ memory \in Memories
    /\ plan = <<>>
    /\ listed = <<>>
    /\ at = 1
    /\ tables = <<>>

-----------------------------------------------------------------------------
(***************************************************************************)
(* The builder.                                                             *)
(***************************************************************************)
AddDisk(d) ==
    /\ stage = "plan"
    /\ Len(plan) < MaxDisks
    /\ plan' = Append(plan, d)
    /\ tables' = Append(tables, <<>>)
    /\ UNCHANGED <<stage, memory, listed, at>>

PlanGuided ==
    \E mode \in GuidedModes, size \in Sizes :
        AddDisk([mode |-> mode, size |-> size, parts |-> AutomaticParts(mode, size, memory)])

PlanExisting ==
    \E parts \in KeptLayouts, size \in Sizes :
        AddDisk([mode |-> "existing", size |-> size, parts |-> parts])

(* The only partition of a data disk gets a purpose. *)
AssignData ==
    /\ stage = "plan"
    /\ \E i \in DOMAIN plan, usage \in Usages \ {"boot", "root"} :
          /\ plan[i].mode = "auto_data"
          /\ plan' = [plan EXCEPT ![i].parts[1].usage = usage]
    /\ UNCHANGED <<stage, memory, listed, at, tables>>

(* A plan file is loaded with other sizes than those computed (bound: one   *)
(* change per disk).                                                        *)
EditPlanFile ==
    /\ stage = "plan"
    /\ \E i \in DOMAIN plan, by \in Edits :
          LET parts == plan[i].parts IN
          /\ plan[i].mode # "existing" /\ Len(parts) > 2
          /\ parts = AutomaticParts(plan[i].mode, plan[i].size, memory)
          /\ by <= parts[2].size /\ 0 <= parts[Len(parts)].size + by
          /\ plan' = [plan EXCEPT ![i].parts[2].size = @ - by,
                                  ![i].parts[Len(parts)].size = @ + by]
    /\ UNCHANGED <<stage, memory, listed, at, tables>>

Generate ==
    /\ stage = "plan"
    /\ PlanIsValid
    /\ listed' = CollectActionable(plan)
    /\ stage' = "erase"
    /\ UNCHANGED <<memory, plan, at, tables>>

-----------------------------------------------------------------------------
(***************************************************************************)
(* The script.                                                              *)
(***************************************************************************)
Die == stage' = "died" /\ UNCHANGED <<memory, plan, listed, at, tables>>

(* partition_disk passes over a disk whose partitions are used as they are. *)
SkipExisting ==
    /\ stage = "erase" /\ at \in DOMAIN plan
    /\ plan[at].mode = "existing"
    /\ at' = at + 1
    /\ UNCHANGED <<stage, memory, plan, listed, tables>>

RejectLayout ==
    /\ stage = "erase" /\ at \in DOMAIN plan
    /\ plan[at].mode # "existing" /\ ~LayoutCheckPasses(plan[at])
    /\ Die

(* wipefs and sfdisk: when sfdisk fails the old table is gone already. *)
Rebuild(tail) ==
    /\ stage = "erase" /\ at \in DOMAIN plan
    /\ plan[at].mode # "existing" /\ LayoutCheckPasses(plan[at])
    /\ LET made == SfdiskTable(plan[at], tail) IN
       IF TableFits(plan[at], made)
       THEN /\ tables' = [tables EXCEPT ![at] = made]
            /\ at' = at + 1
            /\ UNCHANGED stage
       ELSE stage' = "died" /\ UNCHANGED <<tables, at>>
    /\ UNCHANGED <<memory, plan, listed>>

AllRebuilt ==
    /\ stage = "erase" /\ at \notin DOMAIN plan
    /\ stage' = "verify" /\ at' = 1
    /\ UNCHANGED <<memory, plan, listed, tables>>

ListedNumbers(i) == {listed[k].part.number : k \in {j \in DOMAIN listed : listed[j].disk = i}}

(* wait_for_partitions verifies what was made; verify_existing_partition is *)
(* part of Installer.                                                       *)
VerifyPartition ==
    /\ stage = "verify" /\ at \in DOMAIN listed
    /\ LET e == listed[at]
           d == plan[e.disk]
       IN IF d.mode = "existing" \/ CreatedAccepted(d, e.part, tables[e.disk], ListedNumbers(e.disk))
          THEN at' = at + 1 /\ UNCHANGED stage
          ELSE stage' = "died" /\ UNCHANGED at
    /\ UNCHANGED <<memory, plan, listed, tables>>

AllVerified ==
    /\ stage = "verify" /\ at \notin DOMAIN listed
    /\ stage' = "done"
    /\ UNCHANGED <<memory, plan, listed, at, tables>>

Next ==
    \/ PlanGuided
    \/ PlanExisting
    \/ AssignData
    \/ EditPlanFile
    \/ Generate
    \/ SkipExisting
    \/ RejectLayout
    \/ \E tail \in Tails : Rebuild(tail)
    \/ AllRebuilt
    \/ VerifyPartition
    \/ AllVerified

Spec == Init /\ [][Next]_vars

-----------------------------------------------------------------------------
(***************************************************************************)
(* Properties.                                                              *)
(***************************************************************************)

(* The promise "The root partition must be at least 8 GiB."                 *)
(* (src/model/validation.c:325) is also what the script requires: a layout  *)
(* the builder accepts is never refused once the user has confirmed.        *)
AcceptedLayoutIsNotRefused ==
    stage = "died" /\ at \in DOMAIN plan => LayoutCheckPasses(plan[at])

(* With whatever size the disk has, odd or not a whole number of MiB, and   *)
(* however the sizes of a plan file were edited, a validated plan is carried *)
(* out: sfdisk finds the space it is asked for and every partition it makes *)
(* passes verify_created_partition.  The exceptions are the root-only disk   *)
(* of exactly 9 GiB (see AcceptedLayoutIsNotRefused) and a data disk that    *)
(* has no room beside the two partition tables, for which validate_plan asks *)
(* one MiB.                                                                 *)
ValidatedPlanIsBuilt ==
    stage = "died" =>
        /\ at \in DOMAIN plan
        /\ \/ plan[at].mode = "auto_root_only" /\ plan[at].size = 9 * GiB
           \/ plan[at].mode = "auto_data" /\ plan[at].size <= 3 * MiB

(* The script formats and mounts in the order of the arrays: root before any *)
(* directory in it, swap after the directories, partitions without a purpose *)
(* last, and partitions that tie in the order of the plan.                   *)
RankOf(p) == CASE p.usage = "root" -> 0 [] p.usage = "swap" -> 6 [] p.usage = "unused" -> 7
               [] OTHER -> MountOrder[p.usage]

InMountOrder ==
    \A j, k \in DOMAIN listed : j < k =>
        LET left == listed[j] right == listed[k] IN
        \/ RankOf(left.part) < RankOf(right.part)
        \/ /\ RankOf(left.part) = RankOf(right.part)
           /\ \/ left.disk < right.disk
              \/ left.disk = right.disk /\ left.index < right.index

(* What the installer modules assume of the arrays (Emitted of               *)
(* InstallerState): the first entry is the one root, a partition without a   *)
(* purpose is listed only to be formatted, and so is one of a guided disk.   *)
StartsWithRoot == \A k \in DOMAIN listed : listed[k].part.usage = "root" <=> k = 1
FormatsWhatItMust ==
    \A k \in DOMAIN listed :
        LET e == listed[k] IN
        e.part.usage \in {"root", "unused"} \/ plan[e.disk].mode # "existing" => e.part.action = "format"

(* The arrays of a generated script have the order in which the script can   *)
(* mount them, and the shape the installer relies on, for plans of several   *)
(* disks and whatever records their partition tables and plan files bring.   *)
ListedInMountOrder == InMountOrder /\ StartsWithRoot /\ FormatsWhatItMust
=============================================================================
