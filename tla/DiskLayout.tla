----------------------------- MODULE DiskLayout -----------------------------
(***************************************************************************)
(* The sizes of a guided layout, counted in sectors of 512 bytes, from the   *)
(* moment the builder computes them to the moment the script compares them   *)
(* with the partitions it has made:                                          *)
(*   - what disk_plan_use_automatic plans and validate_plan accepts,         *)
(*   - what the script is told (whole MiB, emitters/disk.c),                 *)
(*   - what it asks of sfdisk and requires of the result                     *)
(*     (runtime-partitioning.sh, runtime-storage-validation.sh).             *)
(* A disk of a plan is [mode, size, parts]; a partition that was made is     *)
(* [start, size].                                                            *)
(***************************************************************************)
EXTENDS Integers, Sequences, FiniteSets

CONSTANT
    Tails       \* sectors sfdisk may leave free behind a partition that takes the rest

MiB == 2048
GiB == 1024 * MiB
BackupTable == 33       \* sectors of the second partition table, at the end of a disk

(* sfdisk ends a partition that takes the rest on the last usable sector or *)
(* on the alignment boundary before it.                                     *)
ASSUME TailsAssumption == Tails # {} /\ Tails \subseteq BackupTable .. 2 * MiB

GuidedModes == {"auto_root_swap", "auto_home_swap", "auto_root_only", "auto_data"}
Usages      == {"unused", "root", "boot", "home", "var", "usr", "opt", "swap"}

PlannedPartition == [number : Nat \ {0}, usage : Usages, size : Nat, planned : BOOLEAN,
                     action : {"keep", "format"}]

(* The sum of the first k of at most four numbers, as many as a guided disk *)
(* has partitions.                                                          *)
SumOfFirst(s, k) ==
    LET term(i) == IF i <= k THEN s[i] ELSE 0 IN term(1) + term(2) + term(3) + term(4)

-----------------------------------------------------------------------------
(* The plan. *)
(* Without the comparison the difference wraps around; here it is negative. *)
Unsaturated(a, b) == a - b

Saturated(a, b) == IF a > b THEN a - b ELSE 0

RecommendedSwap(memory) ==
    IF memory = 0 THEN 8 * GiB
    ELSE IF memory <= 8 * GiB THEN 2 * memory
    ELSE IF memory <= 64 * GiB THEN memory
    ELSE 8 * GiB

NewPartition(number, usage, size) ==
    [number |-> number, usage |-> usage, size |-> size, planned |-> TRUE, action |-> "format"]

AutomaticParts(mode, size, memory) ==
    LET rest   == Saturated(size, GiB)
        swap   == RecommendedSwap(memory)
        system == Saturated(rest, swap)
    IN CASE mode = "auto_data" -> << NewPartition(1, "unused", size) >>
         [] mode = "auto_root_only" ->
                << NewPartition(1, "boot", GiB), NewPartition(2, "root", rest) >>
         [] mode = "auto_root_swap" ->
                << NewPartition(1, "boot", GiB), NewPartition(2, "root", system),
                   NewPartition(3, "swap", swap) >>
         [] OTHER ->
                << NewPartition(1, "boot", GiB), NewPartition(2, "root", 100 * GiB),
                   NewPartition(3, "home", Saturated(system, 100 * GiB)),
                   NewPartition(4, "swap", swap) >>

CoversDisk(parts, size) == SumOfFirst([k \in DOMAIN parts |-> parts[k].size], Len(parts)) = size

(* What validate_plan requires of the sizes on a disk, on a computer with   *)
(* this memory.                                                             *)
SizesAreSound(d, memory) ==
    /\ \A k \in DOMAIN d.parts :
          LET p == d.parts[k] IN
          /\ p.planned => p.size \div MiB > 0
          /\ p.usage = "root" => p.size >= 8 * GiB
          /\ p.usage = "boot" => p.size >= 256 * MiB
          /\ p.usage = "boot" /\ d.mode \notin {"existing", "auto_data"} => p.size = GiB
          /\ d.mode = "auto_home_swap" /\ p.usage = "root" => p.size = 100 * GiB
          /\ d.mode = "auto_home_swap" /\ p.usage = "home" => p.size >= 8 * GiB
    /\ d.mode = "auto_home_swap" => d.size >= 110 * GiB + RecommendedSwap(memory)
    /\ d.mode # "existing" => CoversDisk(d.parts, d.size)

-----------------------------------------------------------------------------
(* What the script is told. *)
WholeMiB(d, usage) ==
    LET used == {k \in DOMAIN d.parts : d.parts[k].usage = usage}
    IN IF used = {} THEN 0
       ELSE d.parts[CHOOSE k \in used : \A other \in used : k <= other].size \div MiB

(* The space for the two partition tables is not taken from the partition. *)
NoSlackMiB(d, usage) == WholeMiB(d, usage)

FlexibleMiB(d, usage) == Saturated(WholeMiB(d, usage), 2)

EmittedMiB(d, usage) ==
    IF \/ d.mode = "auto_root_swap" /\ usage = "root"
       \/ d.mode = "auto_home_swap" /\ usage = "home"
    THEN FlexibleMiB(d, usage) ELSE WholeMiB(d, usage)

-----------------------------------------------------------------------------
(* What the script does with it. *)
LayoutCheckPasses(d) ==
    CASE d.mode = "auto_data" -> TRUE
      [] d.mode = "auto_root_only" ->
            EmittedMiB(d, "boot") > 0 /\ d.size > (EmittedMiB(d, "boot") + 8192) * MiB
      [] d.mode = "auto_root_swap" ->
            \A usage \in {"boot", "root", "swap"} : EmittedMiB(d, usage) > 0
      [] OTHER ->
            \A usage \in {"boot", "root", "home", "swap"} : EmittedMiB(d, usage) > 0

(* The sizes in MiB, in the order of the partitions; zero takes the rest. *)
SfdiskSizes(d) ==
    LET mib(usage) == EmittedMiB(d, usage) IN
    CASE d.mode = "auto_data"      -> << 0 >>
      [] d.mode = "auto_root_only" -> << mib("boot"), 0 >>
      [] d.mode = "auto_root_swap" -> << mib("boot"), mib("root"), mib("swap") >>
      [] OTHER -> << mib("boot"), mib("root"), mib("home"), mib("swap") >>

(* sfdisk starts the first partition at 1 MiB and the next where it ends. *)
SfdiskTable(d, tail) ==
    LET sizes    == SfdiskSizes(d)
        start(k) == MiB + MiB * SumOfFirst(sizes, k - 1)
    IN [k \in DOMAIN sizes |->
           [start |-> start(k),
            size  |-> IF sizes[k] = 0 THEN d.size - tail - start(k) ELSE sizes[k] * MiB]]

TableFits(d, table) ==
    \A k \in DOMAIN table :
        table[k].size > 0 /\ table[k].start + table[k].size <= d.size - BackupTable

(* verify_created_partition on the partition a record of disk d names, given *)
(* the table of that disk and whether the record before it is listed.        *)
CreatedAccepted(d, p, table, listed) ==
    LET made     == table[p.number]
        before   == table[p.number - 1]
        gap      == made.start - (before.start + before.size)
        expected == IF d.mode = "auto_data" \/ (d.mode = "auto_root_only" /\ p.usage = "root")
                       \/ p.usage \notin {"boot", "root", "home", "swap"}
                    THEN 0 ELSE EmittedMiB(d, p.usage)
        left     == d.size - made.start - made.size
    IN /\ IF p.number = 1 THEN made.start \in 1 .. 64 * MiB
          ELSE p.number - 1 \in listed /\ gap \in 0 .. 64 * MiB
       /\ IF expected > 0 THEN made.size = expected * MiB
          ELSE made.size \in p.size - 64 * MiB .. p.size /\ left \in 0 .. 64 * MiB
=============================================================================
