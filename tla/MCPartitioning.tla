--------------------------- MODULE MCPartitioning ---------------------------
(***************************************************************************)
(* Disks of a few sizes at and around the limits of validate_plan, whole and *)
(* odd numbers of sectors; memory sizes on both sides of each step of the     *)
(* swap recommendation.                                                      *)
(***************************************************************************)
EXTENDS Partitioning

MCMaxDisks == 2
MCTails    == {BackupTable, MiB}

(* 9 GiB is the least root-only disk; 25 GiB just holds root and 16 GiB of    *)
(* swap; 126 GiB just holds the layout with home and 16 GiB of swap.  2 MiB  *)
(* are enough for a data disk if sfdisk uses every sector.                   *)
MCSizes == {2 * MiB, 9 * GiB - 1, 9 * GiB, 9 * GiB + 1, 25 * GiB, 25 * GiB + 7, 126 * GiB, 200 * GiB + 1}

(* Unreadable; 4 GiB less some kernel memory; just 8 GiB.                     *)
MCMemories == {0, 4 * GiB - 3 * MiB - 2, 8 * GiB}

(* A sector more of swap, a bit more than one MiB, and all but one MiB less.  *)
MCEdits == {1, MiB + 5, MiB - 8 * GiB}

Kept(number, usage, action) ==
    [number |-> number, usage |-> usage, size |-> 10 * GiB, planned |-> FALSE, action |-> action]

(* On the second disk the table is not in the order of the numbers; the last *)
(* two are from plan files edited by hand, with a kept root and with two.    *)
MCKeptLayouts == {
    << Kept(1, "var", "format"), Kept(2, "unused", "keep"), Kept(3, "home", "keep") >>,
    << Kept(2, "boot", "keep"), Kept(4, "unused", "format"), Kept(3, "unused", "format"),
       Kept(5, "root", "format") >>,
    << Kept(1, "boot", "keep"), Kept(2, "root", "keep") >>,
    << Kept(1, "root", "format"), Kept(2, "boot", "format"), Kept(3, "root", "format") >> }
=============================================================================
