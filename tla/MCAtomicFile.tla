---------------------------- MODULE MCAtomicFile ----------------------------
(***************************************************************************)
(* Two processes that save one file.                                         *)
(***************************************************************************)
EXTENDS AtomicFile, TLC

CONSTANTS p1, p2, d1, d2, n1, n2, n3

MCCallers == {p1, p2}
MCDocs    == {d1, d2}
MCNames   == {n1, n2, n3}

Interchangeable == Permutations(MCCallers) \cup Permutations(MCDocs) \cup Permutations(MCNames)
=============================================================================
