----------------------------- MODULE AtomicCell -----------------------------
(***************************************************************************)
(* What the callers of atomic_write_file rely on: a file is a cell that      *)
(* holds one whole document at a time.  A call replaces the document at one  *)
(* moment or not at all, and its answer says which; a call that is killed    *)
(* has done either, and answers nothing.  A power failure may bring back a   *)
(* document of the time before, because the directory is not synchronized,   *)
(* but it never makes up one.                                                *)
(***************************************************************************)
EXTENDS Naturals

CONSTANTS
    Callers,    \* processes that save the file
    Docs,       \* whole documents
    Missing,    \* there is no file
    Special     \* a link, a directory or a device has the name of the file

VARIABLES
    cell,       \* what the name of the file stands for
    durable,    \* what a power failure may make it stand for
    asked,      \* the document each caller saves
    call        \* "none", "begun", "replaced", "true", "false"

cellVars == <<cell, durable, asked, call>>

Init ==
    /\ cell \in Docs \cup {Missing}
    /\ durable = {cell}
    /\ asked \in [Callers -> Docs]
    /\ call = [w \in Callers |-> "none"]

Put(value) == cell' = value /\ durable' = durable \cup {value}

Begin(w) ==
    /\ call[w] \in {"none", "true", "false"}
    /\ \E doc \in Docs : asked' = [asked EXCEPT ![w] = doc]
    /\ call' = [call EXCEPT ![w] = "begun"]
    /\ UNCHANGED <<cell, durable>>

Replace(w) ==
    /\ call[w] = "begun"
    /\ Put(asked[w])
    /\ call' = [call EXCEPT ![w] = "replaced"]
    /\ UNCHANGED asked

Answer(w) ==
    /\ \/ call[w] = "replaced" /\ call' = [call EXCEPT ![w] = "true"]
       \/ call[w] = "begun" /\ call' = [call EXCEPT ![w] = "false"]
    /\ UNCHANGED <<cell, durable, asked>>

Lost(w) ==
    /\ call[w] \in {"begun", "replaced"}
    /\ call' = [call EXCEPT ![w] = "none"]
    /\ UNCHANGED <<cell, durable, asked>>

(* Somebody else removes the file or puts something else in its place. *)
Disturb ==
    /\ \E value \in {Missing, Special} : Put(value)
    /\ UNCHANGED <<asked, call>>

Settle == durable' = {cell} /\ UNCHANGED <<cell, asked, call>>

PowerFailure ==
    /\ \E value \in durable : cell' = value /\ durable' = {value}
    /\ call' = [w \in Callers |-> "none"]
    /\ UNCHANGED asked

Next ==
    \/ \E w \in Callers : Begin(w) \/ Replace(w) \/ Answer(w) \/ Lost(w)
    \/ Disturb
    \/ Settle
    \/ PowerFailure

Spec == Init /\ [][Next]_cellVars
=============================================================================
