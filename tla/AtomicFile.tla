----------------------------- MODULE AtomicFile -----------------------------
(***************************************************************************)
(* atomic_write_file (src/common/atomic_file.c), through which the plan, the *)
(* package configuration and the generated script are saved: several         *)
(* processes may save the same file, any step may fail, a process may be     *)
(* killed and the power may fail between any two steps.                      *)
(*                                                                          *)
(* The file system is external: rename replaces a name at one moment, data   *)
(* are safe once fsync has returned, and a change of a directory becomes     *)
(* durable at some later time (Settle).                                      *)
(***************************************************************************)
EXTENDS Naturals, FiniteSets

CONSTANTS
    Callers, Docs, Missing, Special,
    Names,          \* names mkstemp may choose from
    MaxBegun,       \* bound: calls of all processes together
    MaxHarm         \* bound: kills, power failures and disturbances together

ASSUME ConstantsAssumption ==
    /\ Missing \notin Docs /\ Special \notin Docs
    /\ MaxBegun \in Nat /\ MaxHarm \in Nat

VARIABLES
    target,     \* the file the name stands for
    survivors,  \* the files the name may stand for after a power failure
    temps,      \* the temporary files
    at,         \* where each process is in atomic_write_file
    doc,        \* the document it saves
    name,       \* the name mkstemp gave it
    orphans,    \* names left by killed processes
    late,       \* processes that passed the check before the target was disturbed
    begun, harm

fileVars == <<target, survivors, temps>>
vars == <<target, survivors, temps, at, doc, name, orphans, late, begun, harm>>

File      == [doc : Docs, whole : BOOLEAN, synced : BOOLEAN]
NoFile    == [doc |-> Missing, whole |-> TRUE, synced |-> TRUE]
NotAFile  == [doc |-> Special, whole |-> TRUE, synced |-> TRUE]
Entry     == File \cup {NoFile, NotAFile}

Returned  == {"idle", "true", "false"}
WithTemp  == {"prepare", "write", "sync", "close", "rename", "undo"}
Places    == Returned \cup WithTemp \cup {"inspect", "create", "replaced"}

TypeOK ==
    /\ target \in Entry
    /\ survivors \subseteq Entry
    /\ temps \in [Names -> File \cup {NoFile}]
    /\ at \in [Callers -> Places]
    /\ doc \in [Callers -> Docs]
    /\ name \in [Callers -> Names]
    /\ orphans \subseteq Names
    /\ late \subseteq Callers
    /\ begun \in 0 .. MaxBegun
    /\ harm \in 0 .. MaxHarm

Init ==
    /\ target \in {NoFile} \cup {[doc |-> d, whole |-> TRUE, synced |-> TRUE] : d \in Docs}
    /\ survivors = {target}
    /\ temps = [n \in Names |-> NoFile]
    /\ at = [w \in Callers |-> "idle"]
    /\ doc \in [Callers -> Docs]
    /\ name \in [Callers -> Names]
    /\ orphans = {}
    /\ late = {}
    /\ begun = 0 /\ harm = 0

-----------------------------------------------------------------------------
Go(w, place) == at' = [at EXCEPT ![w] = place]
History      == <<orphans, late, begun, harm>>

Begin(w) ==
    /\ at[w] \in Returned
    /\ begun < MaxBegun /\ begun' = begun + 1
    /\ \E d \in Docs : doc' = [doc EXCEPT ![w] = d]
    /\ Go(w, "inspect")
    /\ UNCHANGED <<fileVars, name, orphans, late, harm>>

(* lstat is not looked at. *)
AnythingReplaceable(entry) == TRUE
Replaceable(entry) == entry # NotAFile

(* The check of the target: nothing was made yet, so nothing is undone. *)
Inspect(w) ==
    /\ at[w] = "inspect"
    /\ \/ Replaceable(target) /\ Go(w, "create")
       \/ Go(w, "false")
    /\ late' = late \ {w}
    /\ UNCHANGED <<fileVars, doc, name, orphans, begun, harm>>

(* Every process uses the same name. *)
AnyName(n) == TRUE
FreshName(n) == temps[n] = NoFile

(* mkstemp never opens a file that is there already. *)
Create(w) ==
    /\ at[w] = "create"
    /\ \E n \in Names :
          /\ FreshName(n)
          /\ name' = [name EXCEPT ![w] = n]
          /\ temps' = [temps EXCEPT ![n] = [doc |-> doc[w], whole |-> FALSE, synced |-> FALSE]]
    /\ Go(w, "prepare")
    /\ UNCHANGED <<target, survivors, doc, History>>

CreateFails(w) ==
    /\ at[w] = "create"
    /\ Go(w, "false")
    /\ UNCHANGED <<fileVars, doc, name, History>>

Step(w, from, to) ==
    /\ at[w] = from
    /\ Go(w, to)
    /\ UNCHANGED <<fileVars, doc, name, History>>

(* fchmod and fdopen *)
Prepare(w) == Step(w, "prepare", "write")

(* The callback wrote everything; the data are in memory. *)
Write(w) ==
    /\ at[w] = "write"
    /\ temps' = [temps EXCEPT ![name[w]] = [doc |-> doc[w], whole |-> TRUE, synced |-> FALSE]]
    /\ Go(w, "sync")
    /\ UNCHANGED <<target, survivors, doc, name, History>>

(* The file is flushed but not synchronized. *)
Flushed(file) == file
Synced(file) == [file EXCEPT !.synced = TRUE]

Sync(w) ==
    /\ at[w] = "sync"
    /\ temps' = [temps EXCEPT ![name[w]] = Synced(@)]
    /\ Go(w, "close")
    /\ UNCHANGED <<target, survivors, doc, name, History>>

Close(w) == Step(w, "close", "rename")

(* The file is committed.  rename replaces whatever has the name by now;    *)
(* over a directory it fails.                                               *)
Rename(w) ==
    /\ at[w] = "rename"
    /\ target' = temps[name[w]]
    /\ survivors' = survivors \cup {target'}
    /\ temps' = [temps EXCEPT ![name[w]] = NoFile]
    /\ Go(w, "replaced")
    /\ UNCHANGED <<doc, name, History>>

Fail(w) == \E place \in WithTemp \ {"undo"} : Step(w, place, "undo")

(* The file descriptor is closed and the temporary file stays. *)
KeepTemp(n) == temps
ForgetTemp(n) == [m \in Names \ {n} |-> temps[m]]
RemoveTemp(n) == [temps EXCEPT ![n] = NoFile]

Undo(w) ==
    /\ at[w] = "undo"
    /\ temps' = RemoveTemp(name[w])
    /\ Go(w, "false")
    /\ UNCHANGED <<target, survivors, doc, name, History>>

Succeed(w) == Step(w, "replaced", "true")

-----------------------------------------------------------------------------
(***************************************************************************)
(* The surroundings.                                                        *)
(***************************************************************************)
Harm == harm < MaxHarm /\ harm' = harm + 1

TempsOf(processes) == {name[w] : w \in {v \in processes : at[v] \in WithTemp}}

Kill(w) ==
    /\ Harm
    /\ at[w] \notin Returned
    /\ Go(w, "idle")
    /\ orphans' = orphans \cup TempsOf({w})
    /\ UNCHANGED <<fileVars, doc, name, late, begun>>

Disturb ==
    /\ Harm
    /\ target' \in {NoFile, NotAFile}
    /\ survivors' = survivors \cup {target'}
    /\ late' = {w \in Callers : at[w] \notin Returned \cup {"inspect"}}
    /\ UNCHANGED <<temps, at, doc, name, orphans, begun>>

Settle ==
    /\ survivors' = {target}
    /\ UNCHANGED <<target, temps, at, doc, name, History>>

(* What was not synchronized may be lost. *)
AfterPowerFailure(file) ==
    {file} \cup (IF file.synced THEN {} ELSE {[file EXCEPT !.whole = FALSE]})

PowerFailure ==
    /\ Harm
    /\ \E entry \in survivors :
          /\ target' \in AfterPowerFailure(entry)
          /\ survivors' = {target'}
    /\ orphans' = orphans \cup TempsOf(Callers)
    /\ at' = [w \in Callers |-> "idle"]
    /\ late' = {}
    /\ UNCHANGED <<temps, doc, name, begun>>

Call(w) ==
    \/ Begin(w) \/ Inspect(w) \/ Create(w) \/ CreateFails(w) \/ Prepare(w) \/ Write(w)
    \/ Sync(w) \/ Close(w) \/ Rename(w) \/ Fail(w) \/ Undo(w) \/ Succeed(w)

Next ==
    \/ \E w \in Callers : Call(w) \/ Kill(w)
    \/ Disturb
    \/ Settle
    \/ PowerFailure

Spec == Init /\ [][Next]_vars

-----------------------------------------------------------------------------
(***************************************************************************)
(* Properties.                                                              *)
(***************************************************************************)

(* Whoever opens the file finds a whole document, whichever process saved    *)
(* last, and also after a power failure: data are synchronized before the    *)
(* name is changed.                                                          *)
AlwaysWhole == target.whole /\ \A entry \in survivors : entry.synced /\ entry.whole

(* Once a call has answered, its temporary file is gone; only processes that *)
(* were killed leave one behind.                                             *)
NothingLeftBehind ==
    \A n \in Names : temps[n] # NoFile => n \in orphans \cup TempsOf(Callers)

(* A link or a special file is not replaced (the check on entry), unless it  *)
(* was put there after the check of the process that replaces it.            *)
SpecialFilesStay ==
    [][\A w \in Callers : Rename(w) /\ target = NotAFile => w \in late]_vars

(* The file is an atomic cell: a call that answers true has replaced the     *)
(* document once, a call that answers false has not, and a killed call did   *)
(* one or the other.                                                         *)
CellValue == IF target.whole THEN target.doc ELSE <<"torn", target.doc>>
CallState == [w \in Callers |->
    IF at[w] = "idle" THEN "none"
    ELSE IF at[w] \in {"true", "false", "replaced"} THEN at[w] ELSE "begun"]

Cell == INSTANCE AtomicCell WITH
    cell <- CellValue, durable <- {entry.doc : entry \in survivors}, asked <- doc, call <- CallState

IsAtomicCell == Cell!Spec
=============================================================================
