-------------------------- MODULE AtomicFileProofs --------------------------
(***************************************************************************)
(* Proofs about AtomicFile, for any number of processes, documents and names *)
(* and any number of calls, kills and power failures.                        *)
(*                                                                          *)
(* AlwaysWhole is not inductive: that a rename commits a whole, synchronized *)
(* document depends on no other process having written to the temporary file *)
(* since.  OwnTemps says so: temporary files have one owner each, and what   *)
(* the owner has done to it is still there.                                  *)
(***************************************************************************)
EXTENDS AtomicFile, TLAPS

OwnTemps ==
    /\ \A w \in Callers : at[w] \in WithTemp => temps[name[w]] # NoFile
    /\ \A w, v \in Callers :
          at[w] \in WithTemp /\ at[v] \in WithTemp /\ name[w] = name[v] => w = v
    /\ \A w \in Callers : at[w] \in {"sync", "close", "rename"} =>
          /\ temps[name[w]].doc = doc[w] /\ temps[name[w]].whole
          /\ at[w] # "sync" => temps[name[w]].synced

TargetSurvives == target \in survivors

FileInv == TypeOK /\ OwnTemps /\ TargetSurvives /\ AlwaysWhole

-----------------------------------------------------------------------------
LEMMA EntriesDiffer ==
    /\ NoFile \notin File /\ NotAFile \notin File
    /\ NoFile \in Entry /\ NotAFile \in Entry
  BY ConstantsAssumption DEF NoFile, NotAFile, File, Entry

(* fsync makes a file durable and changes nothing else. *)
LEMMA SyncedFile ==
    ASSUME NEW file \in File
    PROVE  /\ Synced(file) \in File /\ Synced(file).synced
           /\ Synced(file).doc = file.doc /\ Synced(file).whole = file.whole
  BY DEF Synced, File

(* A power failure may tear what was not synchronized, never anything else. *)
LEMMA PowerFailureEntry == ASSUME NEW entry \in Entry PROVE AfterPowerFailure(entry) \subseteq Entry
<1>1. CASE entry \in File
  <2>1. [entry EXCEPT !.whole = FALSE] \in File
    BY <1>1 DEF File
  <2> QED
    BY <1>1, <2>1 DEF AfterPowerFailure, Entry
<1>2. CASE entry \in {NoFile, NotAFile}
  <2>1. entry.synced
    BY <1>2 DEF NoFile, NotAFile
  <2> QED
    BY <1>2, <2>1 DEF AfterPowerFailure
<1> QED
  BY <1>1, <1>2 DEF Entry

LEMMA InitFileInv == Init => FileInv
<1> SUFFICES ASSUME Init PROVE FileInv
  OBVIOUS
<1>1. TypeOK
  <2>1. target \in Entry
    <3>1. \A d \in Docs : [doc |-> d, whole |-> TRUE, synced |-> TRUE] \in File
      BY DEF File
    <3> QED
      BY <3>1 DEF Init, Entry
  <2>2. at \in [Callers -> Places] /\ temps \in [Names -> File \cup {NoFile}]
    BY DEF Init, Places, Returned
  <2>3. begun \in 0 .. MaxBegun /\ harm \in 0 .. MaxHarm
    BY ConstantsAssumption DEF Init
  <2>4. doc \in [Callers -> Docs] /\ name \in [Callers -> Names] /\ survivors = {target}
        /\ orphans = {} /\ late = {}
    BY DEF Init
  <2> QED
    BY <2>1, <2>2, <2>3, <2>4 DEF TypeOK
<1>2. OwnTemps
  BY DEF Init, OwnTemps, WithTemp
<1>3. TargetSurvives /\ AlwaysWhole
  BY DEF Init, TargetSurvives, AlwaysWhole, NoFile
<1> QED
  BY <1>1, <1>2, <1>3 DEF FileInv

(* Every step keeps the types. *)
LEMMA TypeStep == TypeOK /\ OwnTemps /\ [Next]_vars => TypeOK'
<1> SUFFICES ASSUME TypeOK, OwnTemps, [Next]_vars PROVE TypeOK'
  OBVIOUS
<1> USE DEF TypeOK
<1>1. ASSUME NEW w \in Callers, Call(w) PROVE TypeOK'
  <2>1. CASE Begin(w)
    BY <2>1, ConstantsAssumption DEF Begin, Go, fileVars, Places
  <2>2. CASE Inspect(w)
    BY <2>2 DEF Inspect, Go, fileVars, Places, Returned
  <2>3. CASE Create(w)
    <3>1. PICK n \in Names :
             /\ name' = [name EXCEPT ![w] = n]
             /\ temps' = [temps EXCEPT ![n] = [doc |-> doc[w], whole |-> FALSE, synced |-> FALSE]]
      BY <2>3 DEF Create
    <3>2. [doc |-> doc[w], whole |-> FALSE, synced |-> FALSE] \in File
      BY DEF File
    <3>3. at' \in [Callers -> Places]
      BY <2>3 DEF Create, Go, Places, WithTemp
    <3> QED
      BY <2>3, <3>1, <3>2, <3>3 DEF Create, History
  <2>4. CASE CreateFails(w)
    BY <2>4 DEF CreateFails, Go, fileVars, History, Places, Returned
  <2>5. CASE Prepare(w) \/ Close(w) \/ Succeed(w)
    BY <2>5 DEF Prepare, Close, Succeed, Step, Go, fileVars, History, Places, WithTemp, Returned
  <2>6. CASE Write(w)
    <3>1. [doc |-> doc[w], whole |-> TRUE, synced |-> FALSE] \in File
      BY DEF File
    <3>2. at' \in [Callers -> Places]
      BY <2>6 DEF Write, Go, Places, WithTemp
    <3> QED
      BY <2>6, <3>1, <3>2 DEF Write, History
  <2>7. CASE Sync(w)
    <3>1. Synced(temps[name[w]]) \in File
      BY <2>7, SyncedFile DEF Sync, OwnTemps, WithTemp
    <3>2. at' \in [Callers -> Places]
      BY <2>7 DEF Sync, Go, Places, WithTemp
    <3> QED
      BY <2>7, <3>1, <3>2 DEF Sync, History
  <2>8. CASE Rename(w)
    BY <2>8 DEF Rename, Go, History, Places, Entry
  <2>9. CASE Fail(w)
    BY <2>9 DEF Fail, Step, Go, fileVars, History, Places, WithTemp
  <2>10. CASE Undo(w)
    BY <2>10 DEF Undo, RemoveTemp, Go, History, Places, Returned
  <2> QED
    BY <1>1, <2>1, <2>2, <2>3, <2>4, <2>5, <2>6, <2>7, <2>8, <2>9, <2>10 DEF Call
<1>2. ASSUME NEW w \in Callers, Kill(w) PROVE TypeOK'
  BY <1>2, ConstantsAssumption DEF Kill, Harm, Go, fileVars, Places, Returned, TempsOf
<1>3. CASE Disturb
  BY <1>3, EntriesDiffer, ConstantsAssumption DEF Disturb, Harm
<1>4. CASE Settle
  BY <1>4 DEF Settle, History
<1>5. CASE PowerFailure
  <2>1. target' \in Entry /\ survivors' \subseteq Entry
    BY <1>5, PowerFailureEntry DEF PowerFailure
  <2>2. orphans' \subseteq Names /\ at' \in [Callers -> Places]
    BY <1>5 DEF PowerFailure, TempsOf, Places, Returned
  <2> QED
    BY <1>5, <2>1, <2>2, ConstantsAssumption DEF PowerFailure, Harm
<1>6. CASE UNCHANGED vars
  BY <1>6 DEF vars
<1> QED
  BY <1>1, <1>2, <1>3, <1>4, <1>5, <1>6 DEF Next

(* Every step leaves the temporary file of another process alone, and its    *)
(* owner's progress is recorded in it.                                       *)
LEMMA OwnTempsStep == FileInv /\ [Next]_vars => OwnTemps'
<1> SUFFICES ASSUME FileInv, [Next]_vars PROVE OwnTemps'
  OBVIOUS
<1> USE DEF FileInv, TypeOK, OwnTemps
<1>1. ASSUME NEW w \in Callers, Call(w) PROVE OwnTemps'
  <2>1. CASE Begin(w)
    BY <2>1 DEF Begin, Go, fileVars, WithTemp, Returned
  <2>2. CASE Inspect(w) \/ CreateFails(w) \/ Prepare(w) \/ Close(w) \/ Succeed(w) \/ Fail(w)
    BY <2>2 DEF Inspect, CreateFails, Prepare, Close, Succeed, Fail, Step, Go, fileVars,
                History, WithTemp, Returned
  <2>3. CASE Create(w)
    <3>1. PICK n \in Names :
             /\ temps[n] = NoFile
             /\ name' = [name EXCEPT ![w] = n]
             /\ temps' = [temps EXCEPT ![n] = [doc |-> doc[w], whole |-> FALSE, synced |-> FALSE]]
      BY <2>3 DEF Create, FreshName
    <3>2. temps'[n] # NoFile
      BY <3>1, ConstantsAssumption DEF NoFile
    <3>3. at' = [at EXCEPT ![w] = "prepare"] /\ UNCHANGED doc
      BY <2>3 DEF Create, Go
    <3>4. \A v \in Callers \ {w} : at[v] \in WithTemp => name[v] # n
      BY <3>1
    <3> QED
      BY <3>1, <3>2, <3>3, <3>4 DEF WithTemp
  <2>4. CASE Write(w)
    <3> DEFINE written == [doc |-> doc[w], whole |-> TRUE, synced |-> FALSE]
    <3>1. written # NoFile
      BY ConstantsAssumption DEF NoFile
    <3>2. /\ at[w] = "write" /\ at' = [at EXCEPT ![w] = "sync"]
          /\ temps' = [temps EXCEPT ![name[w]] = written] /\ UNCHANGED <<doc, name>>
      BY <2>4 DEF Write, Go
    <3>3. temps'[name[w]] = written /\ \A n \in Names \ {name[w]} : temps'[n] = temps[n]
      BY <3>2
    <3>4. written.doc = doc[w] /\ written.whole
      OBVIOUS
    <3> HIDE DEF written
    <3> QED
      BY <3>1, <3>2, <3>3, <3>4 DEF WithTemp
  <2>5. CASE Sync(w)
    <3> DEFINE synced == Synced(temps[name[w]])
    <3>1. /\ at[w] = "sync" /\ at' = [at EXCEPT ![w] = "close"]
          /\ temps' = [temps EXCEPT ![name[w]] = synced] /\ UNCHANGED <<doc, name>>
      BY <2>5 DEF Sync, Go
    <3>2. temps[name[w]] \in File
      BY <3>1 DEF WithTemp
    <3>3. /\ synced # NoFile /\ synced.doc = doc[w] /\ synced.whole /\ synced.synced
      BY <3>1, <3>2, SyncedFile, EntriesDiffer
    <3>4. temps'[name[w]] = synced /\ \A n \in Names \ {name[w]} : temps'[n] = temps[n]
      BY <3>1
    <3> HIDE DEF synced
    <3> QED
      BY <3>1, <3>3, <3>4 DEF WithTemp
  <2>6. CASE Rename(w)
    BY <2>6 DEF Rename, Go, WithTemp, History
  <2>7. CASE Undo(w)
    BY <2>7 DEF Undo, RemoveTemp, Go, WithTemp, History
  <2> QED
    BY <1>1, <2>1, <2>2, <2>3, <2>4, <2>5, <2>6, <2>7 DEF Call
<1>2. ASSUME NEW w \in Callers, Kill(w) PROVE OwnTemps'
  BY <1>2 DEF Kill, Go, fileVars, WithTemp, Returned
<1>3. CASE Disturb \/ Settle
  BY <1>3 DEF Disturb, Settle, History
<1>4. CASE PowerFailure
  BY <1>4 DEF PowerFailure, WithTemp
<1>5. CASE UNCHANGED vars
  BY <1>5 DEF vars
<1> QED
  BY <1>1, <1>2, <1>3, <1>4, <1>5 DEF Next

(* Every step leaves a whole document behind the name, and only whole,       *)
(* synchronized ones can come back.                                          *)
LEMMA WholeStep == FileInv /\ [Next]_vars => TargetSurvives' /\ AlwaysWhole'
<1> SUFFICES ASSUME FileInv, [Next]_vars PROVE TargetSurvives' /\ AlwaysWhole'
  OBVIOUS
<1> USE DEF FileInv, TargetSurvives, AlwaysWhole
<1>1. ASSUME NEW w \in Callers, Rename(w) PROVE TargetSurvives' /\ AlwaysWhole'
  <2>1. temps[name[w]].whole /\ temps[name[w]].synced
    BY <1>1 DEF Rename, OwnTemps
  <2> QED
    BY <1>1, <2>1 DEF Rename
<1>2. ASSUME NEW w \in Callers, Call(w), ~Rename(w) PROVE UNCHANGED <<target, survivors>>
  BY <1>2 DEF Call, Begin, Inspect, Create, CreateFails, Prepare, Write, Sync, Close, Fail,
              Undo, Succeed, Step, fileVars
<1>3. ASSUME NEW w \in Callers, Kill(w) PROVE UNCHANGED <<target, survivors>>
  BY <1>3 DEF Kill, fileVars
<1>4. CASE Disturb
  BY <1>4 DEF Disturb, NoFile, NotAFile
<1>5. CASE Settle
  BY <1>5 DEF Settle
<1>6. CASE PowerFailure
  BY <1>6 DEF PowerFailure, AfterPowerFailure
<1>7. CASE UNCHANGED vars
  BY <1>7 DEF vars
<1> QED
  BY <1>1, <1>2, <1>3, <1>4, <1>5, <1>6, <1>7 DEF Next

LEMMA FileInvStep == FileInv /\ [Next]_vars => FileInv'
  BY TypeStep, OwnTempsStep, WholeStep DEF FileInv

LEMMA FileInvHolds == Spec => []FileInv
  BY InitFileInv, FileInvStep, PTL DEF Spec

(* The types of the model, for every number of processes and calls. *)
THEOREM FileTypeCorrect == Spec => []TypeOK
<1>1. FileInv => TypeOK
  BY DEF FileInv
<1> QED
  BY <1>1, FileInvHolds, PTL

(* Whoever opens a file that atomic_write_file saves finds a whole document, *)
(* also after any number of failures, kills and power failures.              *)
THEOREM FileAlwaysWhole == Spec => []AlwaysWhole
<1>1. FileInv => AlwaysWhole
  BY DEF FileInv
<1> QED
  BY <1>1, FileInvHolds, PTL

-----------------------------------------------------------------------------
(* A temporary file belongs to a call in progress or to a killed process. *)
LEMMA LeftBehindStep == FileInv /\ NothingLeftBehind /\ [Next]_vars => NothingLeftBehind'
<1> SUFFICES ASSUME FileInv, NothingLeftBehind, [Next]_vars,
                    NEW n \in Names, temps'[n] # NoFile
             PROVE  (n \in orphans \cup TempsOf(Callers))'
  BY DEF NothingLeftBehind
<1> USE DEF FileInv, TypeOK, NothingLeftBehind, TempsOf
<1>1. ASSUME NEW w \in Callers, Call(w) PROVE (n \in orphans \cup TempsOf(Callers))'
  <2>1. CASE Begin(w)
    BY <2>1 DEF Begin, Go, fileVars, WithTemp, Returned
  <2>2. CASE Inspect(w) \/ CreateFails(w) \/ Prepare(w) \/ Close(w) \/ Succeed(w) \/ Fail(w)
    BY <2>2 DEF Inspect, CreateFails, Prepare, Close, Succeed, Fail, Step, Go, fileVars,
                History, WithTemp, Returned
  <2>3. CASE Create(w)
    BY <2>3 DEF Create, Go, WithTemp, History
  <2>4. CASE Write(w) \/ Sync(w)
    BY <2>4 DEF Write, Sync, OwnTemps, Go, WithTemp, History
  <2>5. CASE Rename(w) \/ Undo(w)
    BY <2>5 DEF Rename, Undo, RemoveTemp, Go, WithTemp, History
  <2> QED
    BY <1>1, <2>1, <2>2, <2>3, <2>4, <2>5 DEF Call
<1>2. ASSUME NEW w \in Callers, Kill(w) PROVE (n \in orphans \cup TempsOf(Callers))'
  BY <1>2 DEF Kill, Go, fileVars
<1>3. CASE Disturb \/ Settle
  BY <1>3 DEF Disturb, Settle, History
<1>4. CASE PowerFailure
  BY <1>4 DEF PowerFailure
<1>5. CASE UNCHANGED vars
  BY <1>5 DEF vars
<1> QED
  BY <1>1, <1>2, <1>3, <1>4, <1>5 DEF Next

(* A call that has answered has removed its temporary file. *)
THEOREM FileLeavesNothing == Spec => []NothingLeftBehind
<1>1. Init => NothingLeftBehind
  BY DEF Init, NothingLeftBehind
<1> QED
  BY <1>1, LeftBehindStep, FileInvHolds, PTL DEF Spec

-----------------------------------------------------------------------------
(* A process that is past its check while a special file has the name was    *)
(* past it already when the file came there.                                 *)
PastCheck == WithTemp \cup {"create"}

LateInv == target = NotAFile => \A w \in Callers : at[w] \in PastCheck => w \in late

LEMMA LateStep == FileInv /\ LateInv /\ [Next]_vars => LateInv'
<1> SUFFICES ASSUME FileInv, LateInv, [Next]_vars PROVE LateInv'
  OBVIOUS
<1> USE DEF LateInv, PastCheck, FileInv, TypeOK
<1>1. ASSUME NEW w \in Callers, Call(w) PROVE LateInv'
  <2>1. CASE Rename(w)
    <3>1. target' \in File
      BY <2>1 DEF Rename, OwnTemps, WithTemp
    <3> QED
      BY <3>1, EntriesDiffer
  <2>2. CASE Inspect(w)
    BY <2>2 DEF Inspect, Replaceable, Go, fileVars, WithTemp
  <2>3. CASE Begin(w) \/ Create(w) \/ CreateFails(w) \/ Prepare(w) \/ Write(w)
    BY <2>3 DEF Begin, Create, CreateFails, Prepare, Write, Step, Go, fileVars, History, WithTemp
  <2>4. CASE Sync(w) \/ Close(w) \/ Fail(w) \/ Undo(w) \/ Succeed(w)
    BY <2>4 DEF Sync, Close, Fail, Undo, Succeed, Step, Go, fileVars, History, WithTemp
  <2> QED
    BY <1>1, <2>1, <2>2, <2>3, <2>4 DEF Call
<1>2. ASSUME NEW w \in Callers, Kill(w) PROVE LateInv'
  BY <1>2 DEF Kill, Go, fileVars, WithTemp
<1>3. CASE Disturb
  BY <1>3 DEF Disturb, Returned, WithTemp
<1>4. CASE Settle \/ PowerFailure
  BY <1>4 DEF Settle, PowerFailure, History, WithTemp
<1>5. CASE UNCHANGED vars
  BY <1>5 DEF vars
<1> QED
  BY <1>1, <1>2, <1>3, <1>4, <1>5 DEF Next

(* No call replaces a link or a special file that was there when it checked. *)
THEOREM FileSparesSpecial == Spec => SpecialFilesStay
<1>1. Init => LateInv
  BY DEF Init, LateInv, PastCheck, WithTemp
<1>2. LateInv => \A w \in Callers : Rename(w) /\ target = NotAFile => w \in late
  BY DEF LateInv, PastCheck, WithTemp, Rename
<1> QED
  BY <1>1, <1>2, LateStep, FileInvHolds, PTL DEF Spec, SpecialFilesStay

-----------------------------------------------------------------------------
(***************************************************************************)
(* AtomicFile implements AtomicCell.                                        *)
(***************************************************************************)
LEMMA CellOfWhole == AlwaysWhole => CellValue = target.doc
  BY DEF AlwaysWhole, CellValue

LEMMA InitCell == Init => Cell!Init
<1> SUFFICES ASSUME Init PROVE Cell!Init
  OBVIOUS
<1>1. AlwaysWhole
  BY InitFileInv DEF FileInv
<1>2. CellValue = target.doc /\ target.doc \in Docs \cup {Missing}
  BY <1>1, CellOfWhole DEF Init, NoFile
<1>3. {entry.doc : entry \in survivors} = {CellValue}
  BY <1>2 DEF Init
<1>4. CallState = [w \in Callers |-> "none"]
  BY DEF Init, CallState
<1> QED
  BY <1>2, <1>3, <1>4 DEF Cell!Init, Init

(* What a step does to the mapped variables when the file stays as it is. *)
LEMMA SameFile ==
    UNCHANGED <<target, survivors>> =>
        CellValue' = CellValue /\ {entry.doc : entry \in survivors}' = {entry.doc : entry \in survivors}
  BY DEF CellValue

(* A process that stays in the middle of its call is not seen in the cell. *)
LEMMA CallStateStep ==
    ASSUME TypeOK, NEW w \in Callers, NEW place, at' = [at EXCEPT ![w] = place]
    PROVE  CallState' = [CallState EXCEPT ![w] =
               IF place = "idle" THEN "none"
               ELSE IF place \in {"true", "false", "replaced"} THEN place ELSE "begun"]
  BY DEF TypeOK, CallState

LEMMA CellStep == FileInv /\ FileInv' /\ [Next]_vars => [Cell!Next]_(Cell!cellVars)
<1> SUFFICES ASSUME FileInv, FileInv', [Next]_vars PROVE [Cell!Next]_(Cell!cellVars)
  OBVIOUS
<1> USE DEF FileInv
<1> DEFINE durable == {entry.doc : entry \in survivors}
<1>1. CellValue = target.doc /\ CellValue' = target'.doc
  BY CellOfWhole DEF AlwaysWhole, CellValue
<1>2. ASSUME NEW w \in Callers, Call(w) PROVE [Cell!Next]_(Cell!cellVars)
  <2>1. CASE Begin(w)
    <3>1. CallState' = [CallState EXCEPT ![w] = "begun"]
      BY <2>1, CallStateStep DEF Begin, Go
    <3>2. CallState[w] \in {"none", "true", "false"}
      BY <2>1 DEF Begin, Returned, CallState
    <3>3. CellValue' = CellValue /\ durable' = durable
      BY <2>1, SameFile DEF Begin, fileVars
    <3>4. Cell!Begin(w)
      BY <2>1, <3>1, <3>2, <3>3 DEF Cell!Begin, Begin
    <3> QED
      BY <3>4 DEF Cell!Next
  <2>2. CASE at' = at \/ \E place : /\ at' = [at EXCEPT ![w] = place]
                                   /\ at[w] \notin {"idle", "true", "false", "replaced"}
                                   /\ place \notin {"idle", "true", "false", "replaced"}
    <3>1. CallState' = CallState
      BY <2>2, CallStateStep DEF TypeOK, CallState
    <3>2. UNCHANGED <<target, survivors, doc>>
      BY <1>2, <2>2 DEF Call, Begin, Inspect, Create, CreateFails, Prepare, Write, Sync, Close,
         Rename, Fail, Undo, Succeed, Step, Go, fileVars, Returned, WithTemp, TypeOK
    <3> QED
      BY <3>1, <3>2, SameFile DEF Cell!cellVars
  <2>3. ASSUME NEW answer \in {"true", "false"}, at' = [at EXCEPT ![w] = answer],
               at[w] = "replaced" <=> answer = "true", at[w] \notin Returned,
               UNCHANGED <<target, survivors, doc>>
        PROVE  [Cell!Next]_(Cell!cellVars)
    <3>1. CallState' = [CallState EXCEPT ![w] = answer]
      BY <2>3, CallStateStep
    <3>2. IF answer = "true" THEN CallState[w] = "replaced" ELSE CallState[w] = "begun"
      BY <2>3 DEF CallState, Returned
    <3>3. Cell!Answer(w)
      BY <2>3, <3>1, <3>2, SameFile DEF Cell!Answer
    <3> QED
      BY <3>3 DEF Cell!Next
  <2>4. CASE Rename(w)
    <3>1. CallState' = [CallState EXCEPT ![w] = "replaced"] /\ CallState[w] = "begun"
      BY <2>4, CallStateStep DEF Rename, Go, CallState
    <3>2. CellValue' = doc[w] /\ durable' = durable \cup {CellValue'}
      BY <2>4, <1>1 DEF Rename, OwnTemps
    <3>3. Cell!Replace(w)
      BY <2>4, <3>1, <3>2 DEF Cell!Replace, Cell!Put, Rename
    <3> QED
      BY <3>3 DEF Cell!Next
  <2>5. CASE Inspect(w) \/ CreateFails(w) \/ Undo(w) \/ Succeed(w)
    BY <2>5, <2>2, <2>3 DEF Inspect, CreateFails, Undo, Succeed, Step, Go, fileVars, Returned
  <2>6. CASE Create(w) \/ Prepare(w) \/ Write(w) \/ Sync(w) \/ Close(w) \/ Fail(w)
    BY <2>6, <2>2 DEF Create, Prepare, Write, Sync, Close, Fail, Step, Go, WithTemp
  <2> QED
    BY <1>2, <2>1, <2>4, <2>5, <2>6 DEF Call
<1>3. ASSUME NEW w \in Callers, Kill(w) PROVE [Cell!Next]_(Cell!cellVars)
  <2>1. CallState' = [CallState EXCEPT ![w] = "none"]
    BY <1>3, CallStateStep DEF Kill, Go
  <2>2. CallState[w] \in {"begun", "replaced"}
    BY <1>3 DEF Kill, Returned, CallState
  <2>3. Cell!Lost(w)
    BY <1>3, <2>1, <2>2, SameFile DEF Cell!Lost, Kill, fileVars
  <2> QED
    BY <2>3 DEF Cell!Next
<1>4. CASE Disturb
  <2>1. CellValue' \in {Missing, Special} /\ durable' = durable \cup {CellValue'}
    BY <1>4, <1>1 DEF Disturb, NoFile, NotAFile
  <2>2. Cell!Disturb
    BY <1>4, <2>1 DEF Cell!Disturb, Cell!Put, Disturb, CallState
  <2> QED
    BY <2>2 DEF Cell!Next
<1>5. CASE Settle
  <2>1. CellValue' = CellValue /\ durable' = {CellValue}
    BY <1>5, <1>1 DEF Settle
  <2>2. Cell!Settle
    BY <1>5, <2>1 DEF Cell!Settle, Settle, CallState
  <2> QED
    BY <2>2 DEF Cell!Next
<1>6. CASE PowerFailure
  <2>1. PICK entry \in survivors : target' \in AfterPowerFailure(entry) /\ survivors' = {target'}
    BY <1>6 DEF PowerFailure
  <2>2. target' = entry
    BY <2>1 DEF AfterPowerFailure, AlwaysWhole
  <2>3. CellValue' \in durable /\ durable' = {CellValue'}
    BY <1>1, <2>1, <2>2
  <2>4. CallState' = [w \in Callers |-> "none"]
    BY <1>6 DEF PowerFailure, CallState
  <2>5. Cell!PowerFailure
    BY <1>6, <2>3, <2>4 DEF Cell!PowerFailure, PowerFailure
  <2> QED
    BY <2>5 DEF Cell!Next
<1>7. CASE UNCHANGED vars
  BY <1>7, SameFile DEF vars, Cell!cellVars, CallState
<1> QED
  BY <1>2, <1>3, <1>4, <1>5, <1>6, <1>7 DEF Next

(* Saving a file is atomic for all that use it: calls of any number of       *)
(* processes, killed and failing ones among them, behave as if each replaced *)
(* the document at one moment or not at all, and answered which.             *)
THEOREM FileIsAtomicCell == Spec => IsAtomicCell
<1>1. Init /\ [][Next]_vars /\ []FileInv => Cell!Spec
  BY InitCell, CellStep, PTL DEF Cell!Spec
<1> QED
  BY <1>1, FileInvHolds, PTL DEF Spec, IsAtomicCell
=============================================================================
