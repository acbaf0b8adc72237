--------------------------- MODULE CapturedProcess ---------------------------
(***************************************************************************)
(* run_capture_stdout (common/process.c): a child writes to a pipe of       *)
(* bounded capacity; the parent drains it to the end before it waits for    *)
(* the child.  A signal that interrupts read or the last waitpid is a       *)
(* `continue` of their loops and changes nothing.                           *)
(***************************************************************************)
EXTENDS Integers

CONSTANTS
    PipeCapacity,   \* chunks the pipe holds
    OutputLength    \* chunks the child writes when nothing stops it

ASSUME CaptureAssumption == PipeCapacity \in Nat \ {0} /\ OutputLength \in Nat \ {0}

VARIABLES
    parent,       \* where run_capture_stdout is
    reader,       \* the read end of the pipe is open
    child,        \* the process behind the pid
    sent, used,   \* chunks written by the child, chunks in the buffer
    result        \* what waitpid said of the child

captureVars == <<parent, reader, child, sent, used, result>>

Calling      == {"fork", "draining", "waiting", "abandoning"}
ParentStates == Calling \cup {"idle", "done", "failed"}
Ends         == {"exit_0", "exit_1", "exit_126", "exit_127", "signal"}
ChildStates  == Ends \cup {"none", "starting", "writing", "reaped"}

CaptureTypeOK ==
    /\ parent \in ParentStates /\ reader \in BOOLEAN /\ child \in ChildStates
    /\ sent \in 0 .. OutputLength /\ used \in 0 .. sent
    /\ result \in Ends \cup {"none"}

CaptureInit ==
    /\ parent = "idle" /\ reader = FALSE /\ child = "none"
    /\ sent = 0 /\ used = 0 /\ result = "none"

(* The call as a caller enters it, and what is left when it has taken the   *)
(* result.                                                                  *)
Begin(state) ==
    /\ parent' = state /\ reader' = FALSE /\ child' = "none"
    /\ sent' = 0 /\ used' = 0 /\ result' = "none"
Enter  == Begin("fork")
Forget == Begin("idle")

-----------------------------------------------------------------------------
(* pipe or fork fails, or the buffer cannot be allocated after the fork: a  *)
(* parent that has a child closes the read end and waits for it once.       *)
ForkFails ==
    /\ parent = "fork" /\ parent' = "failed"
    /\ UNCHANGED <<reader, child, sent, used, result>>
Fork ==
    /\ parent = "fork" /\ child' = "starting"
    /\ \/ parent' = "draining" /\ reader' = TRUE
       \/ parent' = "abandoning" /\ UNCHANGED reader
    /\ UNCHANGED <<sent, used, result>>

(* One read returns some of what the pipe holds. *)
Read ==
    /\ parent = "draining" /\ used < sent /\ used' \in used + 1 .. sent
    /\ UNCHANGED <<parent, reader, child, sent, result>>

(* realloc or read fails: the buffer is dropped. *)
ReadFails ==
    /\ parent = "draining" /\ parent' = "abandoning" /\ reader' = FALSE
    /\ UNCHANGED <<child, sent, used, result>>

WaitBeforeDraining ==
    /\ parent = "draining" /\ parent' = "waiting"
    /\ UNCHANGED <<reader, child, sent, used, result>>

(* read returns 0 when the pipe is empty and its only writer is gone. *)
EndOfFile ==
    /\ parent = "draining" /\ used = sent /\ child \in Ends
    /\ parent' = "waiting" /\ reader' = FALSE
    /\ UNCHANGED <<child, sent, used, result>>

(* waitpid tells how the child ended, or fails because SIGCHLD is ignored   *)
(* and the kernel has reaped it already.                                    *)
Reap ==
    /\ parent = "waiting" /\ child \in Ends /\ child' = "reaped"
    /\ \/ parent' = "done" /\ result' = child
       \/ parent' = "failed" /\ UNCHANGED result
    /\ UNCHANGED <<reader, sent, used>>

(* The one waitpid of the error paths is not repeated after a signal: then  *)
(* the child stays behind, running or as a zombie.                          *)
Abandon ==
    /\ parent = "abandoning" /\ child \in Ends
    /\ parent' = "failed" /\ child' = "reaped"
    /\ UNCHANGED <<reader, sent, used, result>>
LeaveChild ==
    /\ parent = "abandoning" /\ parent' = "failed"
    /\ UNCHANGED <<reader, child, sent, used, result>>

-----------------------------------------------------------------------------
(* The child: redirection fails with 126, exec with 127. *)
ChildStarts ==
    /\ child = "starting" /\ child' \in {"writing", "exit_126", "exit_127"}
    /\ UNCHANGED <<parent, reader, sent, used, result>>

(* write blocks while the pipe is full. *)
ChildWrites ==
    /\ child = "writing" /\ reader /\ sent < OutputLength /\ sent - used < PipeCapacity
    /\ sent' = sent + 1
    /\ UNCHANGED <<parent, reader, child, used, result>>

(* The program ends after its last chunk, or by SIGPIPE without a reader. *)
ChildFinishes ==
    /\ child = "writing"
    /\ \/ sent = OutputLength /\ child' = "exit_0"
       \/ sent < OutputLength /\ ~reader /\ child' = "signal"
    /\ UNCHANGED <<parent, reader, sent, used, result>>

(* It reports an error or is killed in the middle of its output. *)
ChildFails ==
    /\ child = "writing" /\ child' \in {"exit_1", "signal"}
    /\ UNCHANGED <<parent, reader, sent, used, result>>

ParentActions == Fork \/ Read \/ EndOfFile \/ Reap \/ Abandon
ChildProgress == ChildStarts \/ ChildWrites \/ ChildFinishes
Mishaps       == ForkFails \/ ReadFails \/ LeaveChild \/ ChildFails
CaptureActions == ParentActions \/ ChildProgress \/ Mishaps

(* Calls one after the other, as any caller makes them. *)
CaptureNext == CaptureActions \/ (parent \notin Calling /\ (Enter \/ Forget))
CaptureSpec == CaptureInit /\ [][CaptureNext]_captureVars

(* The program and its caller are scheduled; lsblk does not hang by itself. *)
CaptureFairness == WF_captureVars(ParentActions) /\ WF_captureVars(ChildProgress)

-----------------------------------------------------------------------------
(* A caller that is told of success has all the child has written, never a  *)
(* buffer that was cut by the end of the pipe or by an error of read.       *)
WholeOutput == parent = "done" /\ result = "exit_0" => used = OutputLength
=============================================================================
