---------------------------- MODULE PreviewProcess ----------------------------
(***************************************************************************)
(* One call of _run_preview_process (scripts/run_ux1_async_job.py): the    *)
(* job feeds a request to the calculator and reads both its outputs over   *)
(* three pipes, none of which it may let the calculator block on.          *)
(*                                                                         *)
(* Data travels in chunks.  The calculator is any program: it reads,       *)
(* writes and closes in an order of its own, may hang, and may leave its   *)
(* input unread.                                                           *)
(***************************************************************************)
EXTENDS Naturals

CONSTANTS
  PipeSize,     \* chunks a pipe holds
  Payload,      \* chunks of the request
  StdoutLimit,  \* PREVIEW_STDOUT_LIMIT: chunks of output read
  MaxNoise      \* bound on the chunks the calculator writes to stderr

ASSUME PipeAssumption ==
  /\ PipeSize \in Nat \ {0}
  /\ Payload \in Nat \ {0}
  /\ StdoutLimit \in Nat
  /\ MaxNoise \in Nat

VARIABLES
  call,     \* the call: not made, running, or how it came back
  pending,  \* chunks of the request not yet written
  out,      \* chunks of stdout read
  reading,  \* the outputs whose end has not been read
  pipe,     \* per stream: chunks held, whether each end is open
  child     \* the calculator: what it is about to do, what it wrote, its exit

process == <<call, pending, out, reading, pipe, child>>

Output == {"stdout", "stderr"}
Stream == Output \union {"stdin"}

NoChild == [wants |-> "nothing", wrote |-> [s \in Output |-> 0], exit |-> "none"]
Opened  == [s \in Stream |-> [held |-> 0, writer |-> TRUE, reader |-> TRUE]]

ProcessIdle ==
  /\ call = "none"
  /\ pending = 0 /\ out = 0 /\ reading = {}
  /\ pipe = Opened /\ child = NoChild

Spawn ==
  /\ call = "none"
  /\ call' = "running"
  /\ pending' = Payload
  /\ reading' = Output
  /\ child' = [NoChild EXCEPT !.exit = "running"]
  /\ UNCHANGED <<out, pipe>>

-----------------------------------------------------------------------------
(* The calculator.  It is external, and nothing obliges it to go on. *)

(* Enough output to pass the limit. *)
Bound(s) == IF s = "stdout" THEN StdoutLimit + 1 ELSE MaxNoise

Running == call = "running" /\ child.exit = "running"

Full(s) == pipe[s].held = PipeSize
Dry     == pipe["stdin"].held = 0 /\ pipe["stdin"].writer

(* It reads or writes, or waits until it can. *)
ChildWaits(s) ==
  /\ Running
  /\ child.wants = "nothing"
  /\ IF s = "stdin" THEN pipe[s].reader /\ Dry ELSE pipe[s].writer /\ Full(s)
  /\ child' = [child EXCEPT !.wants = s]
  /\ UNCHANGED <<call, pending, out, reading, pipe>>

(* A read returns data, or the end of the input once it is closed. *)
ChildReads ==
  /\ Running
  /\ child.wants \in {"nothing", "stdin"}
  /\ pipe["stdin"].reader /\ ~Dry
  /\ child' = [child EXCEPT !.wants = "nothing"]
  /\ pipe' = IF pipe["stdin"].held > 0
             THEN [pipe EXCEPT !["stdin"].held = @ - 1]
             ELSE [pipe EXCEPT !["stdin"].reader = FALSE]
  /\ UNCHANGED <<call, pending, out, reading>>

ChildWrites(s) ==
  /\ Running
  /\ child.wants \in {"nothing", s}
  /\ pipe[s].writer /\ ~Full(s)
  /\ child.wrote[s] < Bound(s)
  /\ child' = [child EXCEPT !.wants = "nothing", !.wrote[s] = @ + 1]
  /\ pipe' = [pipe EXCEPT ![s].held = @ + 1]
  /\ UNCHANGED <<call, pending, out, reading>>

ChildCloses(s) ==
  /\ Running
  /\ child.wants = "nothing"
  /\ pipe' = IF s = "stdin" THEN [pipe EXCEPT ![s].reader = FALSE]
             ELSE [pipe EXCEPT ![s].writer = FALSE]
  /\ pipe' # pipe
  /\ UNCHANGED <<call, pending, out, reading, child>>

ChildExits ==
  /\ Running
  /\ child.wants = "nothing"
  /\ \E status \in {"zero", "nonzero"} : child' = [child EXCEPT !.exit = status]
  /\ pipe' = [pipe EXCEPT !["stdin"].reader = FALSE,
                          !["stdout"].writer = FALSE, !["stderr"].writer = FALSE]
  /\ UNCHANGED <<call, pending, out, reading>>

ChildStep ==
  \/ \E s \in Stream : ChildWaits(s) \/ ChildCloses(s)
  \/ \E s \in Output : ChildWrites(s)
  \/ ChildReads
  \/ ChildExits

-----------------------------------------------------------------------------
(* The loop of the job. *)

Writable == pending > 0 /\ (pipe["stdin"].held < PipeSize \/ ~pipe["stdin"].reader)

(* Mutant of Readable: the outputs are left alone until the input is sent. *)
ReadableAfterInput ==
  {s \in reading : pending = 0 /\ (pipe[s].held > 0 \/ ~pipe[s].writer)}

Readable == {s \in reading : pipe[s].held > 0 \/ ~pipe[s].writer}

(* Mutant of Looping: the loop ends with the calculator, not its output. *)
LoopingWhileAlive == call = "running" /\ child.exit = "running"

Looping == call = "running" /\ (reading # {} \/ pending > 0)

Room == PipeSize - pipe["stdin"].held
Sent == IF pending <= Room THEN pending ELSE Room

(* What is left to send after os.write: a reader that went away ends it,   *)
(* and the input is closed with its last chunk.                            *)
PendingAfter ==
  IF ~Writable THEN pending
  ELSE IF ~pipe["stdin"].reader THEN 0 ELSE pending - Sent

StdinAfter ==
  [pipe["stdin"] EXCEPT
     !.held = IF Writable /\ pipe["stdin"].reader THEN @ + Sent ELSE @,
     !.writer = @ /\ (Writable => PendingAfter > 0)]

Drained(s) == IF s \in Readable THEN [pipe[s] EXCEPT !.held = 0] ELSE pipe[s]

Taken == IF "stdout" \in Readable THEN pipe["stdout"].held ELSE 0

(* The call ends: the calculator is killed if need be, the pipes closed. *)
Fail ==
  /\ call' = "failed"
  /\ pending' = 0 /\ out' = 0 /\ reading' = {}
  /\ pipe' = Opened /\ child' = NoChild

(* One turn: select, then the write, then both reads.  A read that brings  *)
(* nothing is the end of that output.                                      *)
Turn ==
  /\ Looping
  /\ Writable \/ Readable # {}
  /\ out + Taken <= StdoutLimit
  /\ pending' = PendingAfter
  /\ out' = out + Taken
  /\ reading' = reading \ {s \in Readable : pipe[s].held = 0}
  /\ pipe' = [s \in Stream |-> IF s = "stdin" THEN StdinAfter ELSE Drained(s)]
  /\ UNCHANGED <<call, child>>

TooMuch ==
  /\ Looping
  /\ out + Taken > StdoutLimit
  /\ Fail

(* Both outputs are at their end: proc.wait, and the exit status counts. *)
Collect ==
  /\ call = "running" /\ ~Looping
  /\ child.exit = "zero"
  /\ call' = "returned"
  /\ pending' = 0 /\ reading' = {} /\ pipe' = Opened
  /\ UNCHANGED <<out, child>>

CollectFailure ==
  /\ call = "running" /\ ~Looping
  /\ child.exit = "nonzero"
  /\ Fail

(* Mutant of Deadline: waiting for the exit is not bounded. *)
DeadlineOfLoop == Looping /\ Fail

(* The one deadline of the call, in select and in wait alike. *)
Deadline == call = "running" /\ Fail

ParentStep == Turn \/ TooMuch \/ Collect \/ CollectFailure \/ Deadline

-----------------------------------------------------------------------------
ProcessTypeOK ==
  /\ call \in {"none", "running", "returned", "failed"}
  /\ pending \in 0..Payload
  /\ out \in Nat
  /\ reading \subseteq Output
  /\ pipe \in [Stream -> [held : 0..PipeSize, writer : BOOLEAN, reader : BOOLEAN]]
  /\ child \in [wants : Stream \union {"nothing"}, wrote : [Output -> Nat],
                exit : {"none", "running", "zero", "nonzero"}]

(* A calculator that waits on one of its pipes is waited for by nobody:    *)
(* the job has something to write or to read.                              *)
Blocked ==
  \/ child.wants \in Output /\ Full(child.wants)
  \/ child.wants = "stdin" /\ Dry

NeverStuckTogether == Running /\ Blocked => Looping /\ (Writable \/ Readable # {})
===============================================================================
