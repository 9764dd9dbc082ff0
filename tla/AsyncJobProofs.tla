---------------------------- MODULE AsyncJobProofs ----------------------------
(***************************************************************************)
(* Proofs about AsyncJob, for any number of runs, any objects, pipes of    *)
(* any size and requests of any length: types, one run per request, true   *)
(* exit codes and results, that job and calculator never wait for each     *)
(* other, and that what is staged is what was agreed.                      *)
(***************************************************************************)
EXTENDS AsyncJob, FiniteSetTheorems, TLAPS

-----------------------------------------------------------------------------
(* The pipes.  Strengthening: an output the job stopped reading was closed *)
(* by the calculator, the input is open as long as there is something to   *)
(* send, and the calculator only waits to write what it has not closed.    *)

Pipes ==
  call = "running" =>
    /\ \A s \in Output : s \notin reading => ~pipe[s].writer
    /\ pipe["stdin"].writer => pending > 0
    /\ child.exit = "running" /\ child.wants \in Output => pipe[child.wants].writer

ProcessInv == ProcessTypeOK /\ Pipes

StreamState == [held : 0..PipeSize, writer : BOOLEAN, reader : BOOLEAN]

LEMMA IdleInv == ProcessIdle => ProcessInv
BY PipeAssumption DEF ProcessIdle, ProcessInv, ProcessTypeOK, Pipes, Opened, NoChild, Output, Stream

LEMMA SpawnKeeps == ProcessInv /\ Spawn => ProcessInv'
BY PipeAssumption DEF Spawn, ProcessInv, ProcessTypeOK, Pipes, NoChild, Output, Stream

LEMMA FailKeeps == ProcessInv /\ Fail => ProcessInv'
BY PipeAssumption DEF Fail, ProcessInv, ProcessTypeOK, Pipes, Opened, NoChild, Output, Stream

LEMMA ChildKeeps == ProcessInv /\ ChildStep => ProcessInv'
<1> SUFFICES ASSUME ProcessInv, ChildStep
             PROVE  ProcessInv'
  OBVIOUS
<1> DEFINE Wants == Stream \union {"nothing"}
           Ends  == {"none", "running", "zero", "nonzero"}
           Calculators == [wants : Wants, wrote : [Output -> Nat], exit : Ends]
<1>a. /\ child \in Calculators /\ pipe \in [Stream -> StreamState]
      /\ Stream = {"stdout", "stderr", "stdin"} /\ Output = {"stdout", "stderr"}
      /\ \A s \in Stream : pipe[s] \in StreamState
  BY DEF ProcessInv, ProcessTypeOK, StreamState, Stream, Output
<1>b. ASSUME UNCHANGED <<call, pending, out, reading>>,
             child' \in Calculators, pipe' \in [Stream -> StreamState],
             \A s \in Output : pipe'[s].writer => pipe[s].writer,
             pipe'["stdin"].writer => pipe["stdin"].writer,
             child'.exit = "running" /\ child'.wants \in Output => pipe'[child'.wants].writer
      PROVE  ProcessInv'
  <2>1. ProcessTypeOK'
    BY <1>b DEF ProcessInv, ProcessTypeOK, StreamState
  <2>2. Pipes'
    BY <1>b DEF ProcessInv, Pipes
  <2> QED
    BY <2>1, <2>2 DEF ProcessInv
<1>1. ASSUME NEW s \in Stream, ChildWaits(s)
      PROVE  ProcessInv'
  <2>1. /\ child' \in Calculators /\ child'.wants = s
        /\ UNCHANGED <<call, pending, out, reading, pipe>>
    BY <1>1, <1>a DEF ChildWaits
  <2>2. s \in Output => pipe[s].writer
    BY <1>1 DEF ChildWaits, Output
  <2> QED
    BY <1>a, <1>b, <2>1, <2>2
<1>2. ASSUME NEW s \in Stream, ChildCloses(s)
      PROVE  ProcessInv'
  <2>1. UNCHANGED <<call, pending, out, reading, child>> /\ child.wants = "nothing"
    BY <1>2 DEF ChildCloses
  <2>2. CASE s = "stdin"
    <3>1. pipe' = [pipe EXCEPT !["stdin"].reader = FALSE]
      BY <1>2, <2>2 DEF ChildCloses
    <3>2. pipe' \in [Stream -> StreamState]
      BY <1>a, <3>1 DEF StreamState
    <3>3. \A q \in Stream : pipe'[q].writer = pipe[q].writer
      BY <1>a, <3>1 DEF StreamState
    <3> QED
      BY <1>a, <1>b, <2>1, <3>2, <3>3
  <2>3. CASE s # "stdin"
    <3>1. pipe' = [pipe EXCEPT ![s].writer = FALSE]
      BY <1>2, <2>3 DEF ChildCloses
    <3>2. pipe' \in [Stream -> StreamState]
      BY <1>a, <3>1 DEF StreamState
    <3>3. \A q \in Stream : pipe'[q].writer => pipe[q].writer
      BY <1>a, <3>1 DEF StreamState
    <3> QED
      BY <1>a, <1>b, <2>1, <3>2, <3>3
  <2> QED
    BY <2>2, <2>3
<1>3. ASSUME NEW s \in Output, ChildWrites(s)
      PROVE  ProcessInv'
  <2>1. /\ UNCHANGED <<call, pending, out, reading>>
        /\ pipe' = [pipe EXCEPT ![s].held = @ + 1]
        /\ pipe[s].held # PipeSize
    BY <1>3 DEF ChildWrites, Full
  <2>2. child' \in Calculators /\ child'.wants = "nothing"
    <3>1. child' = [child EXCEPT !.wants = "nothing", !.wrote[s] = @ + 1]
      BY <1>3 DEF ChildWrites
    <3>2. [child.wrote EXCEPT ![s] = @ + 1] \in [Output -> Nat]
      BY <1>a
    <3> QED
      BY <1>a, <3>1, <3>2
  <2>3. pipe' \in [Stream -> StreamState] /\ \A q \in Stream : pipe'[q].writer = pipe[q].writer
    <3>1. s \in Stream /\ pipe[s].held + 1 \in 0..PipeSize
      BY <1>a, <2>1, PipeAssumption DEF StreamState
    <3> QED
      BY <1>a, <2>1, <3>1 DEF StreamState
  <2> QED
    BY <1>a, <1>b, <2>1, <2>2, <2>3
<1>4. CASE ChildReads
  <2>1. /\ UNCHANGED <<call, pending, out, reading>>
        /\ child' \in Calculators /\ child'.wants = "nothing"
    BY <1>4, <1>a DEF ChildReads
  <2>2. CASE pipe["stdin"].held > 0
    <3>1. pipe' = [pipe EXCEPT !["stdin"].held = @ - 1]
      BY <1>4, <2>2 DEF ChildReads
    <3>2. pipe["stdin"].held - 1 \in 0..PipeSize
      BY <1>a, <2>2, PipeAssumption DEF StreamState
    <3>3. pipe' \in [Stream -> StreamState] /\ \A q \in Stream : pipe'[q].writer = pipe[q].writer
      BY <1>a, <3>1, <3>2 DEF StreamState
    <3> QED
      BY <1>a, <1>b, <2>1, <3>3
  <2>3. CASE ~(pipe["stdin"].held > 0)
    <3>1. pipe' = [pipe EXCEPT !["stdin"].reader = FALSE]
      BY <1>4, <2>3 DEF ChildReads
    <3>2. pipe' \in [Stream -> StreamState] /\ \A q \in Stream : pipe'[q].writer = pipe[q].writer
      BY <1>a, <3>1 DEF StreamState
    <3> QED
      BY <1>a, <1>b, <2>1, <3>2
  <2> QED
    BY <2>2, <2>3
<1>5. CASE ChildExits
  <2>1. PICK status \in {"zero", "nonzero"} : child' = [child EXCEPT !.exit = status]
    BY <1>5 DEF ChildExits
  <2>2. child' \in Calculators /\ child'.exit # "running"
    BY <1>a, <2>1
  <2>3. /\ UNCHANGED <<call, pending, out, reading>>
        /\ pipe' = [pipe EXCEPT !["stdin"].reader = FALSE,
                                !["stdout"].writer = FALSE, !["stderr"].writer = FALSE]
    BY <1>5 DEF ChildExits
  <2>4. pipe' \in [Stream -> StreamState]
    BY <1>a, <2>3 DEF StreamState
  <2>5. \A q \in Stream : pipe'[q].writer => pipe[q].writer
    BY <1>a, <2>3 DEF StreamState
  <2> QED
    BY <1>a, <1>b, <2>2, <2>3, <2>4, <2>5
<1> QED
  BY <1>1, <1>2, <1>3, <1>4, <1>5 DEF ChildStep

LEMMA ParentKeeps == ProcessInv /\ ParentStep => ProcessInv'
<1> SUFFICES ASSUME ProcessInv, ParentStep
             PROVE  ProcessInv'
  OBVIOUS
<1>1. CASE Turn
  <2> USE PipeAssumption
  <2>1. /\ pipe["stdin"] \in StreamState /\ pending \in 0..Payload
        /\ \A s \in Output : pipe[s] \in StreamState
    BY DEF ProcessInv, ProcessTypeOK, StreamState, Stream, Output
  <2>2. PendingAfter \in 0..Payload /\ StdinAfter \in StreamState
    <3>1. pipe["stdin"].held \in 0..PipeSize /\ Room \in 0..PipeSize
      BY <2>1 DEF Room, StreamState
    <3>2. Sent \in 0..Room /\ Sent <= pending
      BY <2>1, <3>1 DEF Sent
    <3>3. PendingAfter \in 0..Payload
      BY <2>1, <3>1, <3>2 DEF PendingAfter
    <3>4. pipe["stdin"].held + Sent \in 0..PipeSize
      BY <3>1, <3>2 DEF Room
    <3>5. (pipe["stdin"].writer /\ (Writable => PendingAfter > 0)) \in BOOLEAN
      OBVIOUS
    <3>6. StdinAfter \in StreamState
      BY <2>1, <3>1, <3>4, <3>5 DEF StdinAfter, StreamState
    <3> QED
      BY <3>3, <3>6
  <2>3. call = "running" /\ UNCHANGED <<call, child>>
        /\ pending' = PendingAfter /\ out' = out + Taken
        /\ reading' = reading \ {s \in Readable : pipe[s].held = 0}
        /\ pipe' = [s \in Stream |-> IF s = "stdin" THEN StdinAfter ELSE Drained(s)]
    BY <1>1 DEF Turn, Looping
  <2>4. \A s \in Output : /\ pipe'[s] = Drained(s) /\ Drained(s) \in StreamState
                          /\ Drained(s).writer = pipe[s].writer
    BY <2>1, <2>3 DEF Drained, StreamState, Output, Stream
  <2>5. pipe'["stdin"] = StdinAfter
    BY <2>3 DEF Stream
  <2>6. ProcessTypeOK'
    <3>1. out' \in Nat
      BY <2>1, <2>3 DEF Taken, ProcessInv, ProcessTypeOK, StreamState, Output
    <3>2. pipe' \in [Stream -> StreamState]
      BY <2>2, <2>3, <2>4 DEF Stream
    <3> QED
      BY <2>2, <2>3, <3>1, <3>2 DEF ProcessInv, ProcessTypeOK, StreamState
  <2>7. Pipes'
    <3>1. \A s \in Output : s \notin reading' => ~pipe'[s].writer
      BY <2>1, <2>3, <2>4 DEF ProcessInv, Pipes, Readable, StreamState
    <3>2. pipe'["stdin"].writer => pending' > 0
      <4>1. StdinAfter.writer = (pipe["stdin"].writer /\ (Writable => PendingAfter > 0))
        BY <2>1 DEF StdinAfter, StreamState
      <4>2. ~Writable => PendingAfter = pending
        BY DEF PendingAfter
      <4> QED
        BY <2>3, <2>5, <4>1, <4>2 DEF ProcessInv, Pipes
    <3>3. child'.exit = "running" /\ child'.wants \in Output => pipe'[child'.wants].writer
      BY <2>3, <2>4 DEF ProcessInv, Pipes
    <3> QED
      BY <3>1, <3>2, <3>3 DEF Pipes
  <2> QED
    BY <2>6, <2>7 DEF ProcessInv
<1>2. CASE Collect
  BY <1>2, PipeAssumption DEF Collect, ProcessInv, ProcessTypeOK, Pipes, Opened, Output, Stream
<1>3. CASE Fail
  BY <1>3, FailKeeps
<1> QED
  BY <1>1, <1>2, <1>3 DEF ParentStep, TooMuch, CollectFailure, Deadline

LEMMA NobodyWaits == ProcessInv => NeverStuckTogether
<1> SUFFICES ASSUME ProcessInv, Running, Blocked
             PROVE  Looping /\ (Writable \/ Readable # {})
  BY DEF NeverStuckTogether
<1> USE PipeAssumption DEF ProcessInv, ProcessTypeOK, Pipes, Running, Blocked, Looping
<1>1. CASE child.wants \in Output /\ Full(child.wants)
  <2>1. child.wants \in reading /\ pipe[child.wants].held > 0
    BY <1>1 DEF Full
  <2> QED
    BY <2>1 DEF Readable
<1>2. CASE child.wants = "stdin" /\ Dry
  BY <1>2 DEF Dry, Writable
<1> QED
  BY <1>1, <1>2
-----------------------------------------------------------------------------
(* The protocol.  Strengthening: what each message in flight says about    *)
(* the console, and what the console's result says about its owner.        *)

Bodies  == Outcomes \union {None, "granted", "malformed", "not_granted", "recorded", "refused"}
Message == [type : {"claim", "answer", "result"}, run : Run, body : Bodies]

Alone == \A r, s \in Executing : r = s

Unheard ==
  \A r \in Run : pc[r] = "queued" => owner # r /\ \A m \in net : m.run # r

ClaimsArePending ==
  \A m \in net : m.type = "claim" => owner # m.run /\ m.body = None

AnswersAreTrue ==
  \A m \in net : m.type = "answer" =>
    /\ m.body \in {"granted", "malformed"} => owner = m.run
    /\ m.body = "not_granted" => owner \notin {None, m.run}
    /\ m.body = "recorded" => owner = m.run /\ terminal # None

ResultsFollowPost ==
  /\ \A m \in net : m.type = "result" => pc[m.run] \in {"result", "done"} /\ m.body \in Outcomes
  /\ terminal # None => owner # None /\ pc[owner] \in {"result", "done"}

OneResult ==
  \A r \in Run :
    /\ pc[r] \in {"post", "result"} => body \in Outcomes /\ (verdict = "large" => body = "ok")
    /\ pc[r] = "result" =>
         /\ \A m \in net : m.type = "result" => m.body = Posted
         /\ terminal # None => terminal = Posted

(* The calculator answers the owner alone, and once. *)
OneVerdict ==
  verdict = "large" => owner # None /\ pc[owner] \in {"post", "result", "done"}

(* A run reports at its end; behind a failure it reports, and behind a     *)
(* result the console recorded, no result is on its way.                   *)
NothingFollows ==
  /\ \A r \in Run : exit[r] \in Codes => pc[r] = "done"
  /\ \A m, n \in net : m.type = "result" /\ n.type = "result" => m = n
  /\ \A m \in net : m.type = "result" =>
       terminal = None /\ exit[m.run] # "UX1_CALCULATOR_FAILED"

Protocol ==
  /\ net \subseteq Message
  /\ Alone /\ Unheard /\ ClaimsArePending /\ AnswersAreTrue
  /\ ResultsFollowPost /\ OneResult /\ OneVerdict /\ NothingFollows
  /\ OneCalculation /\ ExitTruth

IInv == TypeOK /\ Pipes /\ Protocol

-----------------------------------------------------------------------------
LEMMA NoneIsNoRun == None \notin Run /\ None \notin Outcomes /\ None \notin Codes /\ None \notin Verdicts
BY AsyncAssumption

(* What neither the console nor the run's place is touched by. *)
LEMMA SamePlace ==
  ASSUME Protocol, UNCHANGED <<console, net, pc, exit, body, verdict>>
  PROVE  Protocol'
BY DEF Protocol, console, Alone, Executing, Unheard, ClaimsArePending, AnswersAreTrue,
       ResultsFollowPost, OneResult, Posted, OneVerdict, NothingFollows, OneCalculation,
       ExitTruth, Backed, Message, Bodies

LEMMA LoseKeeps ==
  ASSUME Protocol, NEW m \in net, Lose(m)
  PROVE  Protocol'
BY DEF Lose, console, locals, Protocol, Alone, Executing, Unheard, ClaimsArePending,
       AnswersAreTrue, ResultsFollowPost, OneResult, Posted, OneVerdict, NothingFollows,
       OneCalculation, ExitTruth, Backed, Message, Bodies

(* The console takes a claim or a result, and answers it. *)
LEMMA ServeKeeps ==
  ASSUME TypeOK, Protocol, NEW m \in net, Serve(m)
  PROVE  Protocol'
<1> USE NoneIsNoRun
<1>1. /\ m \in Message /\ m.run \in Run /\ m.type \in {"claim", "result"}
      /\ UNCHANGED <<pc, exit, body, verdict>>
  BY DEF Serve, Protocol, Message, locals
<1>2. PICK a \in Answers(m) : net' = (net \ {m}) \union {a}
  BY DEF Serve
<1>3. a.type = "answer" /\ a.run = m.run /\ a \in Message
  BY <1>1, <1>2 DEF Answers, Message, Bodies
<1>4. \A n \in net' : n = a \/ (n \in net /\ n # m)
  BY <1>2
<1>5. CASE m.type = "claim"
  <2>1. /\ terminal' = terminal
        /\ owner' = IF owner = None THEN m.run ELSE owner
        /\ a.body \in {"granted", "malformed", "not_granted"}
        /\ a.body = "not_granted" <=> owner # None
    BY <1>2, <1>5 DEF Serve, Answers
  <2>2. owner # m.run /\ m.body = None
    BY <1>5 DEF Protocol, ClaimsArePending
  <2>3. Unheard'
    BY <1>1, <1>3, <1>4, <2>1 DEF Protocol, Unheard
  <2>4. ClaimsArePending'
    <3> SUFFICES ASSUME NEW n \in net', n.type = "claim"
                 PROVE  owner' # n.run /\ n.body = None
      BY DEF ClaimsArePending
    <3>1. n \in net /\ n # m /\ n \in Message /\ owner # n.run /\ n.body = None
      BY <1>3, <1>4 DEF Protocol, ClaimsArePending
    <3>2. n.run # m.run
      BY <1>1, <1>5, <2>2, <3>1 DEF Message
    <3> QED
      BY <2>1, <3>1, <3>2
  <2>5. AnswersAreTrue'
    <3> SUFFICES ASSUME NEW n \in net', n.type = "answer"
                 PROVE  /\ n.body \in {"granted", "malformed"} => owner' = n.run
                        /\ n.body = "not_granted" => owner' \notin {None, n.run}
                        /\ n.body = "recorded" => owner' = n.run /\ terminal' # None
      BY DEF AnswersAreTrue
    <3>1. CASE n = a
      BY <1>1, <1>3, <2>1, <2>2, <3>1
    <3>2. CASE n \in net
      <4>1. n.run \in Run
        BY <3>2 DEF Protocol, Message
      <4> QED
        BY <2>1, <3>2, <4>1 DEF Protocol, AnswersAreTrue
    <3> QED
      BY <1>4, <3>1, <3>2
  <2>6. ResultsFollowPost' /\ OneResult' /\ OneVerdict' /\ NothingFollows'
    BY <1>1, <1>3, <1>4, <2>1
       DEF Protocol, ResultsFollowPost, OneResult, Posted, OneVerdict, NothingFollows
  <2>7. OneCalculation'
    <3>1. \A n \in net' : n.type = "result" => n \in net /\ n.run = owner /\ n.run \in Run
      BY <1>3, <1>4 DEF Protocol, OneCalculation, Message
    <3> QED
      BY <1>1, <2>1, <3>1 DEF Protocol, OneCalculation
  <2>8. ExitTruth'
    <3> SUFFICES ASSUME NEW r \in Run
                 PROVE  Backed(r, exit[r])'
      BY DEF ExitTruth
    <3>1. Backed(r, exit[r]) /\ (owner = None => terminal = None)
      BY DEF Protocol, ExitTruth, Backed, ResultsFollowPost
    <3> QED
      BY <1>1, <2>1, <3>1 DEF Backed
  <2> QED
    BY <1>1, <1>2, <1>3, <2>3, <2>4, <2>5, <2>6, <2>7, <2>8 DEF Protocol, Alone, Executing
<1>6. CASE m.type = "result"
  <2>1. /\ owner' = owner
        /\ terminal' = IF m.run = owner /\ terminal = None THEN m.body ELSE terminal
        /\ a.body = IF m.run = owner /\ terminal = None THEN "recorded" ELSE "refused"
    BY <1>2, <1>6 DEF Serve, Answers
  <2>2. /\ m.run = owner /\ m.body \in Outcomes
        /\ pc[m.run] \in {"result", "done"}
    BY <1>6 DEF Protocol, OneCalculation, ResultsFollowPost
  <2>3. Unheard' /\ ClaimsArePending'
    BY <1>1, <1>3, <1>4, <2>1 DEF Protocol, Unheard, ClaimsArePending
  <2>4. AnswersAreTrue'
    BY <1>1, <1>3, <1>4, <2>1, <2>2 DEF Protocol, AnswersAreTrue
  <2>5. ResultsFollowPost' /\ OneResult' /\ OneVerdict'
    BY <1>1, <1>3, <1>4, <1>6, <2>1, <2>2
       DEF Protocol, ResultsFollowPost, OneResult, Posted, OneVerdict, OneCalculation
  <2>6. NothingFollows'
    BY <1>1, <1>3, <1>4, <1>6, <2>1 DEF Protocol, NothingFollows
  <2>7. OneCalculation'
    BY <1>1, <1>3, <1>4, <2>1 DEF Protocol, OneCalculation
  <2>8. ExitTruth'
    <3> SUFFICES ASSUME NEW r \in Run
                 PROVE  Backed(r, exit[r])'
      BY DEF ExitTruth
    <3>1. Backed(r, exit[r]) /\ terminal = None /\ exit[m.run] # "UX1_CALCULATOR_FAILED"
      BY <1>6 DEF Protocol, ExitTruth, Backed, NothingFollows
    <3>2. exit[r] \notin {"UX1_OK", "UX1_INPUT_UNAVAILABLE"}
      BY <3>1 DEF Backed, Outcomes, Failures
    <3> QED
      BY <1>1, <2>1, <2>2, <3>1, <3>2 DEF Backed
  <2> QED
    BY <1>1, <1>2, <1>3, <2>3, <2>4, <2>5, <2>6, <2>7, <2>8 DEF Protocol, Alone, Executing
<1> QED
  BY <1>1, <1>5, <1>6

(* A run ends; what it reports is what it knows of the console. *)
LEMMA EndKeeps ==
  ASSUME TypeOK, Protocol, NEW r \in Run, NEW code,
         pc[r] = "queued" => Executing = {},
         net' \subseteq net, UNCHANGED <<console, verdict>>,
         pc' = [pc EXCEPT ![r] = "done"], exit' = [exit EXCEPT ![r] = code],
         pc[r] # "done",
         Backed(r, code),
         code = "UX1_CALCULATOR_FAILED" => \A m \in net : m.type = "result" => m.run # r
  PROVE  Protocol'
<1>1. /\ pc'[r] = "done" /\ \A q \in Run \ {r} : pc'[q] = pc[q]
      /\ exit'[r] = code /\ \A q \in Run \ {r} : exit'[q] = exit[q]
      /\ owner' = owner /\ terminal' = terminal
  BY DEF TypeOK, console
<1>2. \A q \in Run : pc'[q] \in {"queued", "done"}
  BY <1>1 DEF Protocol, Alone, Executing
<1>3. Alone' /\ OneResult'
  BY <1>2 DEF Alone, Executing, OneResult
<1>4. Unheard' /\ ClaimsArePending' /\ AnswersAreTrue'
  BY <1>1 DEF Protocol, Unheard, ClaimsArePending, AnswersAreTrue
<1>5. ResultsFollowPost'
  BY <1>1 DEF Protocol, ResultsFollowPost, OneCalculation, TypeOK, Message
<1>6. OneCalculation'
  BY <1>1, <1>2 DEF Protocol, OneCalculation
<1>7. ExitTruth'
  BY <1>1 DEF Protocol, ExitTruth, Backed
<1>8. OneVerdict' /\ NothingFollows'
  BY <1>1 DEF Protocol, OneVerdict, NothingFollows, Message
<1> QED
  BY <1>3, <1>4, <1>5, <1>6, <1>7, <1>8 DEF Protocol

(* The run that holds the request gets a step further. *)
LEMMA MoveKeeps ==
  ASSUME TypeOK, Protocol, NEW r \in Run, NEW step \in {"stage", "calculate", "post"},
         pc[r] \in {"claim", "stage", "calculate"}, owner = r,
         net' \subseteq net, UNCHANGED <<console, exit>>,
         pc' = [pc EXCEPT ![r] = step],
         step = "post" => body' \in Outcomes,
         verdict' = "large" => step = "post" /\ body' = "ok"
  PROVE  Protocol'
<1>1. /\ pc'[r] = step /\ \A q \in Run \ {r} : pc'[q] = pc[q]
      /\ owner' = owner /\ terminal' = terminal /\ exit' = exit
  BY DEF TypeOK, console
<1>2. r \in Executing /\ \A q \in Run \ {r} : pc[q] \in {"queued", "done"}
  BY DEF Protocol, Alone, Executing
<1>3. Alone' /\ OneResult'
  BY <1>1, <1>2 DEF Alone, Executing, OneResult
<1>4. Unheard' /\ ClaimsArePending' /\ AnswersAreTrue'
  BY <1>1 DEF Protocol, Unheard, ClaimsArePending, AnswersAreTrue
<1>5. ResultsFollowPost'
  BY <1>1 DEF Protocol, ResultsFollowPost, TypeOK, Message
<1>6. OneCalculation'
  BY <1>1, <1>2 DEF Protocol, OneCalculation
<1>7. exit[r] \notin Codes /\ terminal = None
  BY DEF Protocol, NothingFollows, ResultsFollowPost
<1>8. ExitTruth'
  <2> SUFFICES ASSUME NEW q \in Run
               PROVE  Backed(q, exit[q])'
    BY DEF ExitTruth
  <2>1. Backed(q, exit[q])
    BY DEF Protocol, ExitTruth
  <2>2. exit[q] # "UX1_OK"
    BY <1>7, <2>1, NoneIsNoRun DEF Backed, Codes, Outcomes, Failures
  <2> QED
    BY <1>1, <2>1, <2>2 DEF Backed
<1>9. OneVerdict' /\ NothingFollows'
  BY <1>1, <1>7, NoneIsNoRun DEF Protocol, OneVerdict, NothingFollows, Message
<1> QED
  BY <1>3, <1>4, <1>5, <1>6, <1>8, <1>9 DEF Protocol

LEMMA ClaimKeeps ==
  ASSUME TypeOK, Protocol, NEW r \in Run, Claim(r)
  PROVE  Protocol'
<1> DEFINE claim == [type |-> "claim", run |-> r, body |-> None]
<1>1. /\ net' = net \union {claim} /\ pc' = [pc EXCEPT ![r] = "claim"]
      /\ pc[r] = "queued" /\ Executing = {}
      /\ UNCHANGED <<owner, terminal, exit, body, verdict>>
  BY DEF Claim, Send, Goto, console, locals
<1>2. pc'[r] = "claim" /\ \A q \in Run \ {r} : pc'[q] = pc[q] /\ pc[q] \in {"queued", "done"}
  BY <1>1 DEF TypeOK, Executing
<1>3. claim \in Message /\ owner # r /\ \A m \in net : m.run # r
  BY <1>1 DEF Message, Bodies, Protocol, Unheard
<1>4. Alone' /\ OneResult'
  BY <1>2 DEF Alone, Executing, OneResult
<1>5. Unheard' /\ ClaimsArePending' /\ AnswersAreTrue'
  BY <1>1, <1>2, <1>3 DEF Protocol, Unheard, ClaimsArePending, AnswersAreTrue
<1>6. ResultsFollowPost'
  BY <1>1, <1>2, <1>3 DEF Protocol, ResultsFollowPost, TypeOK, Message
<1>7. OneCalculation' /\ ExitTruth'
  BY <1>1, <1>2 DEF Protocol, OneCalculation, ExitTruth, Backed
<1>8. OneVerdict' /\ NothingFollows'
  BY <1>1, <1>2, <1>3 DEF Protocol, OneVerdict, NothingFollows, TypeOK, Message
<1> QED
  BY <1>1, <1>3, <1>4, <1>5, <1>6, <1>7, <1>8 DEF Protocol

LEMMA PostKeeps ==
  ASSUME TypeOK, Protocol, NEW r \in Run, Post(r)
  PROVE  Protocol'
<1> USE NoneIsNoRun
<1> DEFINE result == [type |-> "result", run |-> r, body |-> Posted]
<1>1. /\ net' = net \union {result} /\ pc' = [pc EXCEPT ![r] = "result"]
      /\ pc[r] = "post"
      /\ UNCHANGED <<owner, terminal, exit, body, verdict>>
  BY DEF Post, Send, Goto, console, locals
<1>2. /\ owner = r /\ body \in Outcomes /\ (verdict = "large" => body = "ok")
      /\ Posted \in Outcomes /\ Posted' = Posted
      /\ pc'[r] = "result" /\ \A q \in Run \ {r} : pc'[q] = pc[q] /\ pc[q] \in {"queued", "done"}
  BY <1>1 DEF TypeOK, Protocol, Alone, Executing, OneCalculation, OneResult, Posted, Outcomes, Failures
<1>3. result \in Message
  BY <1>2 DEF Message, Bodies
<1>4. terminal = None /\ \A m \in net : m.type # "result"
  BY <1>1, <1>2 DEF Protocol, OneCalculation, ResultsFollowPost
<1>5. Alone' /\ OneResult'
  BY <1>1, <1>2, <1>4 DEF Alone, Executing, OneResult
<1>6. Unheard' /\ ClaimsArePending' /\ AnswersAreTrue'
  BY <1>1, <1>2 DEF Protocol, Unheard, ClaimsArePending, AnswersAreTrue
<1>7. ResultsFollowPost'
  BY <1>1, <1>2, <1>4 DEF ResultsFollowPost
<1>8. OneCalculation' /\ ExitTruth'
  BY <1>1, <1>2, <1>4 DEF Protocol, OneCalculation, ExitTruth, Backed
<1>9. OneVerdict' /\ NothingFollows'
  <2>1. exit[r] \notin Codes /\ "UX1_CALCULATOR_FAILED" \in Codes
    BY <1>1 DEF Protocol, NothingFollows, Codes
  <2> QED
    BY <1>1, <1>2, <1>4, <2>1 DEF Protocol, OneVerdict, NothingFollows
<1> QED
  BY <1>1, <1>3, <1>5, <1>6, <1>7, <1>8, <1>9 DEF Protocol

-----------------------------------------------------------------------------
(* The steps, by what they leave alone. *)

Types ==
  /\ owner \in Run \union {None} /\ terminal \in Outcomes \union {None}
  /\ bucket \in [Object -> Generation]
  /\ usage \in [count : 0..Len(Plan), bytes : 0..BytesLimit]
  /\ generation \in Generation \union {None}
  /\ staged \in [Object -> Generation \union {None}]
  /\ pc \in [Run -> {"queued", "claim", "stage", "calculate", "post", "result", "done"}]
  /\ exit \in [Run -> Codes \union {None, "killed"}]
  /\ body \in Outcomes \union {None}
  /\ verdict \in Verdicts \union {None}

LEMMA Split == IInv <=> ProcessInv /\ Types /\ Protocol
BY DEF IInv, TypeOK, ProcessInv, Types

LEMMA Joined == ProcessInv' /\ Types' /\ Protocol' => IInv'
BY DEF IInv, TypeOK, ProcessInv, Types

LEMMA ThePlan ==
  /\ Len(Plan) \in Nat /\ DOMAIN Plan = 1..Len(Plan)
  /\ \A n \in 1..Len(Plan) : Plan[n] \in Object
  /\ \A m, n \in 1..Len(Plan) : Plan[m] = Plan[n] => m = n
  /\ BytesLimit \in Nat /\ CountLimit \in Nat
BY AsyncAssumption DEF Object

LEMMA SizesAreNumbers == \A o \in Object, g \in Generation : SizeOf[o][g] \in Nat
BY AsyncAssumption

LEMMA NothingYet == /\ [count |-> 0, bytes |-> 0] \in [count : 0..Len(Plan), bytes : 0..BytesLimit]
                    /\ NothingStaged \in [Object -> Generation \union {None}]
BY ThePlan DEF NothingStaged

LEMMA InitHolds == Init => IInv
<1> SUFFICES ASSUME Init
             PROVE  IInv
  OBVIOUS
<1>1. ProcessInv
  BY IdleInv DEF Init
<1>2. Types
  BY NothingYet, AsyncAssumption DEF Init, Types
<1>3. Protocol
  BY NoneIsNoRun DEF Init, Codes, Verdicts, Protocol, Alone, Executing, Unheard, ClaimsArePending,
       AnswersAreTrue, ResultsFollowPost, OneResult, OneVerdict, NothingFollows,
       OneCalculation, ExitTruth, Backed
<1> QED
  BY <1>1, <1>2, <1>3, Split

LEMMA CleanedUp == CleanUp => /\ usage' \in [count : 0..Len(Plan), bytes : 0..BytesLimit]
                              /\ generation' \in Generation \union {None}
                              /\ staged' \in [Object -> Generation \union {None}]
BY NothingYet DEF CleanUp

(* Every way out of a run ends in Exit. *)
LEMMA ExitKeeps ==
  ASSUME IInv, NEW r \in Run, NEW code \in Codes \union {"killed"}, Exit(r, code),
         pc[r] = "queued" => Executing = {},
         net' \subseteq net, UNCHANGED <<console, bucket>>,
         pc[r] # "done",
         Backed(r, code),
         code = "UX1_CALCULATOR_FAILED" => \A m \in net : m.type = "result" => m.run # r
  PROVE  IInv'
<1>1. ProcessInv'
  <2>1. ProcessIdle'
    BY DEF Exit, ProcessIdle
  <2>2. ProcessIdle' => ProcessInv'
    BY IdleInv, PTL
  <2> QED
    BY <2>1, <2>2
<1>2. Types'
  BY CleanedUp, Split DEF Exit, Goto, Types, console
<1>3. Protocol'
  BY EndKeeps DEF IInv, Exit, Goto
<1> QED
  BY <1>1, <1>2, <1>3, Split, Joined

LEMMA EndingSteps ==
  ASSUME IInv, NEW r \in Run,
         \/ Refused(r) \/ NotGranted(r) \/ HttpFailed(r) \/ Escape(r)
         \/ Recorded(r) \/ Kill(r)
  PROVE  IInv'
<1> USE DEF Codes
<1>s. /\ terminal # None => owner # None /\ pc[owner] \in {"result", "done"}
      /\ \A m \in net : m.type = "result" => pc[m.run] \in {"result", "done"}
  BY DEF IInv, Protocol, ResultsFollowPost
<1>1. CASE Refused(r)
  <2>1. PICK code \in {"UX1_JOB_UNCONFIGURED", "UX1_RUN_ATTEMPT_REJECTED"} : Exit(r, code)
    BY <1>1 DEF Refused
  <2>2. Backed(r, code)
    BY DEF Backed
  <2> QED
    BY <1>1, <2>1, <2>2, ExitKeeps DEF Refused
<1>2. CASE NotGranted(r)
  <2>1. owner \notin {None, r} /\ net' \subseteq net
    BY <1>2 DEF NotGranted, Answered, IInv, Protocol, AnswersAreTrue
  <2>2. Backed(r, "UX1_CLAIM_NOT_GRANTED")
    BY <2>1 DEF Backed
  <2> QED
    BY <1>2, <2>1, <2>2, ExitKeeps DEF NotGranted
<1>3. CASE HttpFailed(r)
  <2>1. PICK code \in {"UX1_HTTP_FAILED", "UX1_HTTP_REDIRECT"} : Exit(r, code)
    BY <1>3 DEF HttpFailed
  <2>2. Backed(r, code)
    BY DEF Backed
  <2> QED
    BY <1>3, <2>1, <2>2, ExitKeeps DEF HttpFailed, console
<1>4. CASE Escape(r)
  <2>1. pc[r] \in {"stage", "calculate", "post"}
    BY <1>4 DEF Escape
  <2>2. Backed(r, "UX1_CALCULATOR_FAILED")
    BY <1>s, <2>1 DEF Backed
  <2> QED
    BY <1>4, <1>s, <2>1, <2>2, ExitKeeps DEF Escape, console
<1>5. CASE Recorded(r)
  <2>1. /\ owner = r /\ terminal # None /\ net' \subseteq net /\ pc[r] = "result"
    BY <1>5 DEF Recorded, Answered, IInv, Protocol, AnswersAreTrue
  <2>2. /\ terminal = Posted /\ body \in Outcomes /\ (verdict = "large" => body = "ok")
        /\ \A m \in net : m.type # "result"
    BY <2>1 DEF IInv, Protocol, OneResult, NothingFollows
  <2>3. CodeOf(body) \in Codes /\ Backed(r, CodeOf(body))
    BY <2>1, <2>2 DEF Backed, CodeOf, Posted, Outcomes, Failures
  <2> QED
    BY <1>5, <2>1, <2>2, <2>3, ExitKeeps DEF Recorded
<1>6. CASE Kill(r)
  <2>1. Backed(r, "killed")
    BY DEF Backed
  <2> QED
    BY <1>6, <2>1, ExitKeeps DEF Kill, Executing, console
<1> QED
  BY <1>1, <1>2, <1>3, <1>4, <1>5, <1>6

LEMMA HoldersMove ==
  ASSUME IInv, NEW r \in Run,
         \/ Granted(r) \/ GrantedMalformed(r) \/ StagingFails(r) \/ Calculate(r)
         \/ CalculatorMissing(r) \/ Classify(r) \/ CalculatorFails(r)
  PROVE  IInv'
<1>h. /\ pc[r] \in {"stage", "calculate"} => owner = r
      /\ pc[r] \in {"claim", "stage", "calculate"} /\ owner = r => verdict # "large"
  BY DEF IInv, Protocol, OneCalculation, OneVerdict
<1>a. ASSUME UNCHANGED process
      PROVE  ProcessInv'
  BY <1>a, Split DEF ProcessInv, ProcessTypeOK, Pipes, process
<1>b. ASSUME NEW outcome \in Outcomes, Conclude(r, outcome), UNCHANGED process,
             pc[r] \in {"stage", "calculate"}
      PROVE  IInv'
  <2>1. Types'
    BY <1>b, CleanedUp, Split DEF Conclude, Goto, Types, console
  <2>2. Protocol'
    BY <1>b, <1>h, MoveKeeps DEF IInv, Conclude, Goto
  <2> QED
    BY <1>a, <1>b, <2>1, <2>2, Split, Joined
<1>1. CASE Granted(r)
  <2>1. owner = r /\ net' \subseteq net
    BY <1>1 DEF Granted, Answered, IInv, Protocol, AnswersAreTrue
  <2>2. Types'
    BY <1>1, Split DEF Granted, Goto, Types, console, locals, staging
  <2>3. Protocol'
    BY <1>1, <1>h, <2>1, MoveKeeps DEF IInv, Granted, Goto, locals
  <2> QED
    BY <1>1, <1>a, <2>2, <2>3, Split, Joined DEF Granted
<1>2. CASE GrantedMalformed(r)
  <2>1. owner = r /\ net' \subseteq net
    BY <1>2 DEF GrantedMalformed, Answered, IInv, Protocol, AnswersAreTrue
  <2>2. Types'
    BY <1>2, Split DEF GrantedMalformed, Goto, Types, console, staging, Outcomes, Failures
  <2>3. Protocol'
    BY <1>2, <1>h, <2>1, MoveKeeps DEF IInv, GrantedMalformed, Goto, Outcomes, Failures
  <2> QED
    BY <1>2, <1>a, <2>2, <2>3, Split, Joined DEF GrantedMalformed
<1>3. CASE StagingFails(r)
  BY <1>3, <1>b DEF StagingFails, Outcomes, Failures
<1>4. CASE Calculate(r)
  <2>1. Types'
    BY <1>4, Split DEF Calculate, Goto, Types, console, locals, staging
  <2>2. Protocol'
    BY <1>4, <1>h, MoveKeeps DEF IInv, Calculate, Goto, locals
  <2> QED
    BY <1>4, <2>1, <2>2, Split, Joined, SpawnKeeps DEF Calculate
<1>5. CASE CalculatorMissing(r)
  BY <1>5, <1>b DEF CalculatorMissing, Outcomes, Failures
<1>6. CASE Classify(r)
  <2>1. body' \in Outcomes /\ verdict' \in Verdicts /\ (verdict' = "large" => body' = "ok")
    BY <1>6 DEF Classify, OutcomeOf, Documents, Verdicts, Outcomes, Failures
  <2>2. Types'
    BY <1>6, <2>1, CleanedUp, Split DEF Classify, Goto, Types, console
  <2>3. Protocol'
    BY <1>6, <1>h, <2>1, MoveKeeps DEF IInv, Classify, Goto
  <2> QED
    BY <1>6, <1>a, <2>2, <2>3, Split, Joined DEF Classify
<1>7. CASE CalculatorFails(r)
  BY <1>7, <1>b DEF CalculatorFails, Outcomes, Failures
<1> QED
  BY <1>1, <1>2, <1>3, <1>4, <1>5, <1>6, <1>7

LEMMA Senders ==
  ASSUME IInv, NEW r \in Run, Claim(r) \/ Post(r)
  PROVE  IInv'
<1>1. ProcessInv' /\ Types'
  BY Split DEF Claim, Post, Goto, ProcessInv, ProcessTypeOK, Pipes, process, Types, console, locals, staging
<1> QED
  BY <1>1, Split, Joined, ClaimKeeps, PostKeeps DEF IInv

LEMMA StagersAndPipes ==
  ASSUME IInv, NEW r \in Run,
         Describe(r) \/ Copy(r) \/ Process(r, ParentStep) \/ Process(r, ChildStep)
  PROVE  IInv'
<1>1. Protocol'
  BY SamePlace DEF IInv, Describe, Copy, Process, locals
<1>2. CASE Describe(r)
  <2>1. usage' \in [count : 0..Len(Plan), bytes : 0..BytesLimit] /\ generation' \in Generation
    <3>1. /\ usage.count \in 0..Len(Plan) /\ usage.bytes \in 0..BytesLimit
          /\ bucket \in [Object -> Generation] /\ usage.count # Len(Plan)
      BY <1>2, Split DEF Describe, Complete, Types
    <3>2. PICK o : /\ o = Plan[usage.count + 1] /\ generation' = bucket[o]
                   /\ usage.bytes + SizeOf[o][bucket[o]] <= BytesLimit
                   /\ usage' = [count |-> usage.count + 1,
                                bytes |-> usage.bytes + SizeOf[o][bucket[o]]]
      BY <1>2 DEF Describe, Admitted
    <3>3. usage.count + 1 \in 1..Len(Plan)
      BY <3>1, ThePlan
    <3>4. bucket[o] \in Generation /\ SizeOf[o][bucket[o]] \in Nat
      BY <3>1, <3>2, <3>3, ThePlan, SizesAreNumbers
    <3>5. usage.bytes + SizeOf[o][bucket[o]] \in 0..BytesLimit
      BY <3>1, <3>2, <3>4, ThePlan
    <3> QED
      BY <3>2, <3>3, <3>4, <3>5, ThePlan
  <2>2. Types'
    BY <1>2, <2>1, Split DEF Describe, Types, console
  <2> QED
    BY <1>1, <1>2, <2>2, Split, Joined DEF Describe, ProcessInv, ProcessTypeOK, Pipes, process
<1>3. CASE Copy(r)
  <2>1. Types'
    BY <1>3, Split DEF Copy, Types, console
  <2> QED
    BY <1>1, <1>3, <2>1, Split, Joined DEF Copy, ProcessInv, ProcessTypeOK, Pipes, process
<1>4. CASE Process(r, ParentStep) \/ Process(r, ChildStep)
  <2>1. Types'
    BY <1>4, Split DEF Process, Types, console, locals, staging
  <2> QED
    BY <1>1, <1>4, <2>1, Split, Joined, ParentKeeps, ChildKeeps DEF Process
<1> QED
  BY <1>2, <1>3, <1>4

LEMMA Surroundings ==
  ASSUME IInv,
         \/ \E m \in net : Serve(m) \/ Lose(m)
         \/ \E o \in Object : Overwrite(o)
         \/ UNCHANGED vars
  PROVE  IInv'
<1>1. ProcessInv'
  BY Split DEF Serve, Lose, Overwrite, vars, ProcessInv, ProcessTypeOK, Pipes, process
<1>2. ASSUME NEW m \in net, Serve(m)
      PROVE  IInv'
  <2>1. m \in Message /\ (m.type = "result" => m.body \in Outcomes)
    BY DEF IInv, Protocol, ResultsFollowPost
  <2>2. Types'
    BY <1>2, <2>1, Split DEF Serve, Types, locals, staging, Message
  <2> QED
    BY <1>1, <1>2, <2>2, Split, Joined, ServeKeeps DEF IInv
<1>3. ASSUME NEW m \in net, Lose(m)
      PROVE  IInv'
  <2>1. Types'
    BY <1>3, Split DEF Lose, Types, locals, console, staging
  <2> QED
    BY <1>1, <1>3, <2>1, Split, Joined, LoseKeeps DEF IInv
<1>4. ASSUME NEW o \in Object, Overwrite(o)
      PROVE  IInv'
  <2>1. Types'
    BY <1>4, Split DEF Overwrite, Types, locals, console, staging
  <2> QED
    BY <1>1, <1>4, <2>1, Split, Joined, SamePlace DEF IInv, Overwrite, locals
<1>5. CASE UNCHANGED vars
  <2>1. Types'
    BY <1>5, Split DEF vars, Types, locals, console, staging
  <2> QED
    BY <1>1, <1>5, <2>1, Split, Joined, SamePlace DEF IInv, vars, locals
<1> QED
  BY <1>2, <1>3, <1>4, <1>5

(* Types, pipes and protocol together are kept by every step (execute,     *)
(* _run_preview_process, and what surrounds them).                         *)
THEOREM Invariance == Spec => []IInv
<1>1. Init => IInv
  BY InitHolds
<1>2. IInv /\ [Next]_vars => IInv'
  BY EndingSteps, HoldersMove, Senders, StagersAndPipes, Surroundings
     DEF Next, Job, RunStep
<1> QED
  BY <1>1, <1>2, PTL DEF Spec

(* The pipes, the console and the runs keep their types. *)
THEOREM TypeCorrect == Spec => []TypeOK
BY Invariance, PTL DEF IInv

(* Whatever the sizes of the pipes, of the request and of the output, the  *)
(* job is never waiting for a calculator that waits for the job.           *)
THEOREM PipesNeverStuck == Spec => []NeverStuckTogether
<1>1. IInv => NeverStuckTogether
  BY Split, NobodyWaits
<1> QED
  BY <1>1, Invariance, PTL

(* Of any number of runs only the one that the console gave the request to *)
(* works on it or speaks for it.                                           *)
THEOREM OneRunPerRequest == Spec => []OneCalculation
BY Invariance, PTL DEF IInv, Protocol

(* A run's exit code says what the console holds. *)
THEOREM ExitsAreTrue == Spec => []ExitTruth
BY Invariance, PTL DEF IInv, Protocol

-----------------------------------------------------------------------------
(* What a result rests on.  Strengthening: no output is lost between the   *)
(* calculator and the document, and a result is only held by the run that  *)
(* is about to post it or has.                                             *)

Flow ==
  /\ call = "none" => out = 0 /\ pipe = Opened
  /\ call = "running" =>
       /\ out + pipe["stdout"].held = child.wrote["stdout"] /\ out <= StdoutLimit
       /\ "stdout" \notin reading => pipe["stdout"].held = 0 /\ ~pipe["stdout"].writer
  /\ call = "returned" =>
       out = child.wrote["stdout"] /\ out <= StdoutLimit /\ child.exit = "zero"

Held ==
  /\ body # None => \E r \in Run : pc[r] \in {"post", "result"}
  /\ call # "none" => \E r \in Run : pc[r] \in {"calculate", "post", "result"}

Honest == Flow /\ Held /\ ResultTruth

LEMMA ChildFlow == ProcessInv /\ Flow /\ ChildStep => Flow'
<1> SUFFICES ASSUME ProcessInv, Flow, ChildStep
             PROVE  Flow'
  OBVIOUS
<1>a. /\ call = "running" /\ call' = call /\ out' = out /\ reading' = reading
      /\ out \in Nat /\ child.wrote \in [Output -> Nat]
      /\ pipe \in [Stream -> StreamState] /\ \A s \in Stream : pipe[s] \in StreamState
      /\ child \in [wants : Stream \union {"nothing"}, wrote : [Output -> Nat],
                    exit : {"none", "running", "zero", "nonzero"}]
      /\ Stream = {"stdout", "stderr", "stdin"} /\ Output = {"stdout", "stderr"}
  BY DEF ProcessInv, ProcessTypeOK, StreamState, ChildStep, ChildWaits, ChildCloses,
         ChildWrites, ChildReads, ChildExits, Running, Stream, Output
<1>b. ASSUME pipe'["stdout"].held = pipe["stdout"].held,
             child'.wrote = child.wrote,
             pipe'["stdout"].writer => pipe["stdout"].writer
      PROVE  Flow'
  BY <1>a, <1>b DEF Flow
<1>1. ASSUME NEW s \in Stream, ChildWaits(s)
      PROVE  Flow'
  BY <1>1, <1>a, <1>b DEF ChildWaits
<1>2. ASSUME NEW s \in Stream, ChildCloses(s)
      PROVE  Flow'
  <2>1. CASE s = "stdin"
    <3>1. pipe' = [pipe EXCEPT !["stdin"].reader = FALSE] /\ child' = child
      BY <1>2, <2>1 DEF ChildCloses
    <3> QED
      BY <1>a, <1>b, <3>1
  <2>2. CASE s # "stdin"
    <3>1. pipe' = [pipe EXCEPT ![s].writer = FALSE] /\ child' = child
      BY <1>2, <2>2 DEF ChildCloses
    <3>2. pipe'["stdout"].held = pipe["stdout"].held /\ (pipe'["stdout"].writer => pipe["stdout"].writer)
      BY <1>a, <3>1 DEF StreamState
    <3> QED
      BY <1>b, <3>1, <3>2
  <2> QED
    BY <2>1, <2>2
<1>3. ASSUME NEW s \in Output, ChildWrites(s)
      PROVE  Flow'
  <2>1. /\ pipe' = [pipe EXCEPT ![s].held = @ + 1] /\ pipe[s].writer
        /\ child' = [child EXCEPT !.wants = "nothing", !.wrote[s] = @ + 1]
    BY <1>3 DEF ChildWrites
  <2>2. child'.wrote = [child.wrote EXCEPT ![s] = @ + 1]
    BY <1>a, <2>1
  <2>3. CASE s = "stdout"
    <3>1. /\ pipe'["stdout"].held = pipe["stdout"].held + 1
          /\ child'.wrote["stdout"] = child.wrote["stdout"] + 1
          /\ pipe["stdout"].held \in Nat /\ child.wrote["stdout"] \in Nat
      BY <1>a, <2>1, <2>2, <2>3, PipeAssumption DEF StreamState
    <3>2. "stdout" \in reading
      BY <1>a, <2>1, <2>3 DEF Flow
    <3> QED
      BY <1>a, <3>1, <3>2 DEF Flow
  <2>4. CASE s # "stdout"
    <3>1. /\ pipe'["stdout"] = pipe["stdout"]
          /\ child'.wrote["stdout"] = child.wrote["stdout"]
      BY <1>a, <2>1, <2>2, <2>4
    <3> QED
      BY <1>a, <3>1 DEF Flow
  <2> QED
    BY <2>3, <2>4
<1>4. CASE ChildReads
  <2>1. child'.wrote = child.wrote
    BY <1>4, <1>a DEF ChildReads
  <2>2. pipe'["stdout"] = pipe["stdout"]
    <3>1. \/ pipe' = [pipe EXCEPT !["stdin"].held = @ - 1]
          \/ pipe' = [pipe EXCEPT !["stdin"].reader = FALSE]
      BY <1>4 DEF ChildReads
    <3> QED
      BY <1>a, <3>1
  <2> QED
    BY <1>b, <2>1, <2>2
<1>5. CASE ChildExits
  <2>1. child'.wrote = child.wrote
    BY <1>5, <1>a DEF ChildExits
  <2>2. pipe' = [pipe EXCEPT !["stdin"].reader = FALSE,
                             !["stdout"].writer = FALSE, !["stderr"].writer = FALSE]
    BY <1>5 DEF ChildExits
  <2>3. pipe'["stdout"].held = pipe["stdout"].held /\ ~pipe'["stdout"].writer
    BY <1>a, <2>2 DEF StreamState
  <2> QED
    BY <1>b, <2>1, <2>3
<1> QED
  BY <1>1, <1>2, <1>3, <1>4, <1>5 DEF ChildStep

LEMMA ParentFlow == ProcessInv /\ Flow /\ ParentStep => Flow'
<1> SUFFICES ASSUME ProcessInv, Flow, ParentStep
             PROVE  Flow'
  OBVIOUS
<1>1. CASE Turn
  <2>1. /\ call = "running" /\ call' = call /\ child' = child
        /\ out' = out + Taken /\ out + Taken <= StdoutLimit
        /\ reading' = reading \ {s \in Readable : pipe[s].held = 0}
        /\ pipe' = [s \in Stream |-> IF s = "stdin" THEN StdinAfter ELSE Drained(s)]
    BY <1>1 DEF Turn, Looping
  <2>2. /\ pipe["stdout"].held \in Nat /\ out \in Nat /\ child.wrote["stdout"] \in Nat
        /\ DOMAIN pipe["stdout"] = {"held", "writer", "reader"}
    BY PipeAssumption DEF ProcessInv, ProcessTypeOK, Stream, Output
  <2>3. pipe'["stdout"] = Drained("stdout")
    BY <2>1 DEF Stream, Output
  <2>4. CASE "stdout" \in Readable
    <3>1. /\ Taken = pipe["stdout"].held /\ pipe'["stdout"].held = 0
          /\ pipe'["stdout"].writer = pipe["stdout"].writer
      BY <2>2, <2>3, <2>4 DEF Taken, Drained
    <3>2. "stdout" \notin reading' => ~pipe["stdout"].writer
      BY <2>1, <2>4 DEF Readable
    <3> QED
      BY <2>1, <2>2, <3>1, <3>2 DEF Flow
  <2>5. CASE "stdout" \notin Readable
    <3>1. Taken = 0 /\ pipe'["stdout"] = pipe["stdout"]
      BY <2>3, <2>5 DEF Taken, Drained
    <3>2. "stdout" \in reading => "stdout" \in reading'
      BY <2>1, <2>5
    <3> QED
      BY <2>1, <2>2, <3>1, <3>2 DEF Flow
  <2> QED
    BY <2>4, <2>5
<1>2. CASE Collect
  <2>1. /\ call = "running" /\ reading = {} /\ child.exit = "zero"
        /\ call' = "returned" /\ out' = out /\ child' = child
    BY <1>2 DEF Collect, Looping
  <2>2. out \in Nat
    BY DEF ProcessInv, ProcessTypeOK
  <2> QED
    BY <2>1, <2>2 DEF Flow
<1>3. CASE Fail
  BY <1>3 DEF Fail, Flow
<1> QED
  BY <1>1, <1>2, <1>3 DEF ParentStep, TooMuch, CollectFailure, Deadline

LEMMA NothingHeld ==
  ASSUME IInv, Held, NEW r \in Executing, pc[r] \notin {"post", "result"}
  PROVE  body = None /\ (pc[r] # "calculate" => call = "none")
BY DEF IInv, Protocol, Alone, Executing, Held

LEMMA IdleRuns ==
  ASSUME Held, Executing = {}
  PROVE  body = None /\ call = "none"
BY DEF Executing, Held

(* Steps that leave the calculator and the result alone. *)
LEMMA HonestyStays ==
  ASSUME Honest, UNCHANGED <<process, body, verdict>>,
         \A r \in Run : pc[r] \in {"calculate", "post", "result"} =>
           pc'[r] = pc[r] \/ (pc[r] = "post" /\ pc'[r] = "result")
  PROVE  Honest'
<1>1. Flow' /\ ResultTruth'
  BY DEF Honest, Flow, ResultTruth, process
<1>2. Held'
  BY DEF Honest, Held, process
<1> QED
  BY <1>1, <1>2 DEF Honest

(* Steps after which no result is held. *)
LEMMA HonestyOfNone ==
  ASSUME Flow', Held', body' = None
  PROVE  Honest'
BY NoneIsNoRun DEF Honest, ResultTruth, Outcomes, Failures

(* A failure is concluded without a document. *)
LEMMA HonestyOfFailure ==
  ASSUME IInv, Honest, NEW r \in Run, NEW outcome \in Failures, body' = outcome,
         UNCHANGED <<process, verdict>>, pc' = [pc EXCEPT ![r] = "post"],
         outcome = "input_unavailable" => call = "none"
  PROVE  Honest'
<1>1. pc'[r] = "post"
  BY DEF IInv, TypeOK
<1>2. Flow' /\ Held'
  BY <1>1 DEF Honest, Flow, Held, process
<1>3. ResultTruth'
  BY DEF ResultTruth, Failures, process
<1> QED
  BY <1>2, <1>3 DEF Honest

LEMMA HonestyOfExit ==
  ASSUME NEW r \in Run, NEW code, Exit(r, code)
  PROVE  Honest'
<1>1. Flow' /\ Held' /\ body' = None
  BY DEF Exit, Flow, Held
<1> QED
  BY <1>1, HonestyOfNone

LEMMA RunIsHonest ==
  ASSUME IInv, Honest, NEW r \in Run, RunStep(r) \/ Process(r, ChildStep) \/ Kill(r)
  PROVE  Honest'
<1>t. /\ pc \in [Run -> {"queued", "claim", "stage", "calculate", "post", "result", "done"}]
      /\ ProcessInv /\ Flow /\ Held
  BY DEF IInv, TypeOK, ProcessInv, Honest
<1>n. pc[r] \in {"claim", "stage", "calculate"} =>
        body = None /\ (pc[r] # "calculate" => call = "none")
  BY NothingHeld, <1>t DEF Executing
<1>1. CASE Refused(r) \/ NotGranted(r) \/ HttpFailed(r) \/ Escape(r) \/ Recorded(r) \/ Kill(r)
  <2>1. PICK code : Exit(r, code)
    BY <1>1 DEF Refused, NotGranted, HttpFailed, Escape, Recorded, Kill
  <2> QED
    BY <2>1, HonestyOfExit
<1>2. CASE Claim(r) \/ Granted(r) \/ Describe(r) \/ Copy(r) \/ Post(r)
  <2>1. UNCHANGED <<process, body, verdict>>
    BY <1>2 DEF Claim, Granted, Describe, Copy, Post, locals
  <2>2. \/ pc[r] \notin {"calculate", "post", "result"}
           /\ \A q \in Run : q # r => pc'[q] = pc[q]
        \/ pc[r] = "post" /\ pc' = [pc EXCEPT ![r] = "result"]
    BY <1>2, <1>t DEF Claim, Granted, Describe, Copy, Post, Goto
  <2>3. \A q \in Run : pc[q] \in {"calculate", "post", "result"} =>
          pc'[q] = pc[q] \/ (pc[q] = "post" /\ pc'[q] = "result")
    BY <2>2, <1>t
  <2> QED
    BY <2>1, <2>3, HonestyStays
<1>3. CASE GrantedMalformed(r)
  BY <1>3, HonestyOfFailure DEF GrantedMalformed, Goto, Failures
<1>4. CASE StagingFails(r)
  BY <1>4, <1>n, HonestyOfFailure DEF StagingFails, Conclude, Goto, Failures
<1>5. CASE CalculatorMissing(r) \/ CalculatorFails(r)
  BY <1>5, HonestyOfFailure DEF CalculatorMissing, CalculatorFails, Conclude, Goto, Failures
<1>6. CASE Calculate(r)
  <2>1. body' = None
    BY <1>6, <1>n DEF Calculate, locals
  <2>2. Held'
    BY <1>6, <1>t, <2>1 DEF Calculate, Goto, Held
  <2>3. Flow'
    <3>1. /\ call = "none" /\ call' = "running" /\ reading' = Output /\ out' = out /\ pipe' = pipe
          /\ child'.wrote = NoChild.wrote
      BY <1>6 DEF Calculate, Spawn, NoChild
    <3>2. out = 0 /\ pipe["stdout"].held = 0 /\ NoChild.wrote["stdout"] = 0
      BY <1>t, <3>1 DEF Flow, Opened, NoChild, Stream, Output
    <3> QED
      BY <3>1, <3>2, PipeAssumption DEF Flow, Output
  <2> QED
    BY <2>1, <2>2, <2>3, HonestyOfNone
<1>7. CASE Process(r, ParentStep) \/ Process(r, ChildStep)
  <2>1. body' = None /\ pc' = pc /\ pc[r] = "calculate"
    BY <1>7, <1>n DEF Process, locals
  <2>2. Flow'
    BY <1>7, <1>t, ParentFlow, ChildFlow DEF Process
  <2>3. Held'
    BY <2>1 DEF Held
  <2> QED
    BY <2>1, <2>2, <2>3, HonestyOfNone
<1>8. CASE Classify(r)
  <2>1. /\ call = "returned" /\ UNCHANGED process
        /\ verdict' \in Verdicts /\ body' = OutcomeOf(verdict')
        /\ pc' = [pc EXCEPT ![r] = "post"]
    BY <1>8 DEF Classify, Goto, Documents, Verdicts
  <2>2. Flow' /\ Held'
    BY <1>t, <2>1 DEF Flow, Held, process
  <2>3. ResultTruth'
    BY <1>t, <2>1 DEF Flow, ResultTruth, OutcomeOf, Verdicts, process
  <2> QED
    BY <2>2, <2>3 DEF Honest
<1> QED
  BY <1>1, <1>2, <1>3, <1>4, <1>5, <1>6, <1>7, <1>8 DEF RunStep

LEMMA OthersAreHonest ==
  ASSUME IInv, Honest,
         \/ \E m \in net : Serve(m) \/ Lose(m)
         \/ \E o \in Object : Overwrite(o)
         \/ UNCHANGED vars
  PROVE  Honest'
<1>1. UNCHANGED <<process, body, verdict>> /\ pc' = pc
  BY DEF Serve, Lose, Overwrite, vars, locals
<1> QED
  BY <1>1, HonestyStays

LEMMA HonestyHolds == Spec => []Honest
<1>1. Init => Honest
  BY NoneIsNoRun DEF Init, ProcessIdle, Honest, Flow, Held, ResultTruth, Outcomes, Failures
<1>2. IInv /\ Honest /\ [Next]_vars => Honest'
  BY RunIsHonest, OthersAreHonest DEF Next, Job
<1> QED
  BY <1>1, <1>2, Invariance, PTL DEF Spec

(* A success that is posted rests on the whole output of a calculator that *)
(* ended well, and "input unavailable" on a document that says so or on a  *)
(* staging that failed.                                                    *)
THEOREM ResultsAreTrue == Spec => []ResultTruth
BY HonestyHolds, PTL DEF Honest

-----------------------------------------------------------------------------
(* What is staged.  Strengthening: the copies are the first Kept objects   *)
(* of the plan and their running total is what usage says, less the object *)
(* in progress; what was admitted of that object; and the calculator runs  *)
(* only when every object has been copied.                                 *)

Kept      == IF generation = None THEN usage.count ELSE usage.count - 1
KeptBytes == IF generation = None THEN usage.bytes
             ELSE usage.bytes - SizeOf[Plan[usage.count]][generation]

CopiesInOrder ==
  /\ generation # None => usage.count > 0
  /\ \A n \in 1..Len(Plan) : Plan[n] \in Copied <=> n <= Kept

Counted == usage.count <= CountLimit

BytesAddUp ==
  \E total \in [0..Len(Plan) -> 0..BytesLimit] :
    /\ total[0] = 0
    /\ \A n \in 1..Len(Plan) :
         total[n] = total[n - 1] + (IF Plan[n] \in Copied THEN SizeOf[Plan[n]][staged[Plan[n]]] ELSE 0)
    /\ \A n \in Kept..Len(Plan) : total[n] = KeptBytes

Agreed(o, size) ==
  /\ Expected[o] \in {None, size}
  /\ o # Policy => staged[Policy] = FrozenPolicy

SizesAgreed ==
  /\ \A o \in Copied : Agreed(o, SizeOf[o][staged[o]])
  /\ generation # None =>
       Agreed(Plan[usage.count], SizeOf[Plan[usage.count]][generation])

Staging ==
  /\ CopiesInOrder /\ Counted /\ BytesAddUp /\ SizesAgreed
  /\ call = "running" => Complete

StagingTypes ==
  /\ usage \in [count : 0..Len(Plan), bytes : 0..BytesLimit]
  /\ generation \in Generation \union {None}
  /\ staged \in [Object -> Generation \union {None}]

LEMMA StagingTyped == IInv => StagingTypes /\ bucket \in [Object -> Generation]
BY Split DEF Types, StagingTypes

LEMMA OnPlan == \A o \in Object : \E n \in 1..Len(Plan) : o = Plan[n]
BY ThePlan DEF Object

(* The total over the plan, in terms of the model's operator. *)
LEMMA StagingAgrees ==
  ASSUME StagingTypes, Staging
  PROVE  StagedAsAgreed
<1> USE DEF Staging
<1>1. Kept \in 0..Len(Plan) /\ Kept <= CountLimit
  BY ThePlan DEF StagingTypes, CopiesInOrder, Counted, Kept
<1>2. BytesWithinLimit
  <2>1. PICK total \in [0..Len(Plan) -> 0..BytesLimit] :
          /\ total[0] = 0
          /\ \A n \in 1..Len(Plan) :
               total[n] = total[n - 1] + (IF Plan[n] \in Copied THEN SizeOf[Plan[n]][staged[Plan[n]]] ELSE 0)
    BY DEF BytesAddUp
  <2> QED
    BY <2>1, ThePlan DEF BytesWithinLimit
<1>3. Cardinality(Copied) <= CountLimit
  <2> DEFINE f == [n \in 1..Kept |-> Plan[n]]
  <2>1. \A n \in 1..Kept : Plan[n] \in Copied
    BY <1>1, ThePlan DEF CopiesInOrder
  <2>2. \A o \in Copied : \E n \in 1..Kept : Plan[n] = o
    <3> SUFFICES ASSUME NEW o \in Copied
                 PROVE  \E n \in 1..Kept : Plan[n] = o
      OBVIOUS
    <3>1. PICK n \in 1..Len(Plan) : o = Plan[n]
      BY OnPlan DEF Copied
    <3> QED
      BY <1>1, <3>1 DEF CopiesInOrder
  <2>3. f \in Surjection(1..Kept, Copied)
    BY <2>1, <2>2 DEF Surjection
  <2>4. Kept \in Nat /\ ExistsSurjection(1..Kept, Copied)
    BY <1>1, <2>3, ThePlan DEF ExistsSurjection
  <2>5. Cardinality(Copied) <= Kept /\ IsFiniteSet(Copied)
    <3>1. IsFiniteSet(1..Kept)
      BY <2>4, FS_Interval
    <3> QED
      BY <2>3, <2>4, <3>1, FS_SurjCardinalityBound, FS_Surjection
  <2>6. Cardinality(Copied) \in Nat
    BY <2>5, FS_CardinalityType
  <2> QED
    BY <1>1, <2>5, <2>6, ThePlan
<1>4. \A o \in Copied : Expected[o] \in {None, SizeOf[o][staged[o]]}
  BY DEF SizesAgreed, Agreed
<1>5. Copied \ {Policy} # {} => staged[Policy] = FrozenPolicy
  BY DEF SizesAgreed, Agreed
<1>6. call = "running" => Copied = Object
  <2> SUFFICES ASSUME Complete
               PROVE  Object \subseteq Copied
    BY DEF Copied
  <2>1. Kept = Len(Plan)
    BY DEF Complete, Kept
  <2>2. \A n \in 1..Len(Plan) : Plan[n] \in Copied
    BY <2>1, ThePlan DEF CopiesInOrder
  <2> QED
    BY <2>2, OnPlan
<1> QED
  BY <1>2, <1>3, <1>4, <1>5, <1>6 DEF StagedAsAgreed

LEMMA NothingIsStaged ==
  ASSUME usage = [count |-> 0, bytes |-> 0], generation = None, staged = NothingStaged,
         call # "running"
  PROVE  Staging
<1>1. Kept = 0 /\ KeptBytes = 0 /\ Copied = {}
  BY DEF Kept, KeptBytes, Copied, NothingStaged
<1>2. CopiesInOrder /\ Counted /\ SizesAgreed
  BY <1>1, ThePlan DEF CopiesInOrder, Counted, SizesAgreed
<1>3. BytesAddUp
  <2> DEFINE total == [n \in 0..Len(Plan) |-> 0]
  <2>1. total \in [0..Len(Plan) -> 0..BytesLimit] /\ total[0] = 0
    BY ThePlan
  <2>2. \A n \in 1..Len(Plan) :
          total[n] = total[n - 1] + (IF Plan[n] \in Copied THEN SizeOf[Plan[n]][staged[Plan[n]]] ELSE 0)
    BY <1>1, ThePlan
  <2>3. \A n \in Kept..Len(Plan) : total[n] = KeptBytes
    BY <1>1, ThePlan
  <2> QED
    BY <2>1, <2>2, <2>3 DEF BytesAddUp
<1> QED
  BY <1>2, <1>3 DEF Staging

LEMMA CleanedStaging == CleanUp /\ call' # "running" => Staging'
<1>1. (usage = [count |-> 0, bytes |-> 0] /\ generation = None /\ staged = NothingStaged
         /\ call # "running")' => Staging'
  BY NothingIsStaged, PTL
<1> QED
  BY <1>1 DEF CleanUp, NothingStaged

LEMMA StagingStays ==
  ASSUME Staging, UNCHANGED staging, call' = "running" => call = "running" \/ Complete
  PROVE  Staging'
BY DEF Staging, staging, CopiesInOrder, Counted, BytesAddUp, SizesAgreed, Agreed, Complete,
       Kept, KeptBytes, Copied

LEMMA DescribeStages ==
  ASSUME IInv, Staging, NEW r \in Run, Describe(r), call = "none"
  PROVE  Staging'
<1> USE DEF Staging
<1>1. /\ StagingTypes /\ bucket \in [Object -> Generation]
      /\ generation = None /\ usage.count # Len(Plan)
      /\ staged' = staged /\ call' = call
  BY StagingTyped DEF Describe, Complete, process
<1>2. PICK o : /\ o = Plan[usage.count + 1] /\ generation' = bucket[o]
               /\ Admitted(o, SizeOf[o][bucket[o]])
               /\ usage' = [count |-> usage.count + 1,
                            bytes |-> usage.bytes + SizeOf[o][bucket[o]]]
  BY DEF Describe
<1>3. /\ usage.count + 1 \in 1..Len(Plan) /\ usage.count \in Nat /\ usage.bytes \in Nat
      /\ bucket[o] \in Generation /\ bucket[o] # None /\ SizeOf[o][bucket[o]] \in Nat
  <2>1. usage.count \in Nat /\ usage.bytes \in Nat /\ usage.count + 1 \in 1..Len(Plan)
    BY <1>1, ThePlan DEF StagingTypes
  <2>2. o \in Object
    BY <1>2, <2>1, ThePlan
  <2>3. None \notin Generation
    BY AsyncAssumption
  <2> QED
    BY <1>1, <2>1, <2>2, <2>3, SizesAreNumbers
<1>4. /\ Kept' = Kept /\ KeptBytes' = KeptBytes /\ Copied' = Copied
      /\ Plan[usage'.count] = o /\ usage'.count = usage.count + 1
  BY <1>1, <1>2, <1>3 DEF Kept, KeptBytes, Copied
<1>5. CopiesInOrder'
  BY <1>3, <1>4 DEF CopiesInOrder
<1>6. Counted'
  BY <1>2, <1>3, <1>4, ThePlan DEF Counted, Admitted
<1>7. BytesAddUp'
  BY <1>1, <1>4 DEF BytesAddUp
<1>8. SizesAgreed'
  BY <1>1, <1>2, <1>4 DEF SizesAgreed, Agreed, Admitted
<1> QED
  BY <1>1, <1>5, <1>6, <1>7, <1>8

LEMMA CopyStages ==
  ASSUME IInv, Staging, NEW r \in Run, Copy(r), call = "none"
  PROVE  Staging'
<1> USE DEF Staging
<1> DEFINE k == usage.count
           size == SizeOf[Plan[k]][generation]
           Size(n) == IF Plan[n] \in Copied THEN SizeOf[Plan[n]][staged[Plan[n]]] ELSE 0
           SizeNext(n) == IF Plan[n] \in Copied' THEN SizeOf[Plan[n]][staged'[Plan[n]]] ELSE 0
<1>1. /\ StagingTypes /\ generation # None /\ generation' = None
      /\ staged' = [staged EXCEPT ![Plan[k]] = generation]
      /\ usage' = usage /\ call' = call
  BY StagingTyped DEF Copy, process
<1>2. /\ k \in 1..Len(Plan) /\ usage.bytes \in 0..BytesLimit
      /\ Plan[k] \in Object /\ generation \in Generation /\ size \in Nat
  BY <1>1, ThePlan, SizesAreNumbers DEF StagingTypes, CopiesInOrder
<1>3. /\ Kept = k - 1 /\ KeptBytes = usage.bytes - size
      /\ Kept' = k /\ KeptBytes' = usage.bytes
  BY <1>1 DEF Kept, KeptBytes
<1>4. /\ Copied' = Copied \union {Plan[k]} /\ staged'[Plan[k]] = generation
      /\ \A o \in Object : o # Plan[k] => staged'[o] = staged[o]
  BY <1>1, <1>2 DEF Copied, StagingTypes
<1>5. \A n \in 1..Len(Plan) : Plan[n] = Plan[k] => n = k
  BY <1>2, ThePlan
<1>6. CopiesInOrder'
  <2>1. \A n \in 1..Len(Plan) : Plan[n] \in Copied' <=> n <= Kept'
    BY <1>2, <1>3, <1>4, <1>5 DEF CopiesInOrder
  <2> QED
    BY <1>1, <2>1 DEF CopiesInOrder
<1>7. Counted'
  BY <1>1 DEF Counted
<1>8. BytesAddUp'
  <2>1. PICK total \in [0..Len(Plan) -> 0..BytesLimit] :
          /\ total[0] = 0
          /\ \A n \in 1..Len(Plan) : total[n] = total[n - 1] + Size(n)
          /\ \A n \in Kept..Len(Plan) : total[n] = KeptBytes
    BY DEF BytesAddUp
  <2> DEFINE next == [n \in 0..Len(Plan) |-> IF n < k THEN total[n] ELSE usage.bytes]
  <2>2. next \in [0..Len(Plan) -> 0..BytesLimit] /\ next[0] = 0
    BY <1>2, <2>1, ThePlan
  <2>3. \A n \in Kept'..Len(Plan) : next[n] = KeptBytes'
    BY <1>2, <1>3, ThePlan
  <2>4. ASSUME NEW n \in 1..Len(Plan)
        PROVE  next[n] = next[n - 1] + SizeNext(n)
    <3>1. Plan[n] \in Object /\ n \in Nat /\ n - 1 \in 0..Len(Plan) /\ n \in 0..Len(Plan)
      BY ThePlan
    <3>2. CASE n < k
      <4>1. n # k /\ Plan[n] # Plan[k]
        BY <1>2, <1>5, <3>2
      <4>2. SizeNext(n) = Size(n)
        BY <1>4, <3>1, <4>1
      <4> QED
        BY <1>2, <2>1, <3>1, <3>2, <4>2
    <3>3. CASE n = k
      <4>1. SizeNext(n) = size
        BY <1>4, <3>3
      <4>2. next[n] = usage.bytes /\ next[n - 1] = total[k - 1]
        BY <1>2, <3>1, <3>3
      <4>3. total[k - 1] = usage.bytes - size
        <5>1. k - 1 \in Kept..Len(Plan)
          BY <1>2, <1>3, ThePlan
        <5> QED
          BY <1>3, <2>1, <5>1
      <4> QED
        BY <1>2, <4>1, <4>2, <4>3
    <3>4. CASE n > k
      <4>1. Plan[n] # Plan[k] /\ Plan[n] \notin Copied
        BY <1>2, <1>3, <1>5, <3>4 DEF CopiesInOrder
      <4>2. SizeNext(n) = 0
        BY <1>4, <4>1
      <4> QED
        BY <1>2, <3>1, <3>4, <4>2
    <3> QED
      BY <1>2, <3>2, <3>3, <3>4
  <2> QED
    BY <2>2, <2>3, <2>4 DEF BytesAddUp
<1>9. SizesAgreed'
  <2>1. Policy = Plan[1] /\ 1 \in 1..Len(Plan) /\ Policy \in Object
    BY <1>2, ThePlan DEF Policy
  <2>2. CASE k = 1
    <3>1. Copied = {}
      <4>1. \A n \in 1..Len(Plan) : Plan[n] \notin Copied
        BY <1>3, <2>2 DEF CopiesInOrder
      <4> QED
        BY <4>1, OnPlan DEF Copied
    <3> QED
      BY <1>1, <1>4, <2>1, <2>2, <3>1 DEF SizesAgreed, Agreed
  <2>3. CASE k # 1
    <3>1. staged'[Policy] = staged[Policy]
      BY <1>4, <1>5, <2>1, <2>3
    <3>2. \A o \in Copied : o # Plan[k] => staged'[o] = staged[o]
      BY <1>4 DEF Copied
    <3> QED
      BY <1>1, <1>4, <3>1, <3>2 DEF SizesAgreed, Agreed
  <2> QED
    BY <2>2, <2>3
<1> QED
  BY <1>1, <1>6, <1>7, <1>8, <1>9

(* A calculator that runs was running, or was spawned. *)
LEMMA ParentDoesNotSpawn == ParentStep /\ call' = "running" => call = "running"
BY DEF ParentStep, Turn, Looping, Collect, TooMuch, CollectFailure, Deadline, Fail

LEMMA RunStages ==
  ASSUME IInv, Honest, Staging, NEW r \in Run,
         RunStep(r) \/ Process(r, ChildStep) \/ Kill(r)
  PROVE  Staging'
<1>n. pc[r] \in {"claim", "stage"} => call = "none"
  BY NothingHeld DEF Executing, Honest
<1>1. CASE Refused(r) \/ NotGranted(r) \/ HttpFailed(r) \/ Escape(r) \/ Recorded(r) \/ Kill(r)
  <2>1. PICK code : Exit(r, code)
    BY <1>1 DEF Refused, NotGranted, HttpFailed, Escape, Recorded, Kill
  <2> QED
    BY <2>1, CleanedStaging DEF Exit
<1>2. CASE StagingFails(r) \/ CalculatorMissing(r) \/ Classify(r) \/ CalculatorFails(r)
  <2>1. CleanUp /\ call' = call /\ call # "running"
    BY <1>2, <1>n DEF StagingFails, CalculatorMissing, Classify, CalculatorFails, Conclude, process
  <2> QED
    BY <2>1, CleanedStaging
<1>3. CASE Claim(r) \/ Granted(r) \/ GrantedMalformed(r) \/ Post(r) \/ Process(r, ChildStep)
  <2>1. UNCHANGED staging
    BY <1>3 DEF Claim, Granted, GrantedMalformed, Post, Process, locals
  <2>2. call' = call
    BY <1>3 DEF Claim, Granted, GrantedMalformed, Post, Process, process, ChildStep, ChildWaits,
                ChildCloses, ChildWrites, ChildReads, ChildExits
  <2> QED
    BY <2>1, <2>2, StagingStays
<1>4. CASE Process(r, ParentStep)
  BY <1>4, StagingStays, ParentDoesNotSpawn DEF Process, locals
<1>5. CASE Calculate(r)
  BY <1>5, StagingStays DEF Calculate, locals
<1>6. CASE Describe(r)
  BY <1>6, <1>n, DescribeStages DEF Describe
<1>7. CASE Copy(r)
  BY <1>7, <1>n, CopyStages DEF Copy
<1> QED
  BY <1>1, <1>2, <1>3, <1>4, <1>5, <1>6, <1>7 DEF RunStep

LEMMA OthersStage ==
  ASSUME Staging,
         \/ \E m \in net : Serve(m) \/ Lose(m)
         \/ \E o \in Object : Overwrite(o)
         \/ UNCHANGED vars
  PROVE  Staging'
<1>1. UNCHANGED staging /\ call' = call
  BY DEF Serve, Lose, Overwrite, vars, locals, process
<1> QED
  BY <1>1, StagingStays

(* Whatever is written to the bucket meanwhile, what a calculator is given *)
(* is every object of the plan, each as it was described: within the       *)
(* limits, of the size the frozen policy names, chosen by no other policy. *)
THEOREM StagingKeepsItsWord == Spec => []StagedAsAgreed
<1>1. Init => Staging
  BY NothingIsStaged DEF Init, ProcessIdle
<1>2. IInv /\ Honest /\ Staging /\ [Next]_vars => Staging'
  BY RunStages, OthersStage DEF Next, Job
<1>3. IInv /\ Staging => StagedAsAgreed
  BY StagingTyped, StagingAgrees
<1> QED
  BY <1>1, <1>2, <1>3, Invariance, HonestyHolds, PTL DEF Spec
===============================================================================
