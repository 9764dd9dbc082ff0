------------------------------- MODULE AsyncJob -------------------------------
(***************************************************************************)
(* The UX1 preview job (scripts/run_ux1_async_job.py): workflow runs claim *)
(* one request from the console, stage the case from a bucket that others  *)
(* write to, have the calculator answer, and post one result.              *)
(*                                                                         *)
(* A run may end at any step; a request may reach the console after its    *)
(* sender gave up on it, or never; its answer may be lost.  Nothing is     *)
(* sent twice.  The workflow's concurrency group lets one run execute at a *)
(* time.                                                                   *)
(***************************************************************************)
EXTENDS PreviewProcess, FiniteSets, Sequences

CONSTANTS
  Run,            \* workflow runs for the request, as [id, attempt]
  Plan,           \* the objects to stage, in order: the policy comes first
  Generation,     \* versions an object may go through, 1..n
  SizeOf,         \* [Object -> [Generation -> Nat]]
  Expected,       \* [Object -> Nat \union {None}]: sizes the policy names
  MaxOverwrites,  \* bound on the objects that are written anew
  FrozenPolicy,   \* the generation that carries BOXX_POLICY_SHA256
  CountLimit, BytesLimit,
  None

Object == {Plan[n] : n \in DOMAIN Plan}
Policy == Plan[1]

Failures == {"input_unavailable", "calculator_failed"}
Outcomes == Failures \union {"ok"}

(* What a calculator's document turns out to be; one that is "large" is a  *)
(* success that no longer fits into a request once it is encoded again.    *)
Verdicts == {"ok", "large", "missing_input", "invalid"}

(* What main prints. *)
Codes == {"UX1_JOB_UNCONFIGURED", "UX1_RUN_ATTEMPT_REJECTED", "UX1_CLAIM_NOT_GRANTED",
          "UX1_HTTP_FAILED", "UX1_HTTP_REDIRECT", "UX1_OK", "UX1_INPUT_UNAVAILABLE", "UX1_CALCULATOR_FAILED"}

ASSUME AsyncAssumption ==
  /\ Run \subseteq [id : STRING, attempt : Nat \ {0}]
  /\ Plan \in Seq(Object) /\ \A m, n \in DOMAIN Plan : Plan[m] = Plan[n] => m = n
  /\ 1 \in Generation /\ FrozenPolicy \in Generation
  /\ SizeOf \in [Object -> [Generation -> Nat]]
  /\ CountLimit \in Nat /\ BytesLimit \in Nat
  /\ None \notin Run /\ None \notin Generation /\ None \notin Outcomes \union Codes \union Verdicts

VARIABLES
  owner,      \* the console: the run that holds the request
  terminal,   \* the console: the result it recorded
  net,        \* messages in flight
  bucket,     \* current generation per object
  pc, exit,   \* per run: where execute() stands, what main printed
  usage,      \* locals of the executing run: objects and bytes described,
  generation, \*   the generation described and not copied yet,
  staged,     \*   the generations copied,
  body,       \*   the outcome execute() posts and reports
  verdict     \* what the calculator's document was; kept when the run ends

console == <<owner, terminal>>
staging == <<usage, generation, staged>>
locals  == <<staging, body, verdict>>
vars    == <<console, net, bucket, pc, exit, locals, process>>

NothingStaged == [o \in Object |-> None]

Init ==
  /\ owner = None /\ terminal = None
  /\ net = {}
  /\ bucket = [o \in Object |-> 1]
  /\ pc = [r \in Run |-> "queued"]
  /\ exit = [r \in Run |-> None]
  /\ usage = [count |-> 0, bytes |-> 0] /\ generation = None /\ staged = NothingStaged
  /\ body = None /\ verdict = None
  /\ ProcessIdle

-----------------------------------------------------------------------------
(* The console and the bucket are external. *)

Answers(m) ==
  IF m.type = "claim"
  THEN {[type |-> "answer", run |-> m.run,
         body |-> IF owner # None THEN "not_granted" ELSE b] : b \in {"granted", "malformed"}}
  ELSE {[type |-> "answer", run |-> m.run,
         body |-> IF m.run = owner /\ terminal = None THEN "recorded" ELSE "refused"]}

Serve(m) ==
  /\ m.type # "answer"
  /\ \E a \in Answers(m) : net' = (net \ {m}) \union {a}
  /\ owner' = IF m.type = "claim" /\ owner = None THEN m.run ELSE owner
  /\ terminal' =
       IF m.type = "result" /\ m.run = owner /\ terminal = None THEN m.body ELSE terminal
  /\ UNCHANGED <<bucket, pc, exit, locals, process>>

Lose(m) ==
  /\ net' = net \ {m}
  /\ UNCHANGED <<console, bucket, pc, exit, locals, process>>

(* What is written while nothing is staged might as well be there earlier. *)
Overwrite(o) ==
  /\ \E r \in Run : pc[r] = "stage"
  /\ bucket[o] + 1 \in Generation
  /\ Cardinality({p \in Object : bucket[p] # 1}) < MaxOverwrites
  /\ bucket' = [bucket EXCEPT ![o] = @ + 1]
  /\ UNCHANGED <<console, net, pc, exit, locals, process>>

-----------------------------------------------------------------------------
(* One run.  The result of a run is in `body` from the moment it is known. *)

Executing == {r \in Run : pc[r] \notin {"queued", "done"}}

Goto(r, step) == pc' = [pc EXCEPT ![r] = step]

(* The temporary directory goes before the result is posted. *)
CleanUp ==
  /\ usage' = [count |-> 0, bytes |-> 0] /\ generation' = None
  /\ staged' = NothingStaged

Exit(r, code) ==
  /\ Goto(r, "done")
  /\ exit' = [exit EXCEPT ![r] = code]
  /\ CleanUp
  /\ body' = None /\ UNCHANGED verdict
  /\ call' = "none" /\ pending' = 0 /\ out' = 0 /\ reading' = {}
  /\ pipe' = Opened /\ child' = NoChild

Send(r, type, content) ==
  net' = net \union {[type |-> type, run |-> r, body |-> content]}

Conclude(r, outcome) ==
  /\ body' = outcome
  /\ Goto(r, "post")
  /\ CleanUp
  /\ UNCHANGED <<console, net, bucket, exit, verdict>>

FirstAttempt(r) == r.attempt = 1

Refused(r) ==
  /\ pc[r] = "queued" /\ Executing = {}
  /\ IF FirstAttempt(r) THEN Exit(r, "UX1_JOB_UNCONFIGURED")
     ELSE Exit(r, "UX1_RUN_ATTEMPT_REJECTED")
  /\ UNCHANGED <<console, net, bucket>>

Claim(r) ==
  /\ pc[r] = "queued" /\ Executing = {}
  /\ FirstAttempt(r)
  /\ Send(r, "claim", None)
  /\ Goto(r, "claim")
  /\ UNCHANGED <<console, bucket, exit, locals, process>>

(* The console's answer to what r waits for. *)
Answered(r, content) ==
  /\ [type |-> "answer", run |-> r, body |-> content] \in net
  /\ net' = net \ {[type |-> "answer", run |-> r, body |-> content]}

(* Mutant of Granted: the answer is not asked who holds the request. *)
GrantedAnyway(r) ==
  /\ pc[r] = "claim"
  /\ Answered(r, "granted") \/ Answered(r, "not_granted")
  /\ Goto(r, "stage")
  /\ UNCHANGED <<console, bucket, exit, locals, process>>

Granted(r) ==
  /\ pc[r] = "claim"
  /\ Answered(r, "granted")
  /\ Goto(r, "stage")
  /\ UNCHANGED <<console, bucket, exit, locals, process>>

(* Claimed, and the request is not one the calculator takes. *)
GrantedMalformed(r) ==
  /\ pc[r] = "claim"
  /\ Answered(r, "malformed")
  /\ body' = "calculator_failed"
  /\ Goto(r, "post")
  /\ UNCHANGED <<console, bucket, exit, staging, verdict, process>>

NotGranted(r) ==
  /\ pc[r] = "claim"
  /\ Answered(r, "not_granted")
  /\ Exit(r, "UX1_CLAIM_NOT_GRANTED")
  /\ UNCHANGED <<console, bucket>>

(* Mutant of HttpFailed: a result that is not acknowledged is taken as ok. *)
HttpFailedUnnoticed(r) ==
  /\ pc[r] \in {"claim", "result"}
  /\ Exit(r, IF pc[r] = "result" /\ body = "ok" THEN "UX1_OK" ELSE "UX1_HTTP_FAILED")
  /\ UNCHANGED <<console, net, bucket>>

(* post_json gives up: no answer in time, an aborted connection, a         *)
(* redirect, any status but 200.  What was sent is still on its way.       *)
HttpFailed(r) ==
  /\ pc[r] \in {"claim", "result"}
  /\ \E code \in {"UX1_HTTP_FAILED", "UX1_HTTP_REDIRECT"} : Exit(r, code)
  /\ UNCHANGED <<console, net, bucket>>

-----------------------------------------------------------------------------
(* stage_ux1_inputs: every object is described, then copied at the         *)
(* generation the description named.                                       *)

Complete == usage.count = Len(Plan) /\ generation = None

(* The objects after the first are those the frozen policy lists. *)
Admitted(o, size) ==
  /\ o = Policy \/ staged[Policy] = FrozenPolicy
  /\ usage.count < CountLimit
  /\ Expected[o] \in {None, size}
  /\ usage.bytes + size <= BytesLimit

Describe(r) ==
  /\ pc[r] = "stage" /\ generation = None /\ ~Complete
  /\ LET o    == Plan[usage.count + 1]
         size == SizeOf[o][bucket[o]]
     IN  /\ Admitted(o, size)
         /\ generation' = bucket[o]
         /\ usage' = [count |-> usage.count + 1, bytes |-> usage.bytes + size]
  /\ UNCHANGED <<console, net, bucket, pc, exit, staged, body, verdict, process>>

(* Mutant of Copy: the newest generation is copied. *)
CopyLatest(r) ==
  /\ pc[r] = "stage" /\ generation # None
  /\ staged' = [staged EXCEPT ![Plan[usage.count]] = bucket[Plan[usage.count]]]
  /\ generation' = None
  /\ UNCHANGED <<console, net, bucket, pc, exit, usage, body, verdict, process>>

Copy(r) ==
  /\ pc[r] = "stage" /\ generation # None
  /\ staged' = [staged EXCEPT ![Plan[usage.count]] = generation]
  /\ generation' = None
  /\ UNCHANGED <<console, net, bucket, pc, exit, usage, body, verdict, process>>

(* The first error ends the staging: an unset location, a gcloud call that *)
(* fails or runs out of the staging deadline, an object that is refused.   *)
StagingFails(r) ==
  /\ pc[r] = "stage" /\ ~Complete
  /\ Conclude(r, "input_unavailable")
  /\ UNCHANGED process

-----------------------------------------------------------------------------
(* The calculator and what its document says. *)

Calculate(r) ==
  /\ pc[r] = "stage" /\ Complete
  /\ Spawn
  /\ Goto(r, "calculate")
  /\ UNCHANGED <<console, net, bucket, exit, locals>>

(* No calculator is installed, or the request is too large for it. *)
CalculatorMissing(r) ==
  /\ pc[r] = "stage" /\ Complete
  /\ Conclude(r, "calculator_failed")
  /\ UNCHANGED process

Process(r, step) ==
  /\ pc[r] = "calculate"
  /\ step
  /\ UNCHANGED <<console, net, bucket, pc, exit, locals>>

Documents == IF out = 0 THEN {"invalid"} ELSE Verdicts

OutcomeOf(document) ==
  CASE document \in {"ok", "large"} -> "ok"
    [] document = "missing_input"   -> "input_unavailable"
    [] OTHER                        -> "calculator_failed"

Classify(r) ==
  /\ pc[r] = "calculate" /\ call = "returned"
  /\ \E document \in Documents :
       verdict' = document /\ body' = OutcomeOf(document)
  /\ Goto(r, "post")
  /\ CleanUp
  /\ UNCHANGED <<console, net, bucket, exit, process>>

CalculatorFails(r) ==
  /\ pc[r] = "calculate" /\ call = "failed"
  /\ Conclude(r, "calculator_failed")
  /\ UNCHANGED process

(* An exception execute() does not catch: a directory or a process that    *)
(* cannot be created, a document that cannot be encoded again.             *)
Escape(r) ==
  /\ \/ pc[r] \in {"stage", "calculate"} /\ call # "running"
     \/ pc[r] = "post" /\ body = "ok"
  /\ Exit(r, "UX1_CALCULATOR_FAILED")
  /\ UNCHANGED <<console, net, bucket>>

-----------------------------------------------------------------------------
(* _post_terminal.  A result that does not fit is replaced in the request  *)
(* by a failure; what the run reports afterwards is still the result's.    *)

Posted == IF verdict = "large" THEN "calculator_failed" ELSE body

Post(r) ==
  /\ pc[r] = "post"
  /\ Send(r, "result", Posted)
  /\ Goto(r, "result")
  /\ UNCHANGED <<console, bucket, exit, locals, process>>

CodeOf(outcome) ==
  CASE outcome = "ok"                -> "UX1_OK"
    [] outcome = "input_unavailable" -> "UX1_INPUT_UNAVAILABLE"
    [] OTHER                         -> "UX1_CALCULATOR_FAILED"

Recorded(r) ==
  /\ pc[r] = "result"
  /\ Answered(r, "recorded")
  /\ Exit(r, CodeOf(body))
  /\ UNCHANGED <<console, bucket>>

(* The machine goes away: a cancelled workflow, its 10 minutes, a crash. *)
Kill(r) ==
  /\ r \in Executing
  /\ Exit(r, "killed")
  /\ UNCHANGED <<console, net, bucket>>

RunStep(r) ==
  \/ Refused(r) \/ Claim(r)
  \/ Granted(r) \/ GrantedMalformed(r) \/ NotGranted(r)
  \/ HttpFailed(r)
  \/ Describe(r) \/ Copy(r) \/ StagingFails(r)
  \/ Calculate(r) \/ CalculatorMissing(r)
  \/ Process(r, ParentStep)
  \/ Classify(r) \/ CalculatorFails(r) \/ Escape(r)
  \/ Post(r) \/ Recorded(r)

Job == \E r \in Run : RunStep(r)

Next ==
  \/ Job
  \/ \E r \in Run : Process(r, ChildStep) \/ Kill(r)
  \/ \E m \in net : Serve(m) \/ Lose(m)
  \/ \E o \in Object : Overwrite(o)

(* The run that executes goes on: its own steps and its timers.  Nothing   *)
(* is asked of the console, the network, the bucket or the calculator.     *)
Spec == Init /\ [][Next]_vars /\ WF_vars(Job)

-----------------------------------------------------------------------------
TypeOK ==
  /\ ProcessTypeOK
  /\ owner \in Run \union {None} /\ terminal \in Outcomes \union {None}
  /\ bucket \in [Object -> Generation]
  /\ usage \in [count : 0..Len(Plan), bytes : 0..BytesLimit]
  /\ generation \in Generation \union {None}
  /\ staged \in [Object -> Generation \union {None}]
  /\ pc \in [Run -> {"queued", "claim", "stage", "calculate", "post", "result", "done"}]
  /\ exit \in [Run -> Codes \union {None, "killed"}]
  /\ body \in Outcomes \union {None}
  /\ verdict \in Verdicts \union {None}

(* However claims, answers and results are delayed or lost, what works on  *)
(* the request or speaks for it is the one run the console gave it to.     *)
OneCalculation ==
  /\ \A r \in Run : pc[r] \in {"stage", "calculate", "post", "result"} => owner = r
  /\ \A m \in net : m.type = "result" => m.run = owner

(* A success that is posted rests on all the output of a calculator that   *)
(* ended well; "input unavailable" is never said of one that answered or  *)
(* broke down.                                                             *)
ResultTruth ==
  /\ body = "ok" =>
       /\ call = "returned" /\ verdict \in {"ok", "large"}
       /\ child.exit = "zero" /\ out = child.wrote["stdout"] /\ out <= StdoutLimit
  /\ body = "input_unavailable" => call = "none" \/ verdict = "missing_input"

(* What the console holds when r reports the code. *)
Backed(r, code) ==
  /\ code = "UX1_OK" =>
       /\ owner = r
       /\ terminal = IF verdict = "large" THEN "calculator_failed" ELSE "ok"
  /\ code = "UX1_INPUT_UNAVAILABLE" => owner = r /\ terminal = "input_unavailable"
  /\ code = "UX1_CALCULATOR_FAILED" /\ owner = r => terminal \in {None, "calculator_failed"}
  /\ code = "UX1_CLAIM_NOT_GRANTED" => owner \notin {None, r}

(* What a run reports is what the console holds or will ever hold: a       *)
(* success is recorded as one unless it was too large to be posted (the    *)
(* console then holds a failure and the run reports UX1_OK all the same);  *)
(* a run that reports a failure has no success recorded, then or later;    *)
(* and one that reports a refused claim has not taken the request.         *)
ExitTruth == \A r \in Run : Backed(r, exit[r])

Copied == {o \in Object : staged[o] # None}

(* A running total of the copies, in the order of the plan, that stays     *)
(* within the limit.                                                       *)
BytesWithinLimit ==
  \E total \in [0..Len(Plan) -> 0..BytesLimit] :
    /\ total[0] = 0
    /\ \A n \in DOMAIN Plan :
         total[n] = total[n - 1] + (IF Plan[n] \in Copied THEN SizeOf[Plan[n]][staged[Plan[n]]] ELSE 0)

(* What was copied is what was described, whatever is written to the       *)
(* bucket meanwhile: the limits hold for the bytes on disk, the sizes are  *)
(* those the frozen policy names, no other policy chose the objects, and   *)
(* no calculator runs on part of them.                                     *)
StagedAsAgreed ==
  /\ BytesWithinLimit /\ Cardinality(Copied) <= CountLimit
  /\ \A o \in Copied : Expected[o] \in {None, SizeOf[o][staged[o]]}
  /\ Copied \ {Policy} # {} => staged[Policy] = FrozenPolicy
  /\ call = "running" => Copied = Object

(* A run that started ends, whoever falls silent: the console, the bucket, *)
(* or a calculator that closed its outputs and hangs.                      *)
EveryRunEnds == Executing # {} ~> Executing = {}
===============================================================================
