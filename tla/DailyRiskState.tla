--------------------------- MODULE DailyRiskState ---------------------------
(***************************************************************************)
(* The daily risk state (research/portfolio_risk_state_io.py): callers     *)
(* that deliver the observations of a session, each with a checkpoint of   *)
(* the chain as it knows it, over the create-only chain store of QPK.      *)
(*                                                                         *)
(* The store (external) creates a transition behind its predecessor at one *)
(* stroke or not at all, and what it answers may be lost.  So the chain is *)
(* a sequence, and the digest of a transition is its position: a           *)
(* checkpoint is a length, and that of the verified genesis is zero.       *)
(***************************************************************************)
EXTENDS Integers, Sequences

CONSTANTS
  Caller,
  Delivery,      \* frozen requests, see DeliveryFields
  NoDelivery,
  Day,           \* when the binding of a call may have been observed
  MaxCrashes     \* bound on the calls that die

(* The session a delivery is about, whether it trips the breaker, whether  *)
(* its preview comes to a settings draft; two deliveries of one session    *)
(* differ in their fingerprints.                                           *)
DeliveryFields == [fingerprint: STRING, session: Nat, trip: BOOLEAN, draft: BOOLEAN]

ASSUME DailyAssumption ==
  /\ Delivery \subseteq DeliveryFields
  /\ \A d, e \in Delivery : d.fingerprint = e.fingerprint => d = e
  /\ NoDelivery \notin Delivery
  /\ Day \subseteq Nat
  /\ MaxCrashes \in Nat

VARIABLES
  chain,     \* the transitions of the identity
  held,      \* per caller: the checkpoint of its binding
  pending,   \* per caller: the delivery whose append it knows no result of
  step,      \* per caller: idle, read, replay, append or confirm
  call,      \* per caller: its delivery, the place and the transition it is for
  out,       \* per caller: the result of its last call
  crashes

vars == <<chain, held, pending, step, call, out, crashes>>

Transition == [input: Delivery, open: BOOLEAN]
Latest     == chain[Len(chain)]

NoCall   == [delivery |-> NoDelivery, observed |-> 0, at |-> 0, open |-> FALSE]
NoResult == [status |-> "none", delivery |-> NoDelivery, at |-> 0, draft |-> FALSE]

Init ==
  /\ chain = <<>>
  /\ held = [c \in Caller |-> 0]
  /\ pending = [c \in Caller |-> NoDelivery]
  /\ step = [c \in Caller |-> "idle"]
  /\ call = [c \in Caller |-> NoCall]
  /\ out = [c \in Caller |-> NoResult]
  /\ crashes = 0

-----------------------------------------------------------------------------
(* The caller.  It comes with a binding observed on some day, which need   *)
(* not be that of the delivery's session.  One that knows no result of an  *)
(* append delivers the same again; a newer checkpoint it is handed by      *)
(* another settles the matter.                                             *)
Goto(c, s) == step' = [step EXCEPT ![c] = s]

Deliver(c, d, day) ==
  /\ step[c] = "idle" /\ pending[c] \in {NoDelivery, d}
  /\ Goto(c, "read")
  /\ call' = [call EXCEPT ![c] = [NoCall EXCEPT !.delivery = d, !.observed = day]]
  /\ out' = [out EXCEPT ![c] = NoResult]
  /\ UNCHANGED <<chain, held, pending, crashes>>

Adopt(c, b) ==
  /\ step[c] = "idle" /\ held[b] > held[c]
  /\ held' = [held EXCEPT ![c] = held[b]]
  /\ pending' = [pending EXCEPT ![c] = NoDelivery]
  /\ UNCHANGED <<chain, step, call, out, crashes>>

-----------------------------------------------------------------------------
(* The end of a call, with its result.  Only a confirmed transition gives  *)
(* the caller its next binding.                                            *)
Refuse(c, status) ==
  /\ Goto(c, "idle")
  /\ out' = [out EXCEPT ![c] =
       [status |-> status, delivery |-> call[c].delivery, at |-> 0, draft |-> FALSE]]
  /\ call' = [call EXCEPT ![c] = NoCall]
  /\ UNCHANGED <<chain, held, pending, crashes>>

Return(c, status, draft) ==
  /\ Goto(c, "idle")
  /\ out' = [out EXCEPT ![c] =
       [status |-> status, delivery |-> call[c].delivery, at |-> call[c].at, draft |-> draft]]
  /\ held' = [held EXCEPT ![c] = call[c].at]
  /\ pending' = [pending EXCEPT ![c] = NoDelivery]
  /\ call' = [call EXCEPT ![c] = NoCall]
  /\ UNCHANGED <<chain, crashes>>

-----------------------------------------------------------------------------
(* read_portfolio_risk_state, and what the first read of a call decides.   *)
(* A binding knows nothing of sessions after the day it was observed.      *)
HeadObserved(c) == chain # <<>> => Latest.input.session <= call[c].observed

Verified(c, checkpoint) == HeadObserved(c) /\ checkpoint = Len(chain)

(* Mutant of Replayed: only with the checkpoint of the transition itself. *)
ReplayedAtHead(c) ==
  /\ chain # <<>> /\ Latest.input = call[c].delivery
  /\ HeadObserved(c) /\ held[c] = Len(chain)

(* The delivery is at the head already: its acknowledgement was lost. *)
Replayed(c) ==
  /\ chain # <<>> /\ Latest.input = call[c].delivery
  /\ HeadObserved(c) /\ held[c] \in {Len(chain), Len(chain) - 1}

(* Mutant of NewSession: a session that has its transition is taken again. *)
NewSessionOrSame(d) == chain # <<>> => d.session >= Latest.input.session

NewSession(d) == chain # <<>> => d.session > Latest.input.session

(* Mutant of Opens: what the delivery shows, without the retained state. *)
OpensAnew(d) == d.trip

(* An open breaker stays open. *)
Opens(d) == d.trip \/ (chain # <<>> /\ Latest.open)

ReadReplay(c) ==
  /\ step[c] = "read" /\ Replayed(c)
  /\ Goto(c, "replay")
  /\ call' = [call EXCEPT ![c].at = Len(chain)]
  /\ UNCHANGED <<chain, held, pending, out, crashes>>

ReadNew(c) ==
  /\ step[c] = "read" /\ ~Replayed(c)
  /\ Verified(c, held[c]) /\ NewSession(call[c].delivery)
  /\ Goto(c, "append")
  /\ call' = [call EXCEPT ![c].at = Len(chain) + 1, ![c].open = Opens(call[c].delivery)]
  /\ UNCHANGED <<chain, held, pending, out, crashes>>

ReadRefused(c) ==
  /\ step[c] = "read" /\ ~Replayed(c)
  /\ ~(Verified(c, held[c]) /\ NewSession(call[c].delivery))
  /\ Refuse(c, "refused")

(* Any read may fail as such. *)
ReadFails(c) ==
  \/ step[c] \in {"read", "replay"} /\ Refuse(c, "refused")
  \/ step[c] = "confirm" /\ Refuse(c, "unconfirmed")

ReplayConfirmed(c) ==
  /\ step[c] = "replay" /\ Verified(c, call[c].at)
  /\ Return(c, "replayed", FALSE)

ReplayUnconfirmed(c) ==
  /\ step[c] = "replay" /\ ~Verified(c, call[c].at)
  /\ Refuse(c, "refused")

-----------------------------------------------------------------------------
(* store.append: the place behind the predecessor is taken or free.  What  *)
(* the store answers is reported, and decides nothing.                     *)
Target(c) == [input |-> call[c].delivery, open |-> call[c].open]

Attempted(c) ==
  /\ step[c] = "append"
  /\ Goto(c, "confirm")
  /\ pending' = [pending EXCEPT ![c] = call[c].delivery]
  /\ UNCHANGED <<held, call, out, crashes>>

AppendLands(c) ==
  /\ Attempted(c) /\ Len(chain) + 1 = call[c].at
  /\ chain' = Append(chain, Target(c))

AppendFails(c) == Attempted(c) /\ UNCHANGED chain

(* Mutants of OnHead: nothing is read; whatever transition is there will   *)
(* do; the transition may have successors.                                 *)
Unread(c)  == call[c].at > 0
Taken(c)   == call[c].at <= Len(chain)
OnChain(c) == call[c].at <= Len(chain) /\ chain[call[c].at] = Target(c)

OnHead(c) == Verified(c, call[c].at) /\ Latest = Target(c)

Confirm(c) ==
  /\ step[c] = "confirm" /\ OnHead(c)
  /\ Return(c, "persisted", call[c].delivery.draft)

Unconfirmed(c) ==
  /\ step[c] = "confirm" /\ ~OnHead(c)
  /\ Refuse(c, "unconfirmed")

Crash(c) ==
  /\ step[c] # "idle" /\ crashes < MaxCrashes
  /\ crashes' = crashes + 1
  /\ Goto(c, "idle")
  /\ call' = [call EXCEPT ![c] = NoCall]
  /\ UNCHANGED <<chain, held, pending, out>>

Persist(c) ==
  \/ ReadReplay(c) \/ ReadNew(c) \/ ReadRefused(c)
  \/ ReplayConfirmed(c) \/ ReplayUnconfirmed(c)
  \/ AppendLands(c) \/ AppendFails(c)
  \/ Confirm(c) \/ Unconfirmed(c)

Next ==
  \E c \in Caller :
    \/ \E d \in Delivery, day \in Day : Deliver(c, d, day)
    \/ \E b \in Caller : Adopt(c, b)
    \/ Persist(c) \/ ReadFails(c) \/ Crash(c)

Spec == Init /\ [][Next]_vars

(* A call goes on, the store does not fail every time, and a caller that   *)
(* knows no result delivers again, at last with a binding observed on the  *)
(* day of the session or later.                                            *)
Retry(c) ==
  /\ pending[c] # NoDelivery
  /\ \E day \in Day : day >= pending[c].session /\ Deliver(c, pending[c], day)

Fairness ==
  \A c \in Caller :
    /\ WF_vars(Persist(c)) /\ SF_vars(ReadReplay(c)) /\ SF_vars(ReplayConfirmed(c))
    /\ SF_vars(Retry(c))

LiveSpec == Spec /\ Fairness

-----------------------------------------------------------------------------
Steps    == {"idle", "read", "replay", "append", "confirm"}
Statuses == {"none", "refused", "unconfirmed", "persisted", "replayed"}

TypeOK ==
  /\ chain \in Seq(Transition)
  /\ held \in [Caller -> Nat] /\ \A c \in Caller : held[c] <= Len(chain)
  /\ pending \in [Caller -> Delivery \union {NoDelivery}]
  /\ step \in [Caller -> Steps]
  /\ call \in [Caller -> [delivery: Delivery \union {NoDelivery}, observed: Nat,
                         at: Nat, open: BOOLEAN]]
  /\ \A c \in Caller :
       (step[c] = "idle") = (call[c].delivery = NoDelivery)
  /\ out \in [Caller -> [status: Statuses, delivery: Delivery \union {NoDelivery},
                        at: Nat, draft: BOOLEAN]]
  /\ crashes \in 0..MaxCrashes

(* ONE_TRANSITION_PER_EFFECTIVE_SESSION: sessions go up along the chain,   *)
(* whoever delivered them, even if several callers read the same head.     *)
OneTransitionPerSession ==
  \A m, n \in 1..Len(chain) : m < n => chain[m].input.session < chain[n].input.session

(* A trip that any caller ever persisted is known to every later state,    *)
(* computed by whichever caller from whatever it had read.                 *)
TripsAreKept ==
  \A m, n \in 1..Len(chain) : m <= n /\ chain[m].input.trip => chain[n].open

(* What a caller was told is persisted is on the chain, for good: the      *)
(* answer of the store and the transitions of competitors notwithstanding. *)
ReportedIsPersisted ==
  \A c \in Caller : out[c].status \in {"persisted", "replayed"} =>
    out[c].at \in 1..Len(chain) /\ chain[out[c].at].input = out[c].delivery

DraftIsCurrent(c) ==
  out'[c].draft /\ out'[c] # out[c] => out'[c].at = Len(chain')

(* A settings draft is only handed out while the state it was computed for *)
(* is the current one.                                                     *)
NoStaleDraft == [][\A c \in Caller : DraftIsCurrent(c)]_vars

(* A lost acknowledgement, a failed read or a crash never leaves everybody *)
(* with an outdated checkpoint for good: whoever wrote the head gets its   *)
(* checkpoint by delivering once more.                                     *)
SomeoneIsCurrent == []<>(\E c \in Caller : held[c] = Len(chain))
=============================================================================
