--------------------------- MODULE DailyRiskProofs ---------------------------
(***************************************************************************)
(* What the daily store promises, for every number of callers, deliveries  *)
(* and sessions.  A call that computed a transition some time ago appends  *)
(* it only if the chain is still as long as it was, and then it is still   *)
(* the chain that was read: CallsKnowTheHead says so.                      *)
(***************************************************************************)
EXTENDS DailyRiskState, TLAPS

Knows(c) ==
  /\ step[c] = "append" =>
       /\ call[c].at \in 1..(Len(chain) + 1)
       /\ call[c].at = Len(chain) + 1 =>
            /\ NewSession(call[c].delivery)
            /\ call[c].open = Opens(call[c].delivery)
  /\ step[c] = "replay" =>
       call[c].at \in 1..Len(chain) /\ chain[call[c].at].input = call[c].delivery
  /\ step[c] = "confirm" => call[c].at \in Nat \ {0}

CallsKnowTheHead == \A c \in Caller : Knows(c)

ChainInv == OneTransitionPerSession /\ TripsAreKept
IInv     == TypeOK /\ CallsKnowTheHead /\ ChainInv /\ ReportedIsPersisted

-----------------------------------------------------------------------------
(* Appending leaves the transitions that were there in their places. *)
LEMMA AppendKeeps ==
  ASSUME NEW s \in Seq(Transition), NEW t \in Transition
  PROVE  /\ Append(s, t) \in Seq(Transition)
         /\ Len(Append(s, t)) = Len(s) + 1
         /\ \A n \in 1..Len(s) : Append(s, t)[n] = s[n]
         /\ Append(s, t)[Len(s) + 1] = t
  OBVIOUS

(* A delivery in hand is a delivery. *)
LEMMA InHand ==
  ASSUME TypeOK, NEW c \in Caller, step[c] # "idle"
  PROVE  call[c].delivery \in Delivery /\ call[c].at \in Nat /\ call[c].open \in BOOLEAN
  BY DailyAssumption DEF TypeOK

(* The initial state satisfies the invariant. *)
LEMMA InitInv ==
  ASSUME Init
  PROVE  IInv
  <1>1. TypeOK
    BY DailyAssumption DEF Init, TypeOK, NoCall, NoResult, Steps, Statuses
  <1>2. CallsKnowTheHead
    BY DEF Init, CallsKnowTheHead, Knows
  <1>3. ChainInv
    BY DEF Init, ChainInv, OneTransitionPerSession, TripsAreKept
  <1>4. ReportedIsPersisted
    BY DEF Init, ReportedIsPersisted, NoResult
  <1>5. QED
    BY <1>1, <1>2, <1>3, <1>4 DEF IInv

(* A caller's step that leaves the chain alone disturbs nobody else. *)
LEMMA OwnStep ==
  ASSUME IInv, TypeOK', NEW c \in Caller, UNCHANGED chain,
         \A b \in Caller \ {c} : step'[b] = step[b] /\ call'[b] = call[b] /\ out'[b] = out[b],
         Knows(c)',
         out'[c].status \in {"persisted", "replayed"} =>
           out'[c].at \in 1..Len(chain) /\ chain[out'[c].at].input = out'[c].delivery
  PROVE  IInv'
  <1>1. CallsKnowTheHead'
    BY DEF IInv, CallsKnowTheHead, Knows, NewSession, Opens, Latest
  <1>2. ChainInv'
    BY DEF IInv, ChainInv, OneTransitionPerSession, TripsAreKept
  <1>3. ReportedIsPersisted'
    BY DEF IInv, ReportedIsPersisted
  <1>4. QED
    BY <1>1, <1>2, <1>3 DEF IInv

-----------------------------------------------------------------------------
(* The two ends of a call. *)
LEMMA RefuseKeeps ==
  ASSUME IInv, NEW c \in Caller, step[c] # "idle",
         NEW status \in {"refused", "unconfirmed"}, Refuse(c, status)
  PROVE  IInv'
  <1>1. TypeOK'
    BY InHand DEF IInv, TypeOK, Refuse, Goto, NoCall, NoResult, Steps, Statuses
  <1>2. step'[c] = "idle" /\ out'[c].status = status
    BY DEF IInv, TypeOK, Refuse, Goto, NoResult
  <1>3. \A b \in Caller \ {c} : step'[b] = step[b] /\ call'[b] = call[b] /\ out'[b] = out[b]
    BY DEF IInv, TypeOK, Refuse, Goto
  <1>4. UNCHANGED chain
    BY DEF Refuse
  <1>5. QED
    BY <1>1, <1>2, <1>3, <1>4, OwnStep DEF Knows

LEMMA ReturnKeeps ==
  ASSUME IInv, NEW c \in Caller, step[c] # "idle",
         call[c].at \in 1..Len(chain), chain[call[c].at].input = call[c].delivery,
         NEW status \in {"persisted", "replayed"}, NEW draft \in BOOLEAN,
         Return(c, status, draft)
  PROVE  IInv'
  <1>1. TypeOK'
    BY InHand DEF IInv, TypeOK, Return, Goto, NoCall, Steps, Statuses
  <1>2. step'[c] = "idle" /\ out'[c].at = call[c].at /\ out'[c].delivery = call[c].delivery
    BY DEF IInv, TypeOK, Return, Goto
  <1>3. \A b \in Caller \ {c} : step'[b] = step[b] /\ call'[b] = call[b] /\ out'[b] = out[b]
    BY DEF IInv, TypeOK, Return, Goto
  <1>4. UNCHANGED chain
    BY DEF Return
  <1>5. QED
    BY <1>1, <1>2, <1>3, <1>4, OwnStep DEF Knows

-----------------------------------------------------------------------------
(* The calls, one lemma per kind of step. *)
LEMMA DeliverKeeps ==
  ASSUME IInv, NEW c \in Caller, NEW d \in Delivery, NEW day \in Day, Deliver(c, d, day)
  PROVE  IInv'
  <1>1. TypeOK'
    BY DailyAssumption DEF IInv, TypeOK, Deliver, Goto, NoCall, NoResult, Steps, Statuses
  <1>2. step'[c] = "read" /\ out'[c].status = "none"
    BY DEF IInv, TypeOK, Deliver, Goto, NoResult
  <1>3. \A b \in Caller \ {c} : step'[b] = step[b] /\ call'[b] = call[b] /\ out'[b] = out[b]
    BY DEF IInv, TypeOK, Deliver, Goto
  <1>4. UNCHANGED chain
    BY DEF Deliver
  <1>5. QED
    BY <1>1, <1>2, <1>3, <1>4, OwnStep DEF Knows

LEMMA AdoptKeeps ==
  ASSUME IInv, NEW c \in Caller, NEW b \in Caller, Adopt(c, b)
  PROVE  IInv'
  <1>1. TypeOK'
    BY DEF IInv, TypeOK, Adopt
  <1>2. step' = step /\ call' = call /\ out' = out /\ chain' = chain
    BY DEF Adopt
  <1>3. QED
    BY <1>1, <1>2 DEF IInv, CallsKnowTheHead, Knows, NewSession, Opens, Latest, ChainInv,
       OneTransitionPerSession, TripsAreKept, ReportedIsPersisted

LEMMA CrashKeeps ==
  ASSUME IInv, NEW c \in Caller, Crash(c)
  PROVE  IInv'
  <1>1. TypeOK'
    BY DailyAssumption DEF IInv, TypeOK, Crash, Goto, NoCall, Steps
  <1>2. step'[c] = "idle" /\ out' = out /\ chain' = chain
    BY DEF IInv, TypeOK, Crash, Goto
  <1>3. \A b \in Caller \ {c} : step'[b] = step[b] /\ call'[b] = call[b] /\ out'[b] = out[b]
    BY <1>2 DEF IInv, TypeOK, Crash, Goto
  <1>4. QED
    BY <1>1, <1>2, <1>3, OwnStep DEF Knows, IInv, ReportedIsPersisted

LEMMA ReadReplayKeeps ==
  ASSUME IInv, NEW c \in Caller, ReadReplay(c)
  PROVE  IInv'
  <1>1. TypeOK'
    <2>1. Len(chain) \in Nat /\ step[c] = "read"
      BY DEF IInv, TypeOK, ReadReplay
    <2>2. call' \in [Caller -> [delivery: Delivery \union {NoDelivery}, observed: Nat,
                                  at: Nat, open: BOOLEAN]]
      BY <2>1 DEF IInv, TypeOK, ReadReplay
    <2>3. \A b \in Caller : call'[b].delivery = call[b].delivery
      BY DEF IInv, TypeOK, ReadReplay
    <2>4. step' = [step EXCEPT ![c] = "replay"] /\ UNCHANGED <<chain, held, pending, out, crashes>>
      BY DEF ReadReplay, Goto
    <2>5. QED
      BY <2>1, <2>2, <2>3, <2>4 DEF IInv, TypeOK, Steps
  <1>2. /\ step'[c] = "replay" /\ call'[c].at = Len(chain)
        /\ call'[c].delivery = call[c].delivery
        /\ out' = out /\ chain' = chain
    BY DEF IInv, TypeOK, ReadReplay, Goto
  <1>3. \A b \in Caller \ {c} : step'[b] = step[b] /\ call'[b] = call[b] /\ out'[b] = out[b]
    BY <1>2 DEF IInv, TypeOK, ReadReplay, Goto
  <1>4. Len(chain) \in 1..Len(chain) /\ chain[Len(chain)].input = call[c].delivery
    BY DEF IInv, TypeOK, ReadReplay, Replayed, Latest
  <1>5. Knows(c)'
    BY <1>2, <1>4 DEF Knows
  <1>6. QED
    BY <1>1, <1>2, <1>3, <1>5, OwnStep DEF IInv, ReportedIsPersisted

LEMMA ReadNewKeeps ==
  ASSUME IInv, NEW c \in Caller, ReadNew(c)
  PROVE  IInv'
  <1>1. call[c].delivery \in Delivery /\ Opens(call[c].delivery) \in BOOLEAN
    BY InHand, DailyAssumption DEF IInv, TypeOK, ReadNew, Opens, Latest, Transition, DeliveryFields
  <1>2. TypeOK'
    <2>1. call' \in [Caller -> [delivery: Delivery \union {NoDelivery}, observed: Nat,
                                at: Nat, open: BOOLEAN]]
      <3> DEFINE Calls == [delivery: Delivery \union {NoDelivery}, observed: Nat,
                           at: Nat, open: BOOLEAN]
                 next == [call[c] EXCEPT !.at = Len(chain) + 1, !.open = Opens(call[c].delivery)]
      <3>1. call \in [Caller -> Calls] /\ Len(chain) + 1 \in Nat
        BY DEF IInv, TypeOK
      <3>2. next \in Calls
        BY <1>1, <3>1
      <3>3. call' = [call EXCEPT ![c] = next]
        BY <3>1 DEF ReadNew
      <3>4. QED
        BY <3>1, <3>2, <3>3
    <2>2. \A b \in Caller : call'[b].delivery = call[b].delivery
      BY DEF IInv, TypeOK, ReadNew
    <2>3. step[c] = "read" /\ step' = [step EXCEPT ![c] = "append"]
          /\ UNCHANGED <<chain, held, pending, out, crashes>>
      BY DEF ReadNew, Goto
    <2>4. QED
      BY <2>1, <2>2, <2>3 DEF IInv, TypeOK, Steps
  <1>3. /\ step'[c] = "append" /\ call'[c].at = Len(chain) + 1
        /\ call'[c].delivery = call[c].delivery /\ call'[c].open = Opens(call[c].delivery)
        /\ out' = out /\ chain' = chain /\ NewSession(call[c].delivery)
    BY DEF IInv, TypeOK, ReadNew, Goto
  <1>4. \A b \in Caller \ {c} : step'[b] = step[b] /\ call'[b] = call[b] /\ out'[b] = out[b]
    BY <1>3 DEF IInv, TypeOK, ReadNew, Goto
  <1>5. Len(chain) \in Nat
    BY DEF IInv, TypeOK
  <1>6. Knows(c)'
    BY <1>3, <1>5 DEF Knows, NewSession, Opens, Latest
  <1>7. QED
    BY <1>2, <1>3, <1>4, <1>6, OwnStep DEF IInv, ReportedIsPersisted

LEMMA AppendFailsKeeps ==
  ASSUME IInv, NEW c \in Caller, AppendFails(c)
  PROVE  IInv'
  <1>1. TypeOK'
    BY InHand DEF IInv, TypeOK, AppendFails, Attempted, Goto, Steps
  <1>2. step'[c] = "confirm" /\ call' = call /\ out' = out /\ chain' = chain
    BY DEF IInv, TypeOK, AppendFails, Attempted, Goto
  <1>3. \A b \in Caller \ {c} : step'[b] = step[b]
    BY DEF IInv, TypeOK, AppendFails, Attempted, Goto
  <1>4. call[c].at \in Nat \ {0}
    BY DEF IInv, TypeOK, CallsKnowTheHead, Knows, AppendFails, Attempted
  <1>5. Knows(c)'
    BY <1>2, <1>4 DEF Knows
  <1>6. QED
    BY <1>1, <1>2, <1>3, <1>5, OwnStep DEF IInv, ReportedIsPersisted

-----------------------------------------------------------------------------
(* The one step that changes the chain.  The place is free, so the chain   *)
(* is still the one that was read, and so are the session and the breaker  *)
(* at its head.                                                            *)
LEMMA AppendLandsKeeps ==
  ASSUME IInv, NEW c \in Caller, AppendLands(c)
  PROVE  IInv'
  <1> DEFINE n == Len(chain)
             t == Target(c)
  <1>1. /\ chain \in Seq(Transition) /\ n \in Nat /\ t \in Transition
        /\ call[c].delivery \in Delivery
    BY InHand DEF IInv, TypeOK, AppendLands, Attempted, Target, Transition
  <1>2. /\ chain' \in Seq(Transition) /\ Len(chain') = n + 1
        /\ (\A m \in 1..n : chain'[m] = chain[m]) /\ chain'[n + 1] = t
    BY <1>1, AppendKeeps DEF AppendLands
  <1>3. /\ step[c] = "append" /\ step'[c] = "confirm" /\ call' = call /\ out' = out
        /\ (\A b \in Caller \ {c} : step'[b] = step[b])
        /\ call[c].at = n + 1
    BY DEF IInv, TypeOK, AppendLands, Attempted, Goto
  <1>4. NewSession(call[c].delivery) /\ t.open = Opens(call[c].delivery)
        /\ t.input = call[c].delivery
    BY <1>3 DEF IInv, CallsKnowTheHead, Knows, Target
  <1>5. TypeOK'
    <2>1. \A b \in Caller : held'[b] <= Len(chain')
      BY <1>1, <1>2 DEF IInv, TypeOK, AppendLands, Attempted
    <2>2. QED
      BY <1>1, <1>2, <2>1 DEF IInv, TypeOK, AppendLands, Attempted, Goto, Steps
  <1>6. CallsKnowTheHead'
    <2> SUFFICES ASSUME NEW b \in Caller PROVE Knows(b)'
      BY DEF CallsKnowTheHead
    <2>1. CASE b = c
      BY <2>1, <1>1, <1>3 DEF Knows
    <2>2. CASE b # c
      <3>1. Knows(b) /\ step'[b] = step[b] /\ call'[b] = call[b] /\ call[b].at \in Nat
        BY <2>2, <1>3 DEF IInv, CallsKnowTheHead, TypeOK
      <3>2. step[b] = "append" => call[b].at \in 1..(n + 1)
        BY <3>1 DEF Knows
      <3>3. step[b] = "append" => call[b].at \in 1..(n + 2) /\ call[b].at # n + 2
        BY <3>2, <1>1
      <3>4. step[b] = "replay" =>
              call[b].at \in 1..(n + 1) /\ chain'[call[b].at].input = call[b].delivery
        BY <3>1, <1>1, <1>2 DEF Knows
      <3>5. QED
        BY <3>1, <3>3, <3>4, <1>1, <1>2 DEF Knows
    <2>3. QED
      BY <2>1, <2>2
  <1>7. OneTransitionPerSession'
    <2> SUFFICES ASSUME NEW k \in 1..(n + 1), NEW m \in 1..(n + 1), k < m
                 PROVE  chain'[k].input.session < chain'[m].input.session
      BY <1>2 DEF OneTransitionPerSession
    <2>1. CASE m \in 1..n
      BY <2>1, <1>1, <1>2 DEF IInv, ChainInv, OneTransitionPerSession
    <2>2. CASE m = n + 1
      <3>1. k \in 1..n /\ n \in 1..n /\ chain # <<>>
        BY <2>2, <1>1
      <3>2. chain[n].input.session < call[c].delivery.session
        BY <3>1, <1>4 DEF NewSession, Latest
      <3>3. \A i \in 1..n : chain[i].input.session \in Nat
        <4> SUFFICES ASSUME NEW i \in 1..n PROVE chain[i].input.session \in Nat
          OBVIOUS
        <4>1. chain[i] \in Transition
          BY <1>1
        <4>2. QED
          BY <4>1, DailyAssumption DEF Transition, DeliveryFields
      <3>4. k = n \/ chain[k].input.session < chain[n].input.session
        BY <3>1 DEF IInv, ChainInv, OneTransitionPerSession
      <3>5. call[c].delivery.session \in Nat
        BY <1>1, DailyAssumption DEF DeliveryFields
      <3>6. chain[k].input.session < call[c].delivery.session
        BY <3>1, <3>2, <3>3, <3>4, <3>5
      <3>7. QED
        BY <3>1, <3>6, <2>2, <1>2, <1>4
    <2>3. QED
      BY <2>1, <2>2, <1>1
  <1>8. TripsAreKept'
    <2> SUFFICES ASSUME NEW k \in 1..(n + 1), NEW m \in 1..(n + 1), k <= m, chain'[k].input.trip
                 PROVE  chain'[m].open
      BY <1>2 DEF TripsAreKept
    <2>1. CASE m \in 1..n
      BY <2>1, <1>1, <1>2 DEF IInv, ChainInv, TripsAreKept
    <2>2. CASE m = n + 1 /\ k \in 1..n
      <3>1. n \in 1..n /\ chain # <<>> /\ k <= n
        BY <2>2, <1>1
      <3>2. chain[n].open
        BY <3>1, <2>2, <1>2 DEF IInv, ChainInv, TripsAreKept
      <3>3. Opens(call[c].delivery)
        BY <3>1, <3>2 DEF Opens, Latest
      <3>4. QED
        BY <3>3, <2>2, <1>2, <1>4
    <2>3. CASE m = n + 1 /\ k = n + 1
      <3>1. call[c].delivery.trip
        BY <2>3, <1>2, <1>4
      <3>2. Opens(call[c].delivery)
        BY <3>1 DEF Opens
      <3>3. QED
        BY <3>2, <2>3, <1>2, <1>4
    <2>4. QED
      BY <2>1, <2>2, <2>3, <1>1
  <1>9. ReportedIsPersisted'
    <2>1. \A b \in Caller : out[b].status \in {"persisted", "replayed"} =>
            out[b].at \in 1..n /\ chain[out[b].at].input = out[b].delivery
      BY DEF IInv, ReportedIsPersisted
    <2>2. 1..n \subseteq 1..(n + 1)
      BY <1>1
    <2>3. QED
      BY <2>1, <2>2, <1>2, <1>3 DEF ReportedIsPersisted
  <1>10. QED
    BY <1>5, <1>6, <1>7, <1>8, <1>9 DEF IInv, ChainInv

(* What a call ends with is on the chain if it says so. *)
LEMMA ConfirmKeeps ==
  ASSUME IInv, NEW c \in Caller, Confirm(c)
  PROVE  IInv'
  <1>1. call[c].at \in 1..Len(chain) /\ chain[call[c].at].input = call[c].delivery
    BY DEF IInv, TypeOK, CallsKnowTheHead, Knows, Confirm, OnHead, Verified, Latest, Target
  <1>2. step[c] # "idle" /\ call[c].delivery.draft \in BOOLEAN
    BY InHand, DailyAssumption DEF IInv, Confirm, DeliveryFields
  <1>3. QED
    BY <1>1, <1>2, ReturnKeeps DEF Confirm

LEMMA ReplayConfirmedKeeps ==
  ASSUME IInv, NEW c \in Caller, ReplayConfirmed(c)
  PROVE  IInv'
  <1>1. call[c].at \in 1..Len(chain) /\ chain[call[c].at].input = call[c].delivery
    BY DEF IInv, CallsKnowTheHead, Knows, ReplayConfirmed
  <1>2. QED
    BY <1>1, ReturnKeeps DEF ReplayConfirmed

(* Every step preserves the invariant. *)
LEMMA NextInv ==
  ASSUME IInv, [Next]_vars
  PROVE  IInv'
  <1>1. CASE UNCHANGED vars
    BY <1>1 DEF vars, IInv, TypeOK, CallsKnowTheHead, Knows, NewSession, Opens, Latest, ChainInv,
       OneTransitionPerSession, TripsAreKept, ReportedIsPersisted
  <1>2. CASE Next
    <2>1. PICK c \in Caller :
            \/ \E d \in Delivery, day \in Day : Deliver(c, d, day)
            \/ \E b \in Caller : Adopt(c, b)
            \/ Persist(c) \/ ReadFails(c) \/ Crash(c)
      BY <1>2 DEF Next
    <2>2. CASE \E d \in Delivery, day \in Day : Deliver(c, d, day)
      BY <2>2, DeliverKeeps
    <2>3. CASE \E b \in Caller : Adopt(c, b)
      BY <2>3, AdoptKeeps
    <2>4. CASE ReadRefused(c) \/ ReplayUnconfirmed(c) \/ Unconfirmed(c) \/ ReadFails(c)
      BY <2>4, RefuseKeeps DEF ReadRefused, ReplayUnconfirmed, Unconfirmed, ReadFails
    <2>5. CASE ReadReplay(c)
      BY <2>5, ReadReplayKeeps
    <2>6. CASE ReadNew(c)
      BY <2>6, ReadNewKeeps
    <2>7. CASE AppendLands(c)
      BY <2>7, AppendLandsKeeps
    <2>8. CASE AppendFails(c)
      BY <2>8, AppendFailsKeeps
    <2>9. CASE Confirm(c) \/ ReplayConfirmed(c)
      BY <2>9, ConfirmKeeps, ReplayConfirmedKeeps
    <2>10. CASE Crash(c)
      BY <2>10, CrashKeeps
    <2>11. QED
      BY <2>1, <2>2, <2>3, <2>4, <2>5, <2>6, <2>7, <2>8, <2>9, <2>10 DEF Persist
  <1>3. QED
    BY <1>1, <1>2

-----------------------------------------------------------------------------
(* The invariant holds always: sessions go up along the chain, trips are   *)
(* kept, and what was reported persisted is there, as persist_portfolio_   *)
(* risk_preview promises with its readback.                                *)
THEOREM Invariance == Spec => []IInv
  <1>1. Init => IInv
    BY InitInv
  <1>2. IInv /\ [Next]_vars => IInv'
    BY NextInv
  <1>3. QED
    BY <1>1, <1>2, PTL DEF Spec

(* The chain, the calls and their results keep their types, and nobody     *)
(* holds a checkpoint the chain has not reached.                           *)
THEOREM TypeCorrect == Spec => []TypeOK
  <1>1. IInv => TypeOK
    BY DEF IInv
  <1>2. QED
    BY <1>1, Invariance, PTL

(* One transition per session, in order, by whatever callers. *)
THEOREM SessionsGoUp == Spec => []OneTransitionPerSession
  <1>1. IInv => OneTransitionPerSession
    BY DEF IInv, ChainInv
  <1>2. QED
    BY <1>1, Invariance, PTL

(* No state forgets a trip that any caller persisted before it. *)
THEOREM TripsStay == Spec => []TripsAreKept
  <1>1. IInv => TripsAreKept
    BY DEF IInv, ChainInv
  <1>2. QED
    BY <1>1, Invariance, PTL

(* "Persisted" and "already persisted" are true, and stay true. *)
THEOREM ReportsAreTrue == Spec => []ReportedIsPersisted
  <1>1. IInv => ReportedIsPersisted
    BY DEF IInv
  <1>2. QED
    BY <1>1, Invariance, PTL

(* A draft is handed out by the call whose transition is the head. *)
THEOREM DraftsAreCurrent == Spec => NoStaleDraft
  <1>1. ASSUME IInv, [Next]_vars, NEW c \in Caller
        PROVE  DraftIsCurrent(c)
    <2> SUFFICES ASSUME out'[c].draft, out'[c] # out[c]
                 PROVE  out'[c].at = Len(chain')
      BY DEF DraftIsCurrent
    <2>1. Next
      BY <1>1 DEF vars
    <2>2. PICK b \in Caller :
            \/ \E d \in Delivery, day \in Day : Deliver(b, d, day)
            \/ \E e \in Caller : Adopt(b, e)
            \/ Persist(b) \/ ReadFails(b) \/ Crash(b)
      BY <2>1 DEF Next
    <2>3. CASE \E d \in Delivery, day \in Day : Deliver(b, d, day)
      BY <2>3, <1>1 DEF Deliver, NoResult, IInv, TypeOK
    <2>4. CASE ReadRefused(b) \/ ReplayUnconfirmed(b) \/ Unconfirmed(b) \/ ReadFails(b)
      <3>1. PICK status \in {"refused", "unconfirmed"} : Refuse(b, status)
        BY <2>4 DEF ReadRefused, ReplayUnconfirmed, Unconfirmed, ReadFails
      <3>2. QED
        BY <3>1, <1>1 DEF Refuse, IInv, TypeOK
    <2>5. CASE \/ \E e \in Caller : Adopt(b, e)
               \/ Crash(b) \/ ReadReplay(b) \/ ReadNew(b) \/ AppendLands(b) \/ AppendFails(b)
      BY <2>5 DEF Adopt, Crash, ReadReplay, ReadNew, AppendLands, AppendFails, Attempted
    <2>6. CASE ReplayConfirmed(b)
      BY <2>6, <1>1 DEF ReplayConfirmed, Return, IInv, TypeOK
    <2>7. CASE Confirm(b)
      <3>1. c = b /\ out'[b].at = call[b].at
        BY <2>7, <1>1 DEF Confirm, Return, IInv, TypeOK
      <3>2. chain' = chain /\ call[b].at = Len(chain)
        BY <2>7 DEF Confirm, Return, OnHead, Verified
      <3>3. QED
        BY <3>1, <3>2
    <2>8. QED
      BY <2>2, <2>3, <2>4, <2>5, <2>6, <2>7 DEF Persist
  <1>2. IInv /\ [Next]_vars => [\A c \in Caller : DraftIsCurrent(c)]_vars
    BY <1>1
  <1>3. QED
    BY <1>2, Invariance, PTL DEF Spec, NoStaleDraft
=============================================================================
