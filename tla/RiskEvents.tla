----------------------------- MODULE RiskEvents -----------------------------
(***************************************************************************)
(* The portfolio risk events of one scope (research/                       *)
(* portfolio_risk_events_preview.py): what an observation of the account   *)
(* trips, what the risk state keeps of it, and when recovery qualifies.    *)
(*                                                                         *)
(* The state is the one a store hands to evaluate_portfolio_risk_events    *)
(* and gets back as state_update; levels, overrides, policies and          *)
(* observations change from one evaluation to the next.  Ratios are exact  *)
(* quotients, limits are in units of 1/Unit.                               *)
(***************************************************************************)
EXTENDS Integers, Sequences, FiniteSetsExt

CONSTANTS
  Unit,         \* a ratio of 1
  Cycle,        \* held cycles, one per sleeve position
  Policy, Level,
  Thresholds,   \* [Policy -> [Level -> limits]]
  Override,     \* what a request may override: functions on event fields
  Observation,  \* what may be observed, see ObservationFields
  Row,          \* what a completed session may report, see RowFields
  Initial,      \* the states a scope may be initialized with, and their day
  MaxSession,   \* bound on the sessions
  None

EventField ==
  {"stop_loss_ratio", "trailing_stop_ratio", "breaker_daily_loss",
   "breaker_drawdown", "resume_observation_sessions",
   "resume_daily_loss_fraction_of_trigger", "resume_cvar_vol_fraction_of_limit"}

MonitorField ==
  {"max_drawdown_tolerance", "daily_cvar95_loss_limit", "target_annual_volatility"}

LimitField == EventField \union MonitorField

RecoveryReverse == {"resume_observation_sessions"}

Limits == [LimitField -> Nat]

LimitsValid(l) ==
  /\ l \in Limits
  /\ l.resume_observation_sessions \in 5..20
  /\ \A k \in LimitField \ {"resume_observation_sessions"} : l[k] \in 1..Unit
  /\ l.breaker_drawdown <= l.max_drawdown_tolerance
  /\ 2 * l.resume_daily_loss_fraction_of_trigger <= Unit
  /\ 5 * l.resume_cvar_vol_fraction_of_limit <= 4 * Unit

Lesser(a, b)  == IF a <= b THEN a ELSE b
Greater(a, b) == IF a <= b THEN b ELSE a

(* Mutants of Tighten: the number of clean sessions is taken for a limit   *)
(* like any other; the request has the last word.                          *)
TightenDownwards(original, requested) ==
  [k \in LimitField |->
     IF k \in DOMAIN requested THEN Lesser(original[k], requested[k]) ELSE original[k]]

TightenAsRequested(original, requested) ==
  [k \in LimitField |-> IF k \in DOMAIN requested THEN requested[k] ELSE original[k]]

Stricter(k, a, b) == IF k \in RecoveryReverse THEN Greater(a, b) ELSE Lesser(a, b)

Tighten(original, requested) ==
  [k \in LimitField |->
     IF k \in DOMAIN requested THEN Stricter(k, original[k], requested[k])
     ELSE original[k]]

-----------------------------------------------------------------------------
(* Quotients <<numerator, denominator>>, the denominator positive. *)

Positive   == Nat \ {0}
Ratio      == Nat \X Positive
Loss(n, d) == <<Greater(0, n), d>>
Below(x, y) == x[1] * y[2] < y[1] * x[2]
Limit(l)   == <<l, Unit>>

Metric == {"daily_loss", "daily_cvar95_loss", "annual_volatility", "drawdown"}

(* Per held cycle, None for those that are not there. *)
Holding == [entry: Positive, net: Nat, high: Positive]
Sleeve  == [entry: Positive, peak: Positive, stop: Positive, trailing: Positive]

ObservationFields ==
  [start: Positive, nav: Nat, flow: Int,             \* daily loss
   index: Positive, peak: Positive,                  \* drawdown
   cvar: Ratio, volatility: Ratio,
   held: [Cycle -> Holding \union {None}],
   verified: BOOLEAN]                                \* reconciled, nothing pending

RowFields == [metrics: [Metric -> Ratio], verified: BOOLEAN]

RiskState ==
  [open: BOOLEAN, trigger: Nat \union {None}, since: Nat \union {None},
   latched: Limits \union {None}, peak: Nat,
   sleeves: [Cycle -> Sleeve \union {None}]]

(* validate_portfolio_event_state and, of the progress validation, what it *)
(* says of a state alone.                                                  *)
StateValid(s, session) ==
  /\ s \in RiskState
  /\ IF s.open
     THEN /\ s.trigger \in Positive
          /\ s.since \in 0..session
          /\ LimitsValid(s.latched)
     ELSE s.trigger = None /\ s.since = None /\ s.latched = None

(* validate_portfolio_state_progress *)
ProgressValid(old, new, session) ==
  /\ StateValid(new, session)
  /\ old.open => /\ new.open
                 /\ new.trigger = old.trigger /\ new.since = old.since
                 /\ Tighten(old.latched, new.latched) = new.latched
  /\ new.peak >= old.peak
  /\ \A c \in Cycle : old.sleeves[c] # None =>
       /\ new.sleeves[c] # None
       /\ new.sleeves[c].entry = old.sleeves[c].entry
       /\ new.sleeves[c].peak >= old.sleeves[c].peak
       /\ new.sleeves[c].stop <= old.sleeves[c].stop
       /\ new.sleeves[c].trailing <= old.sleeves[c].trailing

(***************************************************************************)
(* A policy is admitted only with valid limits for every level, an         *)
(* override only with a value that is a limit.                             *)
(***************************************************************************)
ASSUME RiskAssumption ==
  /\ Unit \in Positive
  /\ MaxSession \in Nat
  /\ None \notin Nat \union Limits \union Holding \union Sleeve
  /\ Thresholds \in [Policy -> [Level -> Limits]]
  /\ \A p \in Policy, l \in Level : LimitsValid(Thresholds[p][l])
  /\ \A o \in Override :
       /\ DOMAIN o \subseteq EventField
       /\ \A k \in DOMAIN o :
            o[k] \in IF k \in RecoveryReverse THEN 5..20 ELSE 1..Unit
  /\ Observation \subseteq ObservationFields
  /\ Row \subseteq RowFields
  /\ \A i \in Initial :
       /\ StateValid(i.risk_state, 1) /\ i.risk_state.peak > 0
       /\ i.session \in 0..1 /\ i.start \in Positive

VARIABLES
  policy,     \* the policy of the identity that is live
  state,      \* risk_state at the head of the chain
  day,        \* session and session_start_nav at the head
  history,    \* the completed sessions so far, see Row
  opened,     \* history variable: state when the breaker opened
  tripped     \* history variable: the last session in which an event was active

vars == <<policy, state, day, history, opened, tripped>>

Session == Len(history) + 1

-----------------------------------------------------------------------------
(* evaluate_portfolio_risk_events. *)

(* Mutant of InForce: an open breaker takes the limits of the moment. *)
InForceUnlatched(level, over) == Tighten(Thresholds[policy][level], over)

InForce(level, over) ==
  LET requested == Tighten(Thresholds[policy][level], over)
  IN  IF state.open THEN Tighten(requested, state.latched) ELSE requested

Held(o) == {c \in Cycle : o.held[c] # None}

(* _state and _observations: what is refused before anything is evaluated. *)
Observed(o) ==
  /\ day.session = Session => day.start = o.start
  /\ o.peak >= o.index /\ o.peak >= state.peak
  /\ \A c \in Held(o) :
       /\ o.held[c].high >= o.held[c].net
       /\ state.sleeves[c] # None =>
            /\ o.held[c].entry = state.sleeves[c].entry
            /\ o.held[c].high >= state.sleeves[c].peak

Metrics(o) ==
  [daily_loss        |-> Loss(o.start + o.flow - o.nav, o.start),
   drawdown          |-> Loss(o.peak - o.index, o.peak),
   daily_cvar95_loss |-> o.cvar,
   annual_volatility |-> o.volatility]

(* The record of a cycle that is held: its limits never rise again. *)
Protection(c, o, limits) ==
  LET known == state.sleeves[c] # None
      old   == state.sleeves[c]
  IN  [entry    |-> o.held[c].entry,
       peak     |-> o.held[c].high,
       stop     |-> IF known THEN Lesser(limits.stop_loss_ratio, old.stop)
                    ELSE limits.stop_loss_ratio,
       trailing |-> IF known THEN Lesser(limits.trailing_stop_ratio, old.trailing)
                    ELSE limits.trailing_stop_ratio]

Retained(o, limits) ==
  [c \in Cycle |->
     IF c \in Held(o) THEN Protection(c, o, limits) ELSE state.sleeves[c]]

Stopped(c, o, limits) ==
  LET h == o.held[c]
      p == Protection(c, o, limits)
  IN  \/ ~Below(Loss(h.entry - h.net, h.entry), Limit(p.stop))
      \/ ~Below(Loss(h.high - h.net, h.high), Limit(p.trailing))

Active(o, limits) ==
  \/ ~Below(Metrics(o).daily_loss, Limit(limits.breaker_daily_loss))
  \/ ~Below(Metrics(o).drawdown, Limit(limits.breaker_drawdown))
  \/ \E c \in Held(o) : Stopped(c, o, limits)

(* circuit_breaker_state of the health axes: OPEN for a breaker that is    *)
(* open, an event of this cycle, or books that are not reconciled.         *)
CycleHealthOpen(o, limits) == state.open \/ Active(o, limits) \/ ~o.verified

Original(old, new) == IF state.open THEN old ELSE new

StateUpdate(o, limits) ==
  LET latched == CycleHealthOpen(o, limits)
  IN  [open    |-> latched,
       trigger |-> IF latched THEN Original(state.trigger, limits.breaker_daily_loss) ELSE None,
       since   |-> IF latched THEN Original(state.since, Session) ELSE None,
       latched |-> IF latched THEN limits ELSE None,
       peak    |-> o.peak,
       sleeves |-> Retained(o, limits)]

-----------------------------------------------------------------------------
(* _recovery: done is the session the causes were remedied in, the rows    *)
(* are those of all sessions completed since.                              *)

RecoveryBound(limits) ==
  [daily_loss        |-> <<state.trigger * limits.resume_daily_loss_fraction_of_trigger, Unit * Unit>>,
   daily_cvar95_loss |-> <<limits.daily_cvar95_loss_limit * limits.resume_cvar_vol_fraction_of_limit, Unit * Unit>>,
   annual_volatility |-> <<limits.target_annual_volatility * limits.resume_cvar_vol_fraction_of_limit, Unit * Unit>>,
   drawdown          |-> Limit(limits.breaker_drawdown)]

Clean(metrics, bound) == \A k \in Metric : Below(metrics[k], bound[k])

(* Mutant of EvidenceValid: remedied before it broke. *)
EvidenceOfAnyTime(done) ==
  /\ done < Len(history)
  /\ \A n \in done + 1 .. Len(history) : history[n].verified

EvidenceValid(done) ==
  /\ state.since <= done /\ done < Len(history)
  /\ \A n \in done + 1 .. Len(history) : history[n].verified

(* The count starts again at every session that is not clean. *)
Restarts(done, bound) ==
  {done} \union {n \in done + 1 .. Len(history) : ~Clean(history[n].metrics, bound)}

CleanSessions(done, bound) == Len(history) - Max(Restarts(done, bound))

Ready(o, limits, done) ==
  /\ CleanSessions(done, RecoveryBound(limits)) >= limits.resume_observation_sessions
  /\ Clean(Metrics(o), RecoveryBound(limits))
  /\ ~Active(o, limits)

(* done = None when the context comes without recovery evidence. *)
Recovery(o, limits, done) ==
  IF ~state.open THEN "NOT_LATCHED"
  ELSE IF done = None THEN "RECOVERY_EVIDENCE_MISSING"
  ELSE IF ~EvidenceValid(done) THEN "RECOVERY_EVIDENCE_INVALID"
  ELSE IF Ready(o, limits, done) THEN "QUALIFIED_FOR_RESET_REVIEW"
  ELSE "RECOVERY_NOT_QUALIFIED"

Qualifies(o, limits, done) == Recovery(o, limits, done) = "QUALIFIED_FOR_RESET_REVIEW"

-----------------------------------------------------------------------------
OpeningOf(s) == IF s.open THEN s ELSE None

Init ==
  /\ policy \in Policy
  /\ \E i \in Initial :
       /\ state = i.risk_state
       /\ day = [session |-> i.session, start |-> i.start]
  /\ history = <<>>
  /\ opened = OpeningOf(state)
  /\ tripped = 0

(* The observation is evaluated and its state_update appended to the       *)
(* chain.  What is said of recovery goes into the output and nowhere else. *)
Evaluate(level, over, o) ==
  LET limits == InForce(level, over)
      update == StateUpdate(o, limits)
  IN  /\ LimitsValid(Tighten(Thresholds[policy][level], over))
      /\ Observed(o)
      /\ ProgressValid(state, update, Session)
      /\ state' = update
      /\ day' = [session |-> Session, start |-> o.start]
      /\ opened' = IF state.open THEN opened ELSE OpeningOf(update)
      /\ tripped' = IF Active(o, limits) THEN Session ELSE tripped
      /\ UNCHANGED <<policy, history>>

(* The market closes; what it did that day becomes recovery evidence. *)
CompleteSession(row) ==
  /\ Session < MaxSession
  /\ history' = Append(history, row)
  /\ UNCHANGED <<policy, state, day, opened, tripped>>

(* Mutant of Handover: the breaker goes along, its limits do not. *)
HandoverWithoutLimits(p) ==
  /\ p # policy
  /\ policy' = p
  /\ state' = [state EXCEPT !.latched = None]
  /\ UNCHANGED <<day, history, opened, tripped>>

(* migrate_portfolio_event_state: another policy, the state as it is. *)
Handover(p) ==
  /\ p # policy
  /\ policy' = p
  /\ UNCHANGED <<state, day, history, opened, tripped>>

Next ==
  \/ \E level \in Level, over \in Override, o \in Observation : Evaluate(level, over, o)
  \/ \E row \in Row : CompleteSession(row)
  \/ \E p \in Policy : Handover(p)

Spec == Init /\ [][Next]_vars

-----------------------------------------------------------------------------
TypeOK ==
  /\ policy \in Policy
  /\ StateValid(state, Session)
  /\ day \in [session: 0..Session, start: Positive]
  /\ history \in Seq(Row)
  /\ opened \in RiskState \union {None}
  /\ tripped \in 0..Session

(* An observation that is let in is never lost: whatever level, override   *)
(* and policy it is evaluated under, after whatever was evaluated before,  *)
(* the state it leads to is one the stores accept.  Otherwise an OPEN that *)
(* was observed would vanish with an error of the program's own making.    *)
EvaluationIsAccepted ==
  \A level \in Level, over \in Override, o \in Observation :
    Observed(o) =>
      /\ LimitsValid(Tighten(Thresholds[policy][level], over))
      /\ ProgressValid(state, StateUpdate(o, InForce(level, over)), Session)

(* Only the requested evaluation is stored.  What trips under the limits   *)
(* the system recommends trips under those of every request, so no request *)
(* hides an event.                                                         *)
NoOverride == <<>>

RequestNeverHidesTrip ==
  \A level \in Level, over \in Override, o \in Observation :
    Observed(o) /\ Active(o, InForce(level, NoOverride)) =>
      Active(o, InForce(level, over))

Remediation == (0..Len(history)) \union {None}

(* Nor does a request qualify for a reset what the system does not. *)
RequestNeverEasesRecovery ==
  \A level \in Level, over \in Override, o \in Observation, done \in Remediation :
    Observed(o) /\ Qualifies(o, InForce(level, over), done) =>
      Qualifies(o, InForce(level, NoOverride), done)

(* "Five complete sessions in a row with a daily loss below half of the    *)
(* original threshold, CVaR and volatility below 80% of their limits", and *)
(* no drawdown breach: after remediation, against the limits with which    *)
(* the breaker opened, whatever levels and policies came since.            *)
LastFive == Session - 5 .. Session - 1

MeetsContract(row) ==
  /\ Below(row.metrics.daily_loss, <<opened.trigger, 2 * Unit>>)
  /\ Below(row.metrics.daily_cvar95_loss, <<4 * opened.latched.daily_cvar95_loss_limit, 5 * Unit>>)
  /\ Below(row.metrics.annual_volatility, <<4 * opened.latched.target_annual_volatility, 5 * Unit>>)
  /\ Below(row.metrics.drawdown, Limit(opened.latched.breaker_drawdown))

MayQualify(done) ==
  \E level \in Level, over \in Override, o \in Observation :
    Observed(o) /\ Qualifies(o, InForce(level, over), done)

RecoveryIsEarned ==
  \A done \in Remediation : MayQualify(done) =>
    /\ opened.since <= done
    /\ \A n \in LastFive : n > done /\ MeetsContract(history[n])

(* "... and no new anomaly" (docs/research/risk-levels/README.zh-CN.md:84). *)
NoNewAnomaly ==
  \A done \in Remediation : MayQualify(done) => tripped \notin LastFive
===============================================================================
