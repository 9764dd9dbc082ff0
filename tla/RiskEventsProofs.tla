--------------------------- MODULE RiskEventsProofs ---------------------------
(***************************************************************************)
(* What holds of the portfolio risk events for every policy, override and  *)
(* observation: the state keeps its shape, an observation that is let in   *)
(* always leads to a state the stores accept, no request hides a trip or   *)
(* eases a recovery, and a recovery is earned.                             *)
(***************************************************************************)
EXTENDS RiskEvents, WellFoundedInduction, TLAPS

(* What limits may be tightened with: an override, or the latched limits. *)
InRange(k, v) == v \in IF k \in RecoveryReverse THEN 5..20 ELSE 1..Unit

Requestable(r) ==
  /\ DOMAIN r \subseteq LimitField
  /\ \A k \in DOMAIN r : InRange(k, r[k])
  /\ "max_drawdown_tolerance" \in DOMAIN r =>
       /\ "breaker_drawdown" \in DOMAIN r
       /\ r["breaker_drawdown"] <= r["max_drawdown_tolerance"]

-----------------------------------------------------------------------------
(* Limits.                                                                 *)

LEMMA UnitPositive == Unit \in Nat /\ Unit > 0
BY RiskAssumption DEF RiskAssumption, Positive

LEMMA ValidInRange ==
  ASSUME NEW l, LimitsValid(l), NEW k \in LimitField
  PROVE  InRange(k, l[k]) /\ l[k] \in Nat
BY DEF LimitsValid, Limits, InRange, RecoveryReverse

LEMMA ValidRequestable ==
  ASSUME NEW l, LimitsValid(l)
  PROVE  Requestable(l)
<1>1. DOMAIN l = LimitField
  BY DEF LimitsValid, Limits
<1>2. "breaker_drawdown" \in LimitField /\ l.breaker_drawdown <= l.max_drawdown_tolerance
  BY DEF LimitField, EventField, LimitsValid
<1> QED
  BY <1>1, <1>2, ValidInRange DEF Requestable

LEMMA OverrideRequestable ==
  ASSUME NEW over \in Override
  PROVE  Requestable(over)
<1>1. DOMAIN over \subseteq EventField /\ \A k \in DOMAIN over : InRange(k, over[k])
  BY RiskAssumption DEF RiskAssumption, InRange
<1>2. "max_drawdown_tolerance" \notin EventField /\ EventField \subseteq LimitField
  BY DEF LimitField, EventField
<1> QED
  BY <1>1, <1>2 DEF Requestable

(* What Tighten does to one field. *)
LEMMA TightenAt ==
  ASSUME NEW l, LimitsValid(l), NEW r, Requestable(r), NEW k \in LimitField
  PROVE  /\ InRange(k, Tighten(l, r)[k])
         /\ Tighten(l, r)[k] \in Nat
         /\ k \notin RecoveryReverse => Tighten(l, r)[k] <= l[k]
         /\ k \in RecoveryReverse    => Tighten(l, r)[k] >= l[k]
         /\ k \notin DOMAIN r => Tighten(l, r)[k] = l[k]
         /\ k \in DOMAIN r /\ k \notin RecoveryReverse => Tighten(l, r)[k] <= r[k]
         /\ k \in DOMAIN r /\ k \in RecoveryReverse    => Tighten(l, r)[k] >= r[k]
<1>1. InRange(k, l[k]) /\ l[k] \in Nat
  BY ValidInRange
<1>2. k \in DOMAIN r => InRange(k, r[k])
  BY DEF Requestable
<1>3. Tighten(l, r)[k] = IF k \in DOMAIN r THEN Stricter(k, l[k], r[k]) ELSE l[k]
  BY DEF Tighten
<1> QED
  BY <1>1, <1>2, <1>3, UnitPositive DEF Stricter, Lesser, Greater, InRange

(* Limits stay limits whatever they are tightened with: no pair of fields  *)
(* that has to agree is pulled apart.                                      *)
LEMMA TightenValid ==
  ASSUME NEW l, LimitsValid(l), NEW r, Requestable(r)
  PROVE  LimitsValid(Tighten(l, r))
<1> DEFINE t == Tighten(l, r)
<1>1. t = [k \in LimitField |-> t[k]]
  BY DEF Tighten
<1>2. t \in Limits
  BY <1>1, TightenAt DEF Limits
<1>3. "resume_observation_sessions" \in LimitField
  BY DEF LimitField, EventField
<1>4. t.resume_observation_sessions \in 5..20
  BY <1>3, TightenAt DEF InRange, RecoveryReverse
<1>5. \A k \in LimitField \ {"resume_observation_sessions"} : t[k] \in 1..Unit
  BY TightenAt DEF InRange, RecoveryReverse
<1>6. t.breaker_drawdown <= t.max_drawdown_tolerance
  <2> DEFINE b == "breaker_drawdown"
             m == "max_drawdown_tolerance"
  <2>1. b \in LimitField \ RecoveryReverse /\ m \in LimitField \ RecoveryReverse
    BY DEF LimitField, EventField, MonitorField, RecoveryReverse
  <2>2. /\ t[b] = IF b \in DOMAIN r THEN Lesser(l[b], r[b]) ELSE l[b]
        /\ t[m] = IF m \in DOMAIN r THEN Lesser(l[m], r[m]) ELSE l[m]
    BY <2>1 DEF Tighten, Stricter
  <2>3. l[b] <= l[m] /\ (m \in DOMAIN r => b \in DOMAIN r /\ r[b] <= r[m])
    BY DEF LimitsValid, Requestable
  <2>4. /\ l[b] \in Nat /\ l[m] \in Nat
        /\ b \in DOMAIN r => r[b] \in Nat
        /\ m \in DOMAIN r => r[m] \in Nat
    BY <2>1, ValidInRange, UnitPositive DEF Requestable, InRange
  <2>5. t[b] <= t[m]
    BY <2>2, <2>3, <2>4 DEF Lesser
  <2> QED
    BY <2>5
<1>7. /\ t["resume_daily_loss_fraction_of_trigger"] <= l["resume_daily_loss_fraction_of_trigger"]
      /\ t["resume_cvar_vol_fraction_of_limit"] <= l["resume_cvar_vol_fraction_of_limit"]
      /\ t["resume_daily_loss_fraction_of_trigger"] \in Nat
      /\ t["resume_cvar_vol_fraction_of_limit"] \in Nat
      /\ l["resume_daily_loss_fraction_of_trigger"] \in Nat
      /\ l["resume_cvar_vol_fraction_of_limit"] \in Nat
  BY TightenAt, ValidInRange DEF LimitField, EventField, RecoveryReverse
<1>8. /\ 2 * t.resume_daily_loss_fraction_of_trigger <= Unit
      /\ 5 * t.resume_cvar_vol_fraction_of_limit <= 4 * Unit
  BY <1>7, UnitPositive DEF LimitsValid
<1> QED
  BY <1>2, <1>4, <1>5, <1>6, <1>8 DEF LimitsValid

(* The latched limits are never loosened: evaluated under whatever is      *)
(* requested, what is in force is tighter than what is latched.            *)
LEMMA LatchedStaysTight ==
  ASSUME NEW l, LimitsValid(l), NEW m, LimitsValid(m)
  PROVE  Tighten(m, Tighten(l, m)) = Tighten(l, m)
<1> DEFINE t == Tighten(l, m)
<1>1. LimitsValid(t) /\ Requestable(m) /\ DOMAIN m = LimitField /\ DOMAIN t = LimitField
  BY ValidRequestable, TightenValid DEF LimitsValid, Limits
<1>2. ASSUME NEW k \in LimitField
      PROVE  Tighten(m, t)[k] = t[k]
  <2>1. /\ t[k] = Stricter(k, l[k], m[k])
        /\ Tighten(m, t)[k] = Stricter(k, m[k], t[k])
    BY <1>1 DEF Tighten
  <2>2. l[k] \in Nat /\ m[k] \in Nat
    BY ValidInRange
  <2> QED
    BY <2>1, <2>2 DEF Stricter, Lesser, Greater
<1>3. t = [k \in LimitField |-> t[k]] /\ Tighten(m, t) = [k \in LimitField |-> Tighten(m, t)[k]]
  BY DEF Tighten
<1> QED
  BY <1>2, <1>3

LEMMA InForceValid ==
  ASSUME policy \in Policy, StateValid(state, Session),
         NEW level \in Level, NEW over, Requestable(over)
  PROVE  /\ LimitsValid(Tighten(Thresholds[policy][level], over))
         /\ LimitsValid(InForce(level, over))
<1>1. LimitsValid(Thresholds[policy][level])
  BY RiskAssumption DEF RiskAssumption
<1>2. LimitsValid(Tighten(Thresholds[policy][level], over))
  BY <1>1, TightenValid
<1>3. state.open => Requestable(state.latched)
  BY ValidRequestable DEF StateValid
<1> QED
  BY <1>2, <1>3, TightenValid DEF InForce

-----------------------------------------------------------------------------
(* Comparisons.                                                            *)

LEMMA LesserTimes ==
  ASSUME NEW a \in Nat, NEW b \in Nat, NEW d \in Nat, a <= b
  PROVE  a * d <= b * d
OBVIOUS

(* What reaches a limit reaches every lower one. *)
LEMMA LowerLimitReached ==
  ASSUME NEW x \in Ratio, NEW a \in Nat, NEW b \in Nat, a <= b,
         ~Below(x, Limit(b))
  PROVE  ~Below(x, Limit(a))
<1>1. x[2] \in Nat /\ x[1] \in Nat
  BY DEF Ratio, Positive
<1>2. a * x[2] <= b * x[2]
  BY <1>1, LesserTimes
<1> DEFINE p == x[1] * Unit
           q == a * x[2]
           s == b * x[2]
<1>3. p \in Int /\ q \in Int /\ s \in Int
  BY <1>1, UnitPositive
<1>4. ~(p < s)
  BY DEF Below, Limit
<1>5. ~(p < q)
  <2> HIDE DEF p, q, s
  <2>1. q <= s
    BY <1>2 DEF q, s
  <2> QED
    BY <1>3, <1>4, <2>1
<1> QED
  BY <1>5 DEF Below, Limit

-----------------------------------------------------------------------------
(* The state an observation leads to.                                      *)

LEMMA LimitRange ==
  ASSUME NEW l, LimitsValid(l)
  PROVE  /\ l.stop_loss_ratio \in Positive /\ l.trailing_stop_ratio \in Positive
         /\ l.breaker_daily_loss \in Positive /\ l.breaker_drawdown \in Positive
         /\ l \in Limits
<1>1. \A k \in {"stop_loss_ratio", "trailing_stop_ratio", "breaker_daily_loss", "breaker_drawdown"} :
        k \in LimitField \ {"resume_observation_sessions"}
  BY DEF LimitField, EventField
<1>2. \A k \in LimitField \ {"resume_observation_sessions"} : l[k] \in 1..Unit
  BY DEF LimitsValid
<1>3. 1..Unit \subseteq Positive
  BY UnitPositive DEF Positive
<1> QED
  BY <1>1, <1>2, <1>3 DEF LimitsValid

LEMMA HeldIsHolding ==
  ASSUME NEW o \in Observation, NEW c \in Held(o)
  PROVE  c \in Cycle /\ o.held[c] \in Holding
<1>1. o.held \in [Cycle -> Holding \union {None}]
  BY RiskAssumption DEF RiskAssumption, ObservationFields
<1> QED
  BY <1>1 DEF Held

(* A cycle that is held keeps its entry, and its limits do not rise.       *)
LEMMA ProtectionKept ==
  ASSUME StateValid(state, Session), NEW l, LimitsValid(l),
         NEW o \in Observation, Observed(o), NEW c \in Held(o)
  PROVE  /\ Protection(c, o, l) \in Sleeve
         /\ state.sleeves[c] # None =>
              /\ Protection(c, o, l).entry = state.sleeves[c].entry
              /\ Protection(c, o, l).peak >= state.sleeves[c].peak
              /\ Protection(c, o, l).stop <= state.sleeves[c].stop
              /\ Protection(c, o, l).trailing <= state.sleeves[c].trailing
<1> DEFINE h == o.held[c]
           old == state.sleeves[c]
           p == Protection(c, o, l)
<1>1. h.entry \in Positive /\ h.high \in Positive
  BY HeldIsHolding DEF Holding
<1>2. l.stop_loss_ratio \in Positive /\ l.trailing_stop_ratio \in Positive
  BY LimitRange
<1>3. old # None =>
        old.stop \in Positive /\ old.trailing \in Positive /\ old.entry \in Positive /\ old.peak \in Positive
  BY HeldIsHolding DEF StateValid, RiskState, Sleeve
<1>4. old # None => h.entry = old.entry /\ h.high >= old.peak
  BY DEF Observed
<1>5. /\ p.entry = h.entry /\ p.peak = h.high
      /\ p.stop = IF old # None THEN Lesser(l.stop_loss_ratio, old.stop) ELSE l.stop_loss_ratio
      /\ p.trailing = IF old # None THEN Lesser(l.trailing_stop_ratio, old.trailing)
                      ELSE l.trailing_stop_ratio
      /\ p = [entry |-> p.entry, peak |-> p.peak, stop |-> p.stop, trailing |-> p.trailing]
  BY DEF Protection
<1>6. /\ p.stop \in Positive /\ p.trailing \in Positive
      /\ old # None => p.stop <= old.stop /\ p.trailing <= old.trailing
  BY <1>2, <1>3, <1>5 DEF Lesser, Positive
<1>7. p \in Sleeve
  BY <1>1, <1>5, <1>6 DEF Sleeve
<1> QED
  BY <1>1, <1>3, <1>4, <1>5, <1>6, <1>7

LEMMA UpdateIsState ==
  ASSUME StateValid(state, Session), Session \in Nat, NEW l, LimitsValid(l),
         NEW o \in Observation, Observed(o)
  PROVE  StateValid(StateUpdate(o, l), Session)
<1> DEFINE u == StateUpdate(o, l)
           latched == CycleHealthOpen(o, l)
<1>1. o.peak \in Nat /\ o.verified \in BOOLEAN
  BY RiskAssumption DEF RiskAssumption, ObservationFields, Positive
<1>2. state.open \in BOOLEAN
  BY DEF StateValid, RiskState
<1>3. latched \in BOOLEAN
  BY <1>1, <1>2 DEF CycleHealthOpen
<1>4. Retained(o, l) \in [Cycle -> Sleeve \union {None}]
  <2>1. state.sleeves \in [Cycle -> Sleeve \union {None}]
    BY DEF StateValid, RiskState
  <2> QED
    BY <2>1, ProtectionKept DEF Retained
<1>5. state.open => state.trigger \in Positive /\ state.since \in 0..Session
  BY DEF StateValid
<1>6. l.breaker_daily_loss \in Positive /\ l \in Limits
  BY LimitRange
<1>7. latched => /\ u.trigger = IF state.open THEN state.trigger ELSE l.breaker_daily_loss
                 /\ u.since = IF state.open THEN state.since ELSE Session
                 /\ u.latched = l
  BY DEF StateUpdate, Original
<1>8. ~latched => u.trigger = None /\ u.since = None /\ u.latched = None
  BY DEF StateUpdate
<1>9. u.open = latched /\ u.peak = o.peak /\ u.sleeves = Retained(o, l)
  BY DEF StateUpdate
<1>10. latched => u.trigger \in Positive /\ u.since \in 0..Session
  BY <1>5, <1>6, <1>7
<1>11. u = [open |-> u.open, trigger |-> u.trigger, since |-> u.since, latched |-> u.latched,
            peak |-> u.peak, sleeves |-> u.sleeves]
  BY DEF StateUpdate
<1>12. /\ u.trigger \in Nat \union {None}
       /\ u.since \in Nat \union {None}
       /\ u.latched \in Limits \union {None}
  <2>1. CASE latched
    BY <1>6, <1>7, <1>10, <2>1 DEF Positive
  <2>2. CASE ~latched
    BY <1>8, <2>2
  <2> QED
    BY <2>1, <2>2
<1>13. u \in RiskState
  BY <1>1, <1>3, <1>4, <1>9, <1>11, <1>12 DEF RiskState
<1> QED
  BY <1>7, <1>8, <1>9, <1>10, <1>13 DEF StateValid

LEMMA UpdateProgresses ==
  ASSUME policy \in Policy, StateValid(state, Session), Session \in Nat,
         NEW level \in Level, NEW over \in Override, NEW o \in Observation, Observed(o)
  PROVE  ProgressValid(state, StateUpdate(o, InForce(level, over)), Session)
<1> DEFINE l == InForce(level, over)
           u == StateUpdate(o, l)
<1>1. LimitsValid(l) /\ LimitsValid(Tighten(Thresholds[policy][level], over))
  BY InForceValid, OverrideRequestable
<1>2. StateValid(u, Session)
  BY <1>1, UpdateIsState
<1>3. state.open => /\ u.open
                    /\ u.trigger = state.trigger /\ u.since = state.since
                    /\ u.latched = l
  BY DEF StateUpdate, Original, CycleHealthOpen
<1>4. state.open => Tighten(state.latched, l) = l
  <2> HAVE state.open
  <2>1. LimitsValid(state.latched)
    BY DEF StateValid
  <2>2. l = Tighten(Tighten(Thresholds[policy][level], over), state.latched)
    BY DEF InForce
  <2> QED
    BY <1>1, <2>1, <2>2, LatchedStaysTight
<1>5. u.peak >= state.peak
  BY DEF StateUpdate, Observed
<1>6. ASSUME NEW c \in Cycle, state.sleeves[c] # None
      PROVE  /\ u.sleeves[c] # None
             /\ u.sleeves[c].entry = state.sleeves[c].entry
             /\ u.sleeves[c].peak >= state.sleeves[c].peak
             /\ u.sleeves[c].stop <= state.sleeves[c].stop
             /\ u.sleeves[c].trailing <= state.sleeves[c].trailing
  <2>1. u.sleeves[c] = IF c \in Held(o) THEN Protection(c, o, l) ELSE state.sleeves[c]
    BY DEF StateUpdate, Retained
  <2>2. state.sleeves[c] \in Sleeve
    BY <1>6 DEF StateValid, RiskState
  <2>3. CASE c \in Held(o)
    <3>1. Protection(c, o, l) # None
      BY <1>1, <2>3, ProtectionKept, RiskAssumption DEF RiskAssumption
    <3> QED
      BY <1>1, <1>6, <2>1, <2>3, <3>1, ProtectionKept
  <2>4. CASE c \notin Held(o)
    BY <1>6, <2>1, <2>2, <2>4 DEF Sleeve, Positive
  <2> QED
    BY <2>3, <2>4
<1> QED
  BY <1>2, <1>3, <1>4, <1>5, <1>6 DEF ProgressValid

-----------------------------------------------------------------------------
(* Requests.                                                               *)

LEMMA NothingRequested ==
  ASSUME NEW l, LimitsValid(l)
  PROVE  Requestable(NoOverride) /\ Tighten(l, NoOverride) = l
<1>1. DOMAIN NoOverride = {}
  BY DEF NoOverride
<1>2. l = [k \in LimitField |-> l[k]]
  BY DEF LimitsValid, Limits
<1> QED
  BY <1>1, <1>2 DEF Requestable, Tighten

(* No request raises a limit that trips, open or not. *)
LEMMA RequestsOnlyTighten ==
  ASSUME policy \in Policy, StateValid(state, Session),
         NEW level \in Level, NEW over \in Override, NEW k \in LimitField \ RecoveryReverse
  PROVE  /\ InForce(level, over)[k] <= InForce(level, NoOverride)[k]
         /\ InForce(level, over)[k] \in Nat
         /\ InForce(level, NoOverride)[k] \in Nat
<1> DEFINE l == Thresholds[policy][level]
           a == Tighten(l, over)
           m == state.latched
<1>1. LimitsValid(l)
  BY RiskAssumption DEF RiskAssumption
<1>2. Requestable(over)
  BY OverrideRequestable
<1>3. LimitsValid(a) /\ a[k] <= l[k] /\ a[k] \in Nat /\ l[k] \in Nat
  BY <1>1, <1>2, TightenValid, TightenAt, ValidInRange
<1>4. InForce(level, over) = IF state.open THEN Tighten(a, m) ELSE a
  BY DEF InForce
<1>5. InForce(level, NoOverride) = IF state.open THEN Tighten(l, m) ELSE l
  BY <1>1, NothingRequested DEF InForce
<1>6. CASE state.open
  <2>1. LimitsValid(m) /\ DOMAIN m = LimitField
    BY <1>6 DEF StateValid, LimitsValid, Limits
  <2>2. m[k] \in Nat
    BY <2>1, ValidInRange
  <2>3. Tighten(a, m)[k] = Lesser(a[k], m[k]) /\ Tighten(l, m)[k] = Lesser(l[k], m[k])
    BY <2>1 DEF Tighten, Stricter
  <2> HIDE DEF l, a, m
  <2> QED
    BY <1>3, <1>4, <1>5, <1>6, <2>2, <2>3 DEF Lesser
<1>7. CASE ~state.open
  BY <1>3, <1>4, <1>5, <1>7
<1> QED
  BY <1>6, <1>7

LEMMA TripFields ==
  /\ "stop_loss_ratio" \in LimitField \ RecoveryReverse
  /\ "trailing_stop_ratio" \in LimitField \ RecoveryReverse
  /\ "breaker_daily_loss" \in LimitField \ RecoveryReverse
  /\ "breaker_drawdown" \in LimitField \ RecoveryReverse
BY DEF LimitField, EventField, RecoveryReverse

(* What trips under some limits trips under tighter ones. *)
LEMMA TighterTrips ==
  ASSUME StateValid(state, Session), NEW o \in Observation,
         NEW a, LimitsValid(a), NEW b, LimitsValid(b),
         \A k \in LimitField \ RecoveryReverse : a[k] <= b[k],
         Active(o, b)
  PROVE  Active(o, a)
<1> DEFINE daily == Metrics(o).daily_loss
           fall  == Metrics(o).drawdown
<1>1. /\ a["stop_loss_ratio"] <= b["stop_loss_ratio"]
      /\ a["trailing_stop_ratio"] <= b["trailing_stop_ratio"]
      /\ a["breaker_daily_loss"] <= b["breaker_daily_loss"]
      /\ a["breaker_drawdown"] <= b["breaker_drawdown"]
  BY TripFields
<1>2. /\ a.stop_loss_ratio \in Nat /\ b.stop_loss_ratio \in Nat
      /\ a.trailing_stop_ratio \in Nat /\ b.trailing_stop_ratio \in Nat
      /\ a.breaker_daily_loss \in Nat /\ b.breaker_daily_loss \in Nat
      /\ a.breaker_drawdown \in Nat /\ b.breaker_drawdown \in Nat
  BY LimitRange DEF Positive
<1>3. daily \in Ratio /\ fall \in Ratio
  <2>1. /\ o.start \in Positive /\ o.nav \in Nat /\ o.flow \in Int
        /\ o.peak \in Positive /\ o.index \in Positive
    BY RiskAssumption DEF RiskAssumption, ObservationFields
  <2> QED
    BY <2>1 DEF Metrics, Loss, Ratio, Greater, Positive
<1>4. CASE ~Below(daily, Limit(b.breaker_daily_loss))
  BY <1>1, <1>2, <1>3, <1>4, LowerLimitReached DEF Active
<1>5. CASE ~Below(fall, Limit(b.breaker_drawdown))
  BY <1>1, <1>2, <1>3, <1>5, LowerLimitReached DEF Active
<1>6. CASE \E c \in Held(o) : Stopped(c, o, b)
  <2>1. PICK c \in Held(o) : Stopped(c, o, b)
    BY <1>6
  <2> DEFINE h == o.held[c]
             old == state.sleeves[c]
             p == Protection(c, o, a)
             q == Protection(c, o, b)
             loss == Loss(h.entry - h.net, h.entry)
             trail == Loss(h.high - h.net, h.high)
  <2>2. h.entry \in Positive /\ h.net \in Nat /\ h.high \in Positive /\ c \in Cycle
    BY HeldIsHolding DEF Holding
  <2>3. loss \in Ratio /\ trail \in Ratio
    BY <2>2 DEF Loss, Ratio, Greater, Positive
  <2>4. old # None => old.stop \in Nat /\ old.trailing \in Nat
    BY <2>2 DEF StateValid, RiskState, Sleeve, Positive
  <2>5. /\ p.stop = IF old # None THEN Lesser(a.stop_loss_ratio, old.stop) ELSE a.stop_loss_ratio
        /\ q.stop = IF old # None THEN Lesser(b.stop_loss_ratio, old.stop) ELSE b.stop_loss_ratio
        /\ p.trailing = IF old # None THEN Lesser(a.trailing_stop_ratio, old.trailing)
                        ELSE a.trailing_stop_ratio
        /\ q.trailing = IF old # None THEN Lesser(b.trailing_stop_ratio, old.trailing)
                        ELSE b.trailing_stop_ratio
    BY DEF Protection
  <2>6. /\ p.stop \in Nat /\ q.stop \in Nat /\ p.stop <= q.stop
        /\ p.trailing \in Nat /\ q.trailing \in Nat /\ p.trailing <= q.trailing
    BY <1>1, <1>2, <2>4, <2>5 DEF Lesser
  <2>7. ~Below(loss, Limit(q.stop)) \/ ~Below(trail, Limit(q.trailing))
    BY <2>1 DEF Stopped
  <2>8. ~Below(loss, Limit(p.stop)) \/ ~Below(trail, Limit(p.trailing))
    <3> HIDE DEF p, q, loss, trail
    <3> QED
      BY <2>3, <2>6, <2>7, LowerLimitReached
  <2>9. Stopped(c, o, a)
    BY <2>8 DEF Stopped
  <2> QED
    BY <2>9 DEF Active
<1> QED
  BY <1>4, <1>5, <1>6 DEF Active

-----------------------------------------------------------------------------
(* Recovery.                                                               *)

LEMMA MaxOfNaturals ==
  ASSUME NEW n \in Nat, NEW S, S \subseteq 0..n, S # {}
  PROVE  Max(S) \in S /\ \A x \in S : x <= Max(S)
<1> DEFINE T == {n - x : x \in S}
<1>1. PICK t \in T : \A k \in T : ~(<<k, t>> \in OpToRel(<, Nat))
  <2>1. T \subseteq Nat
    OBVIOUS
  <2>2. PICK x \in S : TRUE
    OBVIOUS
  <2>3. n - x \in T
    BY <2>2
  <2> HIDE DEF T
  <2> QED BY <2>1, <2>3, NatLessThanWellFounded, WFMin
<1>2. PICK m \in S : t = n - m
  OBVIOUS
<1>3. ASSUME NEW x \in S PROVE m >= x
  <2>1. n - x \in T /\ n - x \in Nat /\ t \in Nat
    BY <1>2
  <2>2. ~(n - x < t)
    BY <1>1, <2>1 DEF OpToRel
  <2> QED BY <1>2, <2>1, <2>2
<1>4. Max(S) \in S /\ \A x \in S : Max(S) >= x
  BY <1>3 DEF Max
<1> QED BY <1>4

LEMMA RestartsBounded ==
  ASSUME history \in Seq(Row), NEW done \in 0..Len(history), NEW bound
  PROVE  /\ Max(Restarts(done, bound)) \in Restarts(done, bound)
         /\ Max(Restarts(done, bound)) \in done..Len(history)
         /\ \A n \in Restarts(done, bound) : n <= Max(Restarts(done, bound))
         /\ Len(history) \in Nat
<1>1. Len(history) \in Nat
  OBVIOUS
<1>2. Restarts(done, bound) \subseteq done..Len(history) /\ Restarts(done, bound) # {}
  BY <1>1 DEF Restarts
<1>3. Restarts(done, bound) \subseteq 0..Len(history)
  BY <1>1, <1>2
<1> QED BY <1>1, <1>2, <1>3, MaxOfNaturals

(* The sessions that are counted are the last ones, all after done and all *)
(* clean.                                                                  *)
LEMMA CountedAreClean ==
  ASSUME history \in Seq(Row), NEW done \in 0..Len(history), NEW bound
  PROVE  /\ CleanSessions(done, bound) \in 0..(Len(history) - done)
         /\ \A n \in (Len(history) - CleanSessions(done, bound) + 1)..Len(history) :
              n > done /\ Clean(history[n].metrics, bound)
<1> DEFINE m == Max(Restarts(done, bound))
<1>1. /\ m \in done..Len(history) /\ Len(history) \in Nat
      /\ \A n \in Restarts(done, bound) : n <= m
  BY RestartsBounded
<1>2. CleanSessions(done, bound) = Len(history) - m
  BY DEF CleanSessions
<1>3. ASSUME NEW n \in (Len(history) - CleanSessions(done, bound) + 1)..Len(history)
      PROVE  n > done /\ Clean(history[n].metrics, bound)
  <2> HIDE DEF m
  <2>1. n \in m + 1 .. Len(history) /\ n \in done + 1 .. Len(history)
    BY <1>1, <1>2
  <2>2. n \notin Restarts(done, bound)
    BY <1>1, <2>1
  <2> QED BY <2>1, <2>2 DEF Restarts
<1> QED
  <2> HIDE DEF m
  <2> QED BY <1>1, <1>2, <1>3

LEMMA MoreIsClean ==
  ASSUME history \in Seq(Row), NEW done \in 0..Len(history), NEW a, NEW b,
         \A n \in done + 1 .. Len(history) :
           Clean(history[n].metrics, a) => Clean(history[n].metrics, b)
  PROVE  CleanSessions(done, a) <= CleanSessions(done, b)
<1>1. Restarts(done, b) \subseteq Restarts(done, a)
  BY DEF Restarts
<1>2. Max(Restarts(done, b)) <= Max(Restarts(done, a))
  BY <1>1, RestartsBounded
<1> QED BY <1>2, RestartsBounded DEF CleanSessions

LEMMA ProductGrows ==
  ASSUME NEW a \in Nat, NEW b \in Nat, NEW c \in Nat, NEW d \in Nat, a <= c, b <= d
  PROVE  a * b \in Nat /\ c * d \in Nat /\ a * b <= c * d
<1>1. a * b <= c * b
  BY LesserTimes
<1>2. b * c <= d * c
  BY LesserTimes
<1>3. c * b = b * c /\ c * d = d * c
  OBVIOUS
<1>4. a * b \in Nat /\ c * b \in Nat /\ c * d \in Nat
  OBVIOUS
<1> QED BY <1>1, <1>2, <1>3, <1>4

LEMMA HigherBoundKept ==
  ASSUME NEW x \in Ratio, NEW p \in Nat, NEW q \in Nat, p <= q, NEW d \in Nat,
         Below(x, <<p, d>>)
  PROVE  Below(x, <<q, d>>)
<1>1. x[1] \in Nat /\ x[2] \in Nat
  BY DEF Ratio, Positive
<1> DEFINE u == x[1] * d
           v == p * x[2]
           w == q * x[2]
<1>2. v <= w
  BY <1>1, LesserTimes
<1>3. u \in Int /\ v \in Int /\ w \in Int
  BY <1>1
<1>4. u < v
  BY DEF Below
<1>5. u < w
  <2> HIDE DEF u, v, w
  <2> QED BY <1>2, <1>3, <1>4
<1> QED BY <1>5 DEF Below

(* Below a share s of a limit, where s is at most p/q, is below p/q of it. *)
LEMMA ShareOfLimit ==
  ASSUME NEW x \in Ratio, NEW l \in Nat, NEW m \in Nat, l <= m, NEW s \in Nat,
         NEW p \in Nat, NEW q \in Nat, q > 0, q * s <= p * Unit,
         Below(x, <<l * s, Unit * Unit>>)
  PROVE  Below(x, <<p * m, q * Unit>>)
<1> DEFINE n == x[1]
           d == x[2]
           U == Unit
<1>1. n \in Nat /\ d \in Nat /\ U \in Nat /\ U > 0
  BY UnitPositive DEF Ratio, Positive
<1>2. n * (U * U) < (l * s) * d
  BY DEF Below
<1>3. (l * d) * (q * s) <= (m * d) * (p * U)
  <2>1. l * d \in Nat /\ m * d \in Nat /\ l * d <= m * d
    BY <1>1, ProductGrows
  <2>2. q * s \in Nat /\ p * U \in Nat
    BY <1>1
  <2> QED BY <2>1, <2>2, ProductGrows
<1> HIDE DEF n, d, U
<1>4. q * (n * (U * U)) < q * ((l * s) * d)
  <2> DEFINE a == n * (U * U)
             b == (l * s) * d
  <2>1. a \in Int /\ b \in Int /\ a < b
    BY <1>1, <1>2
  <2> HIDE DEF a, b
  <2>2. b - a \in Nat /\ b - a > 0
    BY <2>1
  <2>3. q * (b - a) > 0
    BY <2>2
  <2>4. q * b = q * a + q * (b - a)
    BY <2>1
  <2>5. q * a \in Int /\ q * b \in Int /\ q * (b - a) \in Int
    BY <2>1
  <2>6. q * a < q * b
    BY <2>3, <2>4, <2>5
  <2> QED BY <2>6 DEF a, b
<1>5. q * ((l * s) * d) = (l * d) * (q * s)
  BY <1>1
<1>6. q * (n * (U * U)) = U * (n * (q * U)) /\ (m * d) * (p * U) = U * ((p * m) * d)
  BY <1>1
<1> DEFINE e == n * (q * U)
           f == (p * m) * d
<1>7. e \in Int /\ f \in Int
  BY <1>1
<1>8. U * e < U * f
  <2> DEFINE h == q * (n * (U * U))
             i == (l * d) * (q * s)
             j == (m * d) * (p * U)
  <2>1. h < i /\ i <= j /\ h = U * e /\ j = U * f
    BY <1>3, <1>4, <1>5, <1>6
  <2>2. h \in Int /\ i \in Int /\ j \in Int
    BY <1>1
  <2> HIDE DEF e, f, h, i, j
  <2> QED BY <2>1, <2>2
<1>9. e < f
  <2> HIDE DEF e, f
  <2> SUFFICES ASSUME f <= e PROVE FALSE
    BY <1>7
  <2>1. e - f \in Nat
    BY <1>7
  <2>2. U * (e - f) \in Nat
    BY <1>1, <2>1
  <2>3. U * e = U * f + U * (e - f)
    BY <1>1, <1>7
  <2>4. U * e \in Int /\ U * f \in Int
    BY <1>1, <1>7
  <2> QED BY <1>8, <2>2, <2>3, <2>4
<1> QED BY <1>9 DEF Below, n, d, U

LEMMA RecoveryFields ==
  /\ "breaker_drawdown" \in LimitField \ RecoveryReverse
  /\ "daily_cvar95_loss_limit" \in LimitField \ RecoveryReverse
  /\ "target_annual_volatility" \in LimitField \ RecoveryReverse
  /\ "resume_daily_loss_fraction_of_trigger" \in LimitField \ RecoveryReverse
  /\ "resume_cvar_vol_fraction_of_limit" \in LimitField \ RecoveryReverse
  /\ "resume_observation_sessions" \in LimitField
BY DEF LimitField, EventField, MonitorField, RecoveryReverse

LEMMA RecoveryLimits ==
  ASSUME NEW l, LimitsValid(l)
  PROVE  /\ l.breaker_drawdown \in Nat /\ l.daily_cvar95_loss_limit \in Nat
         /\ l.target_annual_volatility \in Nat
         /\ l.resume_daily_loss_fraction_of_trigger \in Nat
         /\ l.resume_cvar_vol_fraction_of_limit \in Nat
         /\ l.resume_observation_sessions \in 5..20
         /\ 2 * l.resume_daily_loss_fraction_of_trigger <= Unit
         /\ 5 * l.resume_cvar_vol_fraction_of_limit <= 4 * Unit
<1>1. /\ l["breaker_drawdown"] \in Nat /\ l["daily_cvar95_loss_limit"] \in Nat
      /\ l["target_annual_volatility"] \in Nat
      /\ l["resume_daily_loss_fraction_of_trigger"] \in Nat
      /\ l["resume_cvar_vol_fraction_of_limit"] \in Nat
  BY RecoveryFields, ValidInRange
<1> QED BY <1>1 DEF LimitsValid

LEMMA Measured ==
  ASSUME NEW metrics \in [Metric -> Ratio]
  PROVE  /\ metrics.daily_loss \in Ratio /\ metrics.daily_cvar95_loss \in Ratio
         /\ metrics.annual_volatility \in Ratio /\ metrics.drawdown \in Ratio
BY DEF Metric

LEMMA MetricsMeasured ==
  ASSUME NEW o \in Observation
  PROVE  Metrics(o) \in [Metric -> Ratio]
<1>1. /\ o.start \in Positive /\ o.nav \in Nat /\ o.flow \in Int
      /\ o.peak \in Positive /\ o.index \in Positive
      /\ o.cvar \in Ratio /\ o.volatility \in Ratio
  BY RiskAssumption DEF RiskAssumption, ObservationFields
<1>2. Loss(o.start + o.flow - o.nav, o.start) \in Ratio /\ Loss(o.peak - o.index, o.peak) \in Ratio
  BY <1>1 DEF Loss, Ratio, Greater, Positive
<1> QED BY <1>1, <1>2 DEF Metrics, Metric

LEMMA RowMeasured ==
  ASSUME history \in Seq(Row), NEW n \in 1..Len(history)
  PROVE  history[n].metrics \in [Metric -> Ratio]
<1>1. history[n] \in Row
  OBVIOUS
<1> QED BY <1>1, RiskAssumption DEF RiskAssumption, RowFields

LEMMA LargerProductKept ==
  ASSUME NEW x \in Ratio, NEW l \in Nat, NEW m \in Nat, NEW s \in Nat, NEW t \in Nat,
         l <= m, s <= t, Below(x, <<l * s, Unit * Unit>>)
  PROVE  Below(x, <<m * t, Unit * Unit>>)
<1>1. l * s \in Nat /\ m * t \in Nat /\ l * s <= m * t
  BY ProductGrows
<1>2. Unit * Unit \in Nat
  BY UnitPositive
<1> DEFINE a == l * s
           b == m * t
           u == Unit * Unit
<1> HIDE DEF a, b, u
<1>3. a \in Nat /\ b \in Nat /\ a <= b /\ u \in Nat /\ Below(x, <<a, u>>)
  BY <1>1, <1>2 DEF a, b, u
<1>4. Below(x, <<b, u>>)
  BY <1>3, HigherBoundKept
<1> QED BY <1>4 DEF b, u

(* What is clean under some limits is clean under looser ones. *)
LEMMA LooserIsClean ==
  ASSUME state.open, StateValid(state, Session),
         NEW a, LimitsValid(a), NEW b, LimitsValid(b),
         \A k \in LimitField \ RecoveryReverse : a[k] <= b[k],
         NEW metrics \in [Metric -> Ratio], Clean(metrics, RecoveryBound(a))
  PROVE  Clean(metrics, RecoveryBound(b))
<1> DEFINE x == RecoveryBound(a)
           y == RecoveryBound(b)
           t == state.trigger
<1>1. t \in Nat /\ Unit \in Nat /\ Unit * Unit \in Nat
  BY UnitPositive DEF StateValid, Positive
<1>2. /\ a.breaker_drawdown <= b.breaker_drawdown
      /\ a.daily_cvar95_loss_limit <= b.daily_cvar95_loss_limit
      /\ a.target_annual_volatility <= b.target_annual_volatility
      /\ a.resume_daily_loss_fraction_of_trigger <= b.resume_daily_loss_fraction_of_trigger
      /\ a.resume_cvar_vol_fraction_of_limit <= b.resume_cvar_vol_fraction_of_limit
  BY RecoveryFields
<1>3. /\ Below(metrics.daily_loss, x.daily_loss)
      /\ Below(metrics.daily_cvar95_loss, x.daily_cvar95_loss)
      /\ Below(metrics.annual_volatility, x.annual_volatility)
      /\ Below(metrics.drawdown, x.drawdown)
  BY DEF Clean, Metric
<1>4. Below(metrics.daily_loss, y.daily_loss)
  <2>1. Below(metrics.daily_loss, <<t * a.resume_daily_loss_fraction_of_trigger, Unit * Unit>>)
    BY <1>3 DEF RecoveryBound
  <2>2. Below(metrics.daily_loss, <<t * b.resume_daily_loss_fraction_of_trigger, Unit * Unit>>)
    BY <1>1, <1>2, <2>1, RecoveryLimits, Measured, LargerProductKept
  <2> QED BY <2>2 DEF RecoveryBound
<1>5. Below(metrics.daily_cvar95_loss, y.daily_cvar95_loss)
  <2>1. Below(metrics.daily_cvar95_loss,
              <<a.daily_cvar95_loss_limit * a.resume_cvar_vol_fraction_of_limit, Unit * Unit>>)
    BY <1>3 DEF RecoveryBound
  <2>2. Below(metrics.daily_cvar95_loss,
              <<b.daily_cvar95_loss_limit * b.resume_cvar_vol_fraction_of_limit, Unit * Unit>>)
    BY <1>2, <2>1, RecoveryLimits, Measured, LargerProductKept
  <2> QED BY <2>2 DEF RecoveryBound
<1>6. Below(metrics.annual_volatility, y.annual_volatility)
  <2>1. Below(metrics.annual_volatility,
              <<a.target_annual_volatility * a.resume_cvar_vol_fraction_of_limit, Unit * Unit>>)
    BY <1>3 DEF RecoveryBound
  <2>2. Below(metrics.annual_volatility,
              <<b.target_annual_volatility * b.resume_cvar_vol_fraction_of_limit, Unit * Unit>>)
    BY <1>2, <2>1, RecoveryLimits, Measured, LargerProductKept
  <2> QED BY <2>2 DEF RecoveryBound
<1>7. Below(metrics.drawdown, y.drawdown)
  BY <1>1, <1>2, <1>3, RecoveryLimits, Measured, HigherBoundKept DEF RecoveryBound, Limit
<1> QED BY <1>4, <1>5, <1>6, <1>7 DEF Clean, Metric

(* A request asks for as many clean sessions as the system, or more. *)
LEMMA RequestsNeverShorten ==
  ASSUME policy \in Policy, StateValid(state, Session), NEW level \in Level, NEW over \in Override
  PROVE  InForce(level, NoOverride).resume_observation_sessions
           <= InForce(level, over).resume_observation_sessions
<1> DEFINE k == "resume_observation_sessions"
           l == Thresholds[policy][level]
           a == Tighten(l, over)
           m == state.latched
<1>1. LimitsValid(l) /\ Requestable(over)
  BY OverrideRequestable, RiskAssumption DEF RiskAssumption
<1>2. k \in LimitField /\ k \in RecoveryReverse
  BY RecoveryFields DEF RecoveryReverse
<1>3. LimitsValid(a) /\ a[k] >= l[k] /\ a[k] \in Nat /\ l[k] \in Nat
  BY <1>1, <1>2, TightenValid, TightenAt, ValidInRange
<1>4. InForce(level, over) = IF state.open THEN Tighten(a, m) ELSE a
  BY DEF InForce
<1>5. InForce(level, NoOverride) = IF state.open THEN Tighten(l, m) ELSE l
  BY <1>1, NothingRequested DEF InForce
<1>6. CASE state.open
  <2>1. LimitsValid(m) /\ DOMAIN m = LimitField
    BY <1>6 DEF StateValid, LimitsValid, Limits
  <2>2. m[k] \in Nat
    BY <1>2, <2>1, ValidInRange
  <2>3. Tighten(a, m)[k] = Greater(a[k], m[k]) /\ Tighten(l, m)[k] = Greater(l[k], m[k])
    BY <1>2, <2>1 DEF Tighten, Stricter
  <2>4. Tighten(l, m)[k] <= Tighten(a, m)[k]
    <3> HIDE DEF l, a, m
    <3> QED BY <1>3, <2>2, <2>3 DEF Greater
  <2> QED BY <1>4, <1>5, <1>6, <2>4
<1>7. CASE ~state.open
  BY <1>3, <1>4, <1>5, <1>7
<1> QED BY <1>6, <1>7

(* What it takes to qualify. *)
LEMMA QualifiedFacts ==
  ASSUME NEW o, NEW limits, NEW done, Qualifies(o, limits, done)
  PROVE  state.open /\ done # None /\ EvidenceValid(done) /\ Ready(o, limits, done)
BY DEF Qualifies, Recovery

-----------------------------------------------------------------------------
(* The specification.                                                      *)

LEMMA SessionIsNat ==
  ASSUME TypeOK
  PROVE  Session \in Nat /\ Session >= 1 /\ Len(history) \in Nat
BY DEF TypeOK, Session

LEMMA LaterSession ==
  ASSUME NEW s, NEW n \in Nat, NEW m \in Nat, n <= m, StateValid(s, n)
  PROVE  StateValid(s, m)
BY DEF StateValid

(* The risk state, its day and what was recorded of the sessions keep      *)
(* their types: an open breaker has its trigger, the session it opened in  *)
(* and valid limits; a closed one has none of them.                        *)
THEOREM TypeCorrect == Spec => []TypeOK
<1>1. Init => TypeOK
  <2> SUFFICES ASSUME Init PROVE TypeOK
    OBVIOUS
  <2>1. PICK i \in Initial : /\ state = i.risk_state
                             /\ day = [session |-> i.session, start |-> i.start]
    BY DEF Init
  <2>2. history = <<>> /\ Session = 1
    BY DEF Init, Session
  <2>3. StateValid(state, Session)
    BY <2>1, <2>2, RiskAssumption DEF RiskAssumption
  <2>4. day \in [session: 0..Session, start: Positive]
    BY <2>1, <2>2, RiskAssumption DEF RiskAssumption
  <2>5. opened \in RiskState \union {None}
    BY <2>3 DEF Init, OpeningOf, StateValid
  <2> QED
    BY <2>2, <2>3, <2>4, <2>5 DEF TypeOK, Init
<1>2. TypeOK /\ [Next]_vars => TypeOK'
  <2> SUFFICES ASSUME TypeOK, [Next]_vars PROVE TypeOK'
    OBVIOUS
  <2> USE SessionIsNat
  <2>1. ASSUME NEW level \in Level, NEW over \in Override, NEW o \in Observation,
               Evaluate(level, over, o)
        PROVE  TypeOK'
    <3> DEFINE l == InForce(level, over)
               u == StateUpdate(o, l)
    <3>1. state' = u /\ StateValid(u, Session) /\ Session' = Session
      BY <2>1 DEF Evaluate, ProgressValid, Session
    <3>2. StateValid(state, Session)'
      BY <3>1 DEF StateValid, RiskState
    <3>3. o.start \in Positive
      BY RiskAssumption DEF RiskAssumption, ObservationFields
    <3>4. day' \in [session: 0..Session', start: Positive]
      BY <2>1, <3>1, <3>3 DEF Evaluate
    <3>5. opened' \in RiskState \union {None}
      <4>1. OpeningOf(u) \in RiskState \union {None}
        BY <3>1 DEF OpeningOf, StateValid
      <4> QED
        BY <2>1, <4>1 DEF Evaluate, TypeOK
    <3>6. tripped' \in 0..Session'
      BY <2>1, <3>1 DEF Evaluate, TypeOK
    <3> QED
      BY <2>1, <3>2, <3>4, <3>5, <3>6 DEF TypeOK, Evaluate
  <2>2. ASSUME NEW row \in Row, CompleteSession(row)
        PROVE  TypeOK'
    <3>1. history' \in Seq(Row) /\ Session' = Session + 1
      BY <2>2 DEF CompleteSession, TypeOK, Session
    <3>2. StateValid(state, Session')
      BY <3>1, LaterSession DEF TypeOK
    <3>3. StateValid(state, Session)'
      BY <2>2, <3>2 DEF StateValid, CompleteSession, RiskState
    <3> QED
      BY <2>2, <3>1, <3>3 DEF TypeOK, CompleteSession
  <2>3. ASSUME NEW p \in Policy, Handover(p)
        PROVE  TypeOK'
    <3>1. Session' = Session
      BY <2>3 DEF Handover, Session
    <3>2. StateValid(state, Session)'
      BY <2>3, <3>1 DEF StateValid, Handover, RiskState, TypeOK
    <3> QED
      BY <2>3, <3>1, <3>2 DEF TypeOK, Handover
  <2>4. CASE UNCHANGED vars
    <3>1. Session' = Session
      BY <2>4 DEF vars, Session
    <3>2. StateValid(state, Session)'
      BY <2>4, <3>1 DEF StateValid, vars, RiskState, TypeOK
    <3> QED
      BY <2>4, <3>1, <3>2 DEF TypeOK, vars
  <2> QED
    BY <2>1, <2>2, <2>3, <2>4 DEF Next
<1> QED
  BY <1>1, <1>2, PTL DEF Spec

(* An observation that is let in is never lost to an error of the          *)
(* program's own making, whatever was evaluated before and under whatever  *)
(* level, overrides and policy.                                            *)
THEOREM EvaluationAccepted == Spec => []EvaluationIsAccepted
<1>1. TypeOK => EvaluationIsAccepted
  <2> SUFFICES ASSUME TypeOK, NEW level \in Level, NEW over \in Override,
                      NEW o \in Observation, Observed(o)
               PROVE  /\ LimitsValid(Tighten(Thresholds[policy][level], over))
                      /\ ProgressValid(state, StateUpdate(o, InForce(level, over)), Session)
    BY DEF EvaluationIsAccepted
  <2>1. policy \in Policy /\ StateValid(state, Session) /\ Session \in Nat
    BY SessionIsNat DEF TypeOK
  <2> QED
    BY <2>1, InForceValid, OverrideRequestable, UpdateProgresses
<1> QED
  BY <1>1, TypeCorrect, PTL

(* No request hides an event that the system's own limits would show.      *)
THEOREM RequestsHideNothing == Spec => []RequestNeverHidesTrip
<1>1. TypeOK => RequestNeverHidesTrip
  <2> SUFFICES ASSUME TypeOK, NEW level \in Level, NEW over \in Override,
                      NEW o \in Observation, Observed(o),
                      Active(o, InForce(level, NoOverride))
               PROVE  Active(o, InForce(level, over))
    BY DEF RequestNeverHidesTrip
  <2>1. policy \in Policy /\ StateValid(state, Session)
    BY DEF TypeOK
  <2>2. LimitsValid(Thresholds[policy][level])
    BY <2>1, RiskAssumption DEF RiskAssumption
  <2>3. LimitsValid(InForce(level, over)) /\ LimitsValid(InForce(level, NoOverride))
    BY <2>1, <2>2, InForceValid, OverrideRequestable, NothingRequested
  <2>4. \A k \in LimitField \ RecoveryReverse :
          InForce(level, over)[k] <= InForce(level, NoOverride)[k]
    BY <2>1, RequestsOnlyTighten
  <2> QED
    BY <2>1, <2>3, <2>4, TighterTrips
<1> QED
  BY <1>1, TypeCorrect, PTL

(* A request never qualifies for a reset what the system's own limits do   *)
(* not: not by its limits, and not by the number of sessions it asks for.  *)
THEOREM RequestsEaseNothing == Spec => []RequestNeverEasesRecovery
<1>1. TypeOK => RequestNeverEasesRecovery
  <2> SUFFICES ASSUME TypeOK, NEW level \in Level, NEW over \in Override,
                      NEW o \in Observation, NEW done \in Remediation,
                      Qualifies(o, InForce(level, over), done)
               PROVE  Qualifies(o, InForce(level, NoOverride), done)
    BY DEF RequestNeverEasesRecovery
  <2> DEFINE a == InForce(level, over)
             b == InForce(level, NoOverride)
  <2>1. /\ policy \in Policy /\ StateValid(state, Session) /\ history \in Seq(Row)
        /\ Len(history) \in Nat
    BY SessionIsNat DEF TypeOK
  <2>2. state.open /\ done # None /\ EvidenceValid(done) /\ Ready(o, a, done)
    BY QualifiedFacts
  <2>3. done \in 0..Len(history)
    BY <2>2 DEF Remediation
  <2>4. LimitsValid(Thresholds[policy][level])
    BY <2>1, RiskAssumption DEF RiskAssumption
  <2>5. LimitsValid(a) /\ LimitsValid(b)
    BY <2>1, <2>4, InForceValid, OverrideRequestable, NothingRequested
  <2>6. \A k \in LimitField \ RecoveryReverse : a[k] <= b[k]
    BY <2>1, RequestsOnlyTighten
  <2> HIDE DEF a, b
  <2>7. \A m \in [Metric -> Ratio] : Clean(m, RecoveryBound(a)) => Clean(m, RecoveryBound(b))
    BY <2>1, <2>2, <2>5, <2>6, LooserIsClean
  <2>8. CleanSessions(done, RecoveryBound(a)) <= CleanSessions(done, RecoveryBound(b))
    <3>1. \A n \in done + 1 .. Len(history) : history[n].metrics \in [Metric -> Ratio]
      BY <2>1, <2>3, RowMeasured
    <3> QED BY <2>1, <2>3, <2>7, <3>1, MoreIsClean
  <2>9. CleanSessions(done, RecoveryBound(b)) >= b.resume_observation_sessions
    <3>1. b.resume_observation_sessions <= a.resume_observation_sessions
      BY <2>1, RequestsNeverShorten DEF a, b
    <3>2. a.resume_observation_sessions \in Int /\ b.resume_observation_sessions \in Int
      BY <2>5, RecoveryLimits
    <3>3. /\ CleanSessions(done, RecoveryBound(a)) \in Int
          /\ CleanSessions(done, RecoveryBound(b)) \in Int
      BY <2>1, <2>3, CountedAreClean
    <3>4. a.resume_observation_sessions <= CleanSessions(done, RecoveryBound(a))
      BY <2>2, <3>2, <3>3 DEF Ready
    <3> QED BY <2>8, <3>1, <3>2, <3>3, <3>4
  <2>10. Clean(Metrics(o), RecoveryBound(b)) /\ ~Active(o, b)
    BY <2>1, <2>2, <2>5, <2>6, <2>7, MetricsMeasured, TighterTrips DEF Ready
  <2>11. Ready(o, b, done)
    BY <2>9, <2>10 DEF Ready
  <2> QED BY <2>2, <2>11 DEF Qualifies, Recovery, b
<1> QED
  BY <1>1, TypeCorrect, PTL

(* While the breaker is open, what opened it is kept, and the limits it    *)
(* was opened with have not been loosened since.                           *)
OpenedKept ==
  state.open =>
    /\ opened \in RiskState /\ opened.open
    /\ opened.trigger = state.trigger /\ opened.since = state.since
    /\ LimitsValid(opened.latched)
    /\ \A k \in LimitField \ RecoveryReverse : state.latched[k] <= opened.latched[k]

LEMMA OpenedIsKept == Spec => [](TypeOK /\ OpenedKept)
<1>1. ASSUME NEW s, NEW n, StateValid(s, n), s.open
      PROVE  /\ LimitsValid(s.latched) /\ OpeningOf(s) = s /\ s \in RiskState
             /\ \A k \in LimitField \ RecoveryReverse : s.latched[k] <= s.latched[k]
  <2>1. LimitsValid(s.latched) /\ OpeningOf(s) = s /\ s \in RiskState
    BY <1>1 DEF StateValid, OpeningOf
  <2> QED BY <2>1, ValidInRange
<1>2. TypeOK /\ Init => OpenedKept
  BY <1>1 DEF Init, OpenedKept, TypeOK
<1>3. TypeOK /\ OpenedKept /\ [Next]_vars => OpenedKept'
  <2> SUFFICES ASSUME TypeOK, OpenedKept, [Next]_vars PROVE OpenedKept'
    OBVIOUS
  <2>1. ASSUME NEW level \in Level, NEW over \in Override, NEW o \in Observation,
               Evaluate(level, over, o)
        PROVE  OpenedKept'
    <3> DEFINE l == InForce(level, over)
               u == StateUpdate(o, l)
    <3>1. /\ state' = u /\ StateValid(u, Session)
          /\ opened' = IF state.open THEN opened ELSE OpeningOf(u)
      BY <2>1 DEF Evaluate, ProgressValid
    <3>2. CASE state.open
      <4>1. u.open /\ u.trigger = state.trigger /\ u.since = state.since /\ u.latched = l
        BY <3>2 DEF StateUpdate, Original, CycleHealthOpen
      <4>2. ASSUME NEW k \in LimitField \ RecoveryReverse
            PROVE  l[k] <= opened.latched[k]
        <5> DEFINE q == Tighten(Thresholds[policy][level], over)
        <5>1. LimitsValid(q) /\ LimitsValid(state.latched)
          BY <2>1, <3>2 DEF Evaluate, TypeOK, StateValid
        <5>2. DOMAIN state.latched = LimitField /\ Requestable(state.latched)
          BY <5>1, ValidRequestable DEF LimitsValid, Limits
        <5>3. l = Tighten(q, state.latched)
          BY <3>2 DEF InForce
        <5>4. l[k] <= state.latched[k] /\ l[k] \in Nat
          BY <5>1, <5>2, <5>3, TightenAt
        <5>5. state.latched[k] <= opened.latched[k]
          BY <3>2 DEF OpenedKept
        <5>6. state.latched[k] \in Nat /\ opened.latched[k] \in Nat
          BY <3>2, <5>1, ValidInRange DEF OpenedKept
        <5> QED BY <5>4, <5>5, <5>6
      <4> QED BY <3>1, <3>2, <4>1, <4>2 DEF OpenedKept
    <3>3. CASE ~state.open
      <4>1. state' = u /\ (u.open => opened' = u)
        BY <1>1, <3>1, <3>3
      <4> HIDE DEF u, l
      <4> QED BY <1>1, <3>1, <4>1 DEF OpenedKept
    <3> QED BY <3>2, <3>3
  <2>2. CASE UNCHANGED <<state, opened>>
    BY <2>2 DEF OpenedKept, RiskState
  <2> QED BY <2>1, <2>2 DEF Next, CompleteSession, Handover, vars
<1> QED
  BY <1>2, <1>3, TypeCorrect, PTL DEF Spec

(* Recovery is earned: five sessions in a row after remediation, each      *)
(* within half the original trigger and 80% of the limits with which the   *)
(* breaker opened, whatever levels, overrides and policies came since.     *)
THEOREM RecoveryEarned == Spec => []RecoveryIsEarned
<1>1. TypeOK /\ OpenedKept => RecoveryIsEarned
  <2> SUFFICES ASSUME TypeOK, OpenedKept, NEW done \in Remediation,
                      NEW level \in Level, NEW over \in Override, NEW o \in Observation,
                      Qualifies(o, InForce(level, over), done)
               PROVE  /\ opened.since <= done
                      /\ \A n \in LastFive : n > done /\ MeetsContract(history[n])
    BY DEF RecoveryIsEarned, MayQualify
  <2> DEFINE l == InForce(level, over)
             bound == RecoveryBound(l)
             last == Len(history)
             p == opened.latched
  <2>1. policy \in Policy /\ StateValid(state, Session) /\ history \in Seq(Row) /\ last \in Nat
    BY SessionIsNat DEF TypeOK
  <2>2. state.open /\ done # None /\ EvidenceValid(done) /\ Ready(o, l, done)
    BY QualifiedFacts
  <2>3. done \in 0..last /\ opened.since <= done
    BY <2>2 DEF Remediation, OpenedKept, EvidenceValid
  <2>4. LimitsValid(l) /\ LimitsValid(p) /\ opened.trigger = state.trigger /\ state.trigger \in Nat
    BY <2>1, <2>2, InForceValid, OverrideRequestable DEF OpenedKept, StateValid, Positive
  <2>5. ASSUME NEW k \in LimitField \ RecoveryReverse PROVE l[k] <= p[k]
    <3> DEFINE q == Tighten(Thresholds[policy][level], over)
    <3>1. LimitsValid(q) /\ LimitsValid(state.latched)
      BY <2>1, <2>2, InForceValid, OverrideRequestable DEF StateValid
    <3>2. DOMAIN state.latched = LimitField /\ Requestable(state.latched)
      BY <3>1, ValidRequestable DEF LimitsValid, Limits
    <3>3. l = Tighten(q, state.latched)
      BY <2>2 DEF InForce
    <3>4. l[k] <= state.latched[k] /\ l[k] \in Nat
      BY <3>1, <3>2, <3>3, TightenAt
    <3>5. state.latched[k] <= p[k]
      BY <2>2 DEF OpenedKept
    <3>6. state.latched[k] \in Nat /\ p[k] \in Nat
      BY <2>4, <3>1, ValidInRange
    <3> QED BY <3>4, <3>5, <3>6
  <2>6. /\ l.breaker_drawdown <= p.breaker_drawdown
        /\ l.daily_cvar95_loss_limit <= p.daily_cvar95_loss_limit
        /\ l.target_annual_volatility <= p.target_annual_volatility
    BY <2>5, RecoveryFields
  <2>7. CleanSessions(done, bound) >= 5 /\ CleanSessions(done, bound) \in Int
    <3>1. CleanSessions(done, bound) \in Int
      BY <2>1, <2>3, CountedAreClean
    <3>2. l.resume_observation_sessions \in 5..20
      BY <2>4, RecoveryLimits
    <3> QED BY <2>2, <3>1, <3>2 DEF Ready
  <2>8. ASSUME NEW n \in LastFive
        PROVE  n > done /\ n \in 1..last /\ Clean(history[n].metrics, bound)
    <3>1. n \in last - 4 .. last
      BY <2>1 DEF LastFive, Session
    <3>2. n \in (last - CleanSessions(done, bound) + 1)..last
      BY <2>1, <2>7, <3>1
    <3>3. n > done /\ Clean(history[n].metrics, bound)
      BY <2>1, <2>3, <3>2, CountedAreClean
    <3> QED BY <2>1, <2>3, <3>1, <3>3
  <2>9. ASSUME NEW n \in LastFive
        PROVE  MeetsContract(history[n])
    <3> DEFINE m == history[n].metrics
    <3>1. /\ m.daily_loss \in Ratio /\ m.daily_cvar95_loss \in Ratio
          /\ m.annual_volatility \in Ratio /\ m.drawdown \in Ratio
      BY <2>1, <2>8, RowMeasured, Measured
    <3>2. /\ Below(m.daily_loss, bound.daily_loss)
          /\ Below(m.daily_cvar95_loss, bound.daily_cvar95_loss)
          /\ Below(m.annual_volatility, bound.annual_volatility)
          /\ Below(m.drawdown, bound.drawdown)
      BY <2>8 DEF Clean, Metric
    <3>3. Below(m.daily_loss, <<1 * state.trigger, 2 * Unit>>)
      <4>1. Below(m.daily_loss,
                  <<state.trigger * l.resume_daily_loss_fraction_of_trigger, Unit * Unit>>)
        BY <3>2 DEF RecoveryBound
      <4>2. /\ 2 * l.resume_daily_loss_fraction_of_trigger <= 1 * Unit
            /\ l.resume_daily_loss_fraction_of_trigger \in Nat
        BY <2>4, RecoveryLimits, UnitPositive
      <4> DEFINE x == m.daily_loss
                 t == state.trigger
                 f == l.resume_daily_loss_fraction_of_trigger
                 one == 1
      <4>3. /\ x \in Ratio /\ t \in Nat /\ t <= t /\ f \in Nat
            /\ one \in Nat /\ 2 * f <= one * Unit
            /\ Below(x, <<t * f, Unit * Unit>>)
        BY <2>4, <3>1, <4>1, <4>2
      <4> HIDE DEF x, t, f, one
      <4>4. Below(x, <<one * t, 2 * Unit>>)
        BY <4>3, ShareOfLimit
      <4> QED BY <4>4 DEF x, t, one
    <3>4. Below(m.daily_cvar95_loss, <<4 * p.daily_cvar95_loss_limit, 5 * Unit>>)
      <4>1. Below(m.daily_cvar95_loss,
                  <<l.daily_cvar95_loss_limit * l.resume_cvar_vol_fraction_of_limit, Unit * Unit>>)
        BY <3>2 DEF RecoveryBound
      <4>2. /\ 5 * l.resume_cvar_vol_fraction_of_limit <= 4 * Unit
            /\ l.resume_cvar_vol_fraction_of_limit \in Nat
            /\ l.daily_cvar95_loss_limit \in Nat /\ p.daily_cvar95_loss_limit \in Nat
        BY <2>4, RecoveryLimits
      <4> DEFINE x == m.daily_cvar95_loss
                 t == l.daily_cvar95_loss_limit
                 u == p.daily_cvar95_loss_limit
                 f == l.resume_cvar_vol_fraction_of_limit
      <4>3. /\ x \in Ratio /\ t \in Nat /\ u \in Nat /\ t <= u /\ f \in Nat
            /\ 5 * f <= 4 * Unit /\ Below(x, <<t * f, Unit * Unit>>)
        BY <2>6, <3>1, <4>1, <4>2
      <4> HIDE DEF x, t, u, f
      <4>4. Below(x, <<4 * u, 5 * Unit>>)
        BY <4>3, ShareOfLimit
      <4> QED BY <4>4 DEF x, u
    <3>5. Below(m.annual_volatility, <<4 * p.target_annual_volatility, 5 * Unit>>)
      <4>1. Below(m.annual_volatility,
                  <<l.target_annual_volatility * l.resume_cvar_vol_fraction_of_limit, Unit * Unit>>)
        BY <3>2 DEF RecoveryBound
      <4>2. /\ 5 * l.resume_cvar_vol_fraction_of_limit <= 4 * Unit
            /\ l.resume_cvar_vol_fraction_of_limit \in Nat
            /\ l.target_annual_volatility \in Nat /\ p.target_annual_volatility \in Nat
        BY <2>4, RecoveryLimits
      <4> HIDE DEF l, m, p
      <4> QED BY <2>6, <3>1, <4>1, <4>2, ShareOfLimit
    <3>6. Below(m.drawdown, Limit(p.breaker_drawdown))
      <4>1. Below(m.drawdown, <<l.breaker_drawdown, Unit>>)
        BY <3>2 DEF RecoveryBound, Limit
      <4>2. l.breaker_drawdown \in Nat /\ p.breaker_drawdown \in Nat /\ Unit \in Nat
        BY <2>4, RecoveryLimits, UnitPositive
      <4> HIDE DEF l, m, p
      <4> QED BY <2>6, <3>1, <4>1, <4>2, HigherBoundKept DEF Limit
    <3>7. 1 * state.trigger = opened.trigger
      BY <2>4
    <3> QED BY <3>3, <3>4, <3>5, <3>6, <3>7 DEF MeetsContract
  <2> QED BY <2>3, <2>8, <2>9
<1> QED
  BY <1>1, OpenedIsKept, PTL
===============================================================================
