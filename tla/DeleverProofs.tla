----------------------------- MODULE DeleverProofs -----------------------------
(***************************************************************************)
(* Proofs about DeleverState, for every cooldown, account, split and       *)
(* basis: types, the exact end of the cooldown, that what is recorded can  *)
(* be built upon, and that what was given up never comes back.             *)
(***************************************************************************)
EXTENDS DeleverState, FiniteSetTheorems, TLAPS

LEMMA FloorFacts ==
  ASSUME NEW q \in Nat, NEW step \in Nat \ {0}
  PROVE  /\ Floor(q, step) \in Nat
         /\ Floor(q, step) <= q
         /\ Floor(q, step) % step = 0
<1>1. q = (q \div step) * step + (q % step) /\ q % step \in Nat /\ q \div step \in Nat
  OBVIOUS
<1>2. Floor(q, step) = (q \div step) * step
  BY <1>1 DEF Floor
<1>3. ((q \div step) * step) % step = 0
  BY <1>1
<1>4. Floor(q, step) \in Nat /\ Floor(q, step) <= q
  BY DEF Floor
<1> QED
  BY <1>2, <1>3, <1>4

LEMMA DivNat ==
  ASSUME NEW a \in Nat, NEW b \in Nat \ {0}
  PROVE  a \div b \in Nat
OBVIOUS

LEMMA ProductNat ==
  ASSUME NEW a \in Nat, NEW b \in Nat
  PROVE  a * b \in Nat
OBVIOUS

LEMMA ProductPositive ==
  ASSUME NEW a \in Nat \ {0}, NEW b \in Nat \ {0}
  PROVE  a * b \in Nat \ {0}
OBVIOUS

LEMMA ProductGrows ==
  ASSUME NEW a \in Nat, NEW b \in Nat, NEW c \in Nat, a <= b
  PROVE  a * c <= b * c
<1>1. b - a \in Nat
  OBVIOUS
<1>2. b * c = a * c + (b - a) * c
  BY <1>1
<1>3. (b - a) * c \in Nat /\ a * c \in Nat
  BY <1>1, ProductNat
<1> QED
  BY <1>2, <1>3

(* What an integer quotient leaves out is not given back. *)
LEMMA QuotientBelow ==
  ASSUME NEW a \in Nat, NEW b \in Nat \ {0}
  PROVE  (a \div b) * b <= a
<1>1. a = (a \div b) * b + (a % b) /\ a % b \in Nat /\ a \div b \in Nat
  OBVIOUS
<1>2. (a \div b) * b \in Nat
  BY <1>1, ProductNat
<1> QED
  BY <1>1, <1>2

LEMMA MinOfTwo ==
  ASSUME NEW a \in Nat, NEW b \in Nat
  PROVE  Min({a, b}) \in Nat /\ Min({a, b}) <= a /\ Min({a, b}) <= b
<1>1. \E x \in {a, b} : \A y \in {a, b} : x <= y
  <2>1. CASE a <= b
    BY <2>1
  <2>2. CASE b <= a
    BY <2>2
  <2> QED
    BY <2>1, <2>2
<1> QED
  BY <1>1 DEF Min

LEMMA MinOfThree ==
  ASSUME NEW a \in Nat, NEW b \in Nat, NEW c \in Nat
  PROVE  /\ Min({a, b, c}) \in Nat
         /\ Min({a, b, c}) <= a /\ Min({a, b, c}) <= b /\ Min({a, b, c}) <= c
<1>1. \E x \in {a, b, c} : \A y \in {a, b, c} : x <= y
  <2>1. PICK m \in {a, b} : \A y \in {a, b} : m <= y
    <3>1. CASE a <= b
      BY <3>1
    <3>2. CASE b <= a
      BY <3>2
    <3> QED
      BY <3>1, <3>2
  <2>2. CASE m <= c
    BY <2>1, <2>2
  <2>3. CASE c <= m
    BY <2>1, <2>3
  <2> QED
    BY <2>1, <2>2, <2>3
<1> QED
  BY <1>1 DEF Min

-----------------------------------------------------------------------------
(* Ratcheting takes a ceiling to a smaller one, and what is recorded of an *)
(* input within that ceiling can be built upon.                            *)

LEMMA RetainedIsValid ==
  ASSUME NEW i \in Inputs, NEW ceiling \in Nat, NEW mode \in Mode, NEW events \in SUBSET Event,
         ceiling <= Outstanding(i.account), ceiling <= i.account.bounded,
         mode = "genesis" => ceiling = 0,
         Cardinality(events) <= MaxSplits
  PROVE  /\ RetentionValid(Retained(i, ceiling, mode, events))
         /\ Retained(i, ceiling, mode, events) \in
              [session : Session, signal : Signal, basis : Basis, mode : Mode,
               ceiling : Nat, step : Nat \ {0}, outstanding : Nat, bounded : Nat,
               reconcile : BOOLEAN, events : SUBSET Event]
<1>1. /\ i.account.step \in Nat \ {0} /\ i.account.bounded \in Nat
      /\ Outstanding(i.account) \in Nat
  BY RetentionAssumption DEF Inputs, Outstanding
<1>2. /\ Floor(ceiling, i.account.step) \in Nat
      /\ Floor(ceiling, i.account.step) <= ceiling
      /\ Floor(ceiling, i.account.step) % i.account.step = 0
  BY <1>1, FloorFacts
<1>3. i.session \in Session /\ i.signal \in Signal /\ i.basis \in Basis
  BY DEF Inputs
<1> DEFINE r == Retained(i, ceiling, mode, events)
<1>4. /\ r.session = i.session /\ r.signal = i.signal /\ r.basis = i.basis /\ r.mode = mode
      /\ r.ceiling = Floor(ceiling, i.account.step) /\ r.step = i.account.step
      /\ r.outstanding = Outstanding(i.account) /\ r.bounded = i.account.bounded
      /\ r.reconcile = (Outstanding(i.account) > Floor(ceiling, i.account.step))
      /\ r.events = events
  BY DEF Retained
<1>5. RetentionValid(r)
  <2> HIDE DEF r
  <2>1. mode = "genesis" => r.ceiling = 0
    BY <1>2, <1>4
  <2> QED
    BY <1>1, <1>2, <1>4, <2>1 DEF RetentionValid
<1>6. r \in [session : Session, signal : Signal, basis : Basis, mode : Mode,
             ceiling : Nat, step : Nat \ {0}, outstanding : Nat, bounded : Nat,
             reconcile : BOOLEAN, events : SUBSET Event]
  BY <1>1, <1>2, <1>3 DEF Retained
<1> QED
  BY <1>5, <1>6

-----------------------------------------------------------------------------
(* The cooldown.  Strengthening: how many sessions remain is what is left  *)
(* of the cooldown after the sessions recorded since the trigger.          *)

Remaining ==
  cooldown # None =>
    /\ cooldown.remaining = IF quiet = None \/ quiet > CooldownSessions THEN 0
                            ELSE CooldownSessions - quiet
    /\ cooldown.last # None => cooldown.last <= cooldown.session
    /\ CooldownExact

(* A retention state is valid, its splits are within the bound, and its    *)
(* ceiling is below every earlier one.                                     *)
IInv ==
  /\ TypeOK
  /\ Remaining
  /\ NeverSelfBlocked
  /\ retention # NoRetention => IsFiniteSet(retention.events)
  /\ retention = NoRetention => ceilings = {}
  /\ NoRearm

LEMMA AdvanceKeeps ==
  ASSUME TypeOK, Remaining, NEW session \in Session, NEW triggered \in BOOLEAN,
         Advance(session, triggered)
  PROVE  /\ cooldown' \in [session : Session, remaining : 0..CooldownSessions,
                           reentry : BOOLEAN, last : Session \union {None}]
         /\ quiet' \in Nat \union {None}
         /\ Remaining'
         /\ CooldownValid(cooldown')
<1> USE CooldownAssumption DEF Session
<1> DEFINE Counted == [session : Session, remaining : 0..CooldownSessions,
                     reentry : BOOLEAN, last : Session \union {None}]
<1>0. /\ cooldown' = Advanced(cooldown, session, triggered)
      /\ quiet' = IF triggered THEN 0 ELSE IF cooldown = None \/ quiet = None THEN None ELSE quiet + 1
      /\ quiet \in Nat \union {None}
      /\ cooldown # None => session > cooldown.session /\ cooldown \in Counted
  BY DEF TypeOK, Advance
<1>1. CASE triggered
  <2>1. cooldown' = Blocked(session) /\ quiet' = 0
    BY <1>0, <1>1 DEF Advanced
  <2> QED
    BY <2>1 DEF Blocked, Remaining, CooldownExact, CooldownValid
<1>2. CASE ~triggered /\ cooldown = None
  <2>1. cooldown' = Unblocked(session)
    BY <1>0, <1>2 DEF Advanced
  <2>2. quiet' = None
    BY <1>0, <1>2
  <2> QED
    BY <2>1, <2>2 DEF Unblocked, Remaining, CooldownExact, CooldownValid
<1>3. CASE ~triggered /\ cooldown # None
  <2>1. cooldown' = Waited(cooldown, session)
    BY <1>0, <1>3 DEF Advanced
  <2>2. quiet' = IF quiet = None THEN None ELSE quiet + 1
    BY <1>0, <1>3
  <2>3. /\ cooldown'.session = session /\ cooldown'.last = cooldown.last
        /\ cooldown'.remaining = IF cooldown.remaining > 0 THEN cooldown.remaining - 1 ELSE 0
        /\ cooldown'.reentry = (cooldown.remaining = 0)
        /\ cooldown' \in Counted
    BY <1>0, <1>3, <2>1 DEF Waited
  <2>4. cooldown.remaining = IF quiet = None \/ quiet > CooldownSessions THEN 0
                             ELSE CooldownSessions - quiet
    BY <1>3 DEF Remaining
  <2>5. /\ cooldown'.last # None => cooldown'.last <= cooldown'.session
        /\ cooldown'.reentry <=> (quiet' = None \/ quiet' > CooldownSessions)
        /\ cooldown'.remaining = IF quiet' = None \/ quiet' > CooldownSessions THEN 0
                                 ELSE CooldownSessions - quiet'
    <3>1. CASE quiet = None
      BY <1>0, <1>3, <2>2, <2>3, <2>4, <3>1 DEF Remaining
    <3>2. CASE quiet # None
      BY <1>0, <1>3, <2>2, <2>3, <2>4, <3>2 DEF Remaining
    <3> QED
      BY <3>1, <3>2
  <2> QED
    BY <1>0, <1>3, <2>2, <2>3, <2>5 DEF Remaining, CooldownExact, CooldownValid
<1> QED
  BY <1>1, <1>2, <1>3

-----------------------------------------------------------------------------
(* The ratchet: what each of its steps records is a valid state. *)

Shape == [session : Session, signal : Signal, basis : Basis, mode : Mode,
          ceiling : Nat, step : Nat \ {0}, outstanding : Nat, bounded : Nat,
          reconcile : BOOLEAN, events : SUBSET Event]

LEMMA StartIsValid ==
  ASSUME NEW i \in Inputs, Genesis(i) \/ Migration(i)
  PROVE  /\ RetentionValid(retention') /\ retention' \in Shape
         /\ retention'.events = {}
<1>1. {} \in SUBSET Event /\ Cardinality({}) <= MaxSplits /\ Mode = {"genesis", "migration"}
  BY FS_EmptySet, RetentionAssumption DEF Mode
<1>2. i.account.bounded \in Nat /\ Outstanding(i.account) \in Nat
  BY RetentionAssumption DEF Inputs, Outstanding
<1>3. CASE Genesis(i)
  <2>1. retention' = Retained(i, 0, "genesis", {})
    BY <1>3 DEF Genesis, Records
  <2>2. RetentionValid(Retained(i, 0, "genesis", {})) /\ Retained(i, 0, "genesis", {}) \in Shape
    BY <1>1, <1>2, RetainedIsValid DEF Shape
  <2> QED
    BY <2>1, <2>2 DEF Retained
<1>4. CASE Migration(i)
  <2>1. retention' = Retained(i, Migrated(i), "migration", {})
    BY <1>4 DEF Migration, Records
  <2>2. /\ Migrated(i) \in Nat /\ Migrated(i) <= Outstanding(i.account)
        /\ Migrated(i) <= i.account.bounded
    BY <1>2, MinOfTwo DEF Migrated
  <2>3. /\ RetentionValid(Retained(i, Migrated(i), "migration", {}))
        /\ Retained(i, Migrated(i), "migration", {}) \in Shape
    BY <1>1, <2>2, RetainedIsValid DEF Shape
  <2> QED
    BY <2>1, <2>3 DEF Retained
<1> QED
  BY <1>3, <1>4

(* An account that began flat has nothing to retain, and never will.       *)
LEMMA RatchetedIsValid ==
  ASSUME NEW i \in Inputs, NEW former \in Shape, RetentionValid(former),
         NEW ceiling \in Nat, former.ceiling = 0 => ceiling = 0,
         NEW events \in SUBSET Event, Cardinality(events) <= MaxSplits
  PROVE  /\ RetentionValid(Retained(i, Ratcheted(i, ceiling), former.mode, events))
         /\ Retained(i, Ratcheted(i, ceiling), former.mode, events) \in Shape
<1>1. i.account.bounded \in Nat /\ Outstanding(i.account) \in Nat
  BY RetentionAssumption DEF Inputs, Outstanding
<1>2. /\ Ratcheted(i, ceiling) \in Nat /\ Ratcheted(i, ceiling) <= ceiling
      /\ Ratcheted(i, ceiling) <= Outstanding(i.account)
      /\ Ratcheted(i, ceiling) <= i.account.bounded
  BY <1>1, MinOfThree DEF Ratcheted
<1>3. former.mode \in Mode /\ (former.mode = "genesis" => ceiling = 0)
  BY DEF Shape, RetentionValid
<1>4. former.mode = "genesis" => Ratcheted(i, ceiling) = 0
  BY <1>2, <1>3
<1> QED
  BY <1>2, <1>3, <1>4, RetainedIsValid DEF Shape

LEMMA RatchetKeeps ==
  ASSUME NEW i \in Inputs, retention \in Shape, IsFiniteSet(retention.events),
         \/ Ratchet(i)
         \/ \E split \in Split : RatchetSplit(i, split)
  PROVE  /\ RetentionValid(retention') /\ retention' \in Shape
         /\ IsFiniteSet(retention'.events)
<1>1. RetentionValid(retention) /\ retention.ceiling \in Nat
      /\ retention.events \in SUBSET Event
  BY DEF Ratchet, RatchetSplit, Advances, Shape
<1>2. CASE Ratchet(i)
  <2>1. retention' = Retained(i, Ratcheted(i, retention.ceiling), retention.mode, retention.events)
    BY <1>2 DEF Ratchet, Records
  <2>2. Cardinality(retention.events) <= MaxSplits
    BY <1>1 DEF RetentionValid
  <2>3. RetentionValid(retention') /\ retention' \in Shape
    BY <1>1, <2>1, <2>2, RatchetedIsValid
  <2> QED
    BY <2>1, <2>3 DEF Retained
<1>3. CASE \E split \in Split : RatchetSplit(i, split)
  <2>1. PICK split \in Split : RatchetSplit(i, split)
    BY <1>3
  <2> DEFINE factor == Factor[split.event]
             ceiling == (retention.ceiling * factor[1]) \div factor[2]
             events == retention.events \union {split.event}
  <2>2. split.event \in Event /\ factor[1] \in Nat \ {0} /\ factor[2] \in Nat \ {0}
    BY RetentionAssumption DEF Split
  <2>3. ceiling \in Nat /\ (retention.ceiling = 0 => ceiling = 0)
    <3>1. retention.ceiling * factor[1] \in Nat
      BY <1>1, <2>2, ProductNat
    <3>2. ceiling \in Nat
      BY <2>2, <3>1, DivNat
    <3>3. retention.ceiling = 0 => ceiling = 0
      BY <2>2
    <3> QED
      BY <3>2, <3>3
  <2>4. /\ events \in SUBSET Event /\ IsFiniteSet(events)
        /\ Cardinality(events) <= MaxSplits
    <3>1. split.event \notin retention.events /\ Cardinality(retention.events) < MaxSplits
      BY <2>1 DEF RatchetSplit, SplitApplies
    <3>2. Cardinality(events) = Cardinality(retention.events) + 1 /\ IsFiniteSet(events)
      BY <3>1, FS_AddElement
    <3>3. Cardinality(retention.events) \in Nat
      BY FS_CardinalityType
    <3> QED
      BY <1>1, <2>2, <3>1, <3>2, <3>3, RetentionAssumption
  <2>5. retention' = Retained(i, Ratcheted(i, ceiling), retention.mode, events)
    BY <2>1 DEF RatchetSplit, Records
  <2> HIDE DEF factor, ceiling, events
  <2>6. RetentionValid(retention') /\ retention' \in Shape
    BY <1>1, <2>3, <2>4, <2>5, RatchetedIsValid
  <2>7. retention'.events = events
    BY <2>5 DEF Retained
  <2> QED
    BY <2>4, <2>6, <2>7
<1> QED
  BY <1>2, <1>3

-----------------------------------------------------------------------------
(* The two together. *)

LEMMA CeilingsKept ==
  ASSUME TypeOK, retention' \in Shape, NEW factor \in (Nat \ {0}) \X (Nat \ {0}),
         Records(retention', factor)
  PROVE  ceilings' \subseteq Nat \X (Nat \ {0})
<1>1. retention'.ceiling \in Nat
  BY DEF Shape
<1>2. ASSUME NEW former \in ceilings PROVE InShares(former, factor) \in Nat \X (Nat \ {0})
  <2>1. /\ former[1] \in Nat /\ former[2] \in Nat \ {0}
        /\ factor[1] \in Nat \ {0} /\ factor[2] \in Nat \ {0}
    BY DEF TypeOK
  <2>2. former[1] * factor[1] \in Nat /\ former[2] * factor[2] \in Nat \ {0}
    BY <2>1, ProductNat, ProductPositive
  <2> QED
    BY <2>2 DEF InShares
<1> QED
  BY <1>1, <1>2 DEF Records

(* The ceiling recorded is below every earlier one in shares of its day... *)
Factors == (Nat \ {0}) \X (Nat \ {0})

Below(ceiling, factor) ==
  \A former \in ceilings : ceiling * InShares(former, factor)[2] <= InShares(former, factor)[1]

LEMMA RecordsBelow ==
  ASSUME NEW state \in Shape, NEW factor \in Factors, Records(state, factor),
         Below(state.ceiling, factor)
  PROVE  NoRearm'
<1>1. retention' = state /\ state.ceiling \in Nat
  BY DEF Records, Shape
<1>2. ASSUME NEW former \in ceilings' PROVE state.ceiling * former[2] <= former[1]
  <2>1. CASE former = <<state.ceiling, 1>>
    BY <1>1, <2>1
  <2>2. CASE former # <<state.ceiling, 1>>
    <3>1. PICK f \in ceilings : former = InShares(f, factor)
      BY <2>2 DEF Records
    <3> QED
      BY <3>1 DEF Below
  <2> QED
    BY <2>1, <2>2
<1> QED
  BY <1>1, <1>2 DEF NoRearm

(* ... without a split because it is below the last one... *)
LEMMA RatchetBelow ==
  ASSUME TypeOK, NoRearm, retention \in Shape, NEW c \in Nat, c <= retention.ceiling
  PROVE  Below(c, Unsplit)
<1> SUFFICES ASSUME NEW f \in ceilings
             PROVE  c * InShares(f, Unsplit)[2] <= InShares(f, Unsplit)[1]
  BY DEF Below
<1>1. f[1] \in Nat /\ f[2] \in Nat /\ retention.ceiling \in Nat
  BY DEF TypeOK, Shape
<1>2. InShares(f, Unsplit)[1] = f[1] /\ InShares(f, Unsplit)[2] = f[2]
  BY <1>1 DEF InShares, Unsplit
<1>3. c * f[2] <= retention.ceiling * f[2] /\ retention.ceiling * f[2] <= f[1]
  BY <1>1, ProductGrows DEF NoRearm
<1>4. c * f[2] \in Nat /\ retention.ceiling * f[2] \in Nat
  BY <1>1, ProductNat
<1> QED
  BY <1>1, <1>2, <1>3, <1>4

(* ... and with one because it is below the last one times its factor. *)
LEMMA SplitBelow ==
  ASSUME TypeOK, NoRearm, retention \in Shape, NEW factor \in Factors,
         NEW c \in Nat, c <= (retention.ceiling * factor[1]) \div factor[2]
  PROVE  Below(c, factor)
<1> SUFFICES ASSUME NEW f \in ceilings
             PROVE  c * InShares(f, factor)[2] <= InShares(f, factor)[1]
  BY DEF Below
<1> DEFINE p == f[1]
           q == f[2]
           r == retention.ceiling
           n == factor[1]
           d == factor[2]
           s == (r * n) \div d
<1>1. /\ p \in Nat /\ q \in Nat /\ r \in Nat /\ n \in Nat /\ d \in Nat \ {0}
      /\ r * q <= p
  BY DEF TypeOK, Shape, Factors, NoRearm
<1>2. InShares(f, factor)[1] = p * n /\ InShares(f, factor)[2] = q * d
  BY DEF InShares
<1>3. c <= s
  OBVIOUS
<1> HIDE DEF p, q, r, n, d
<1>4. r * n \in Nat /\ s \in Nat /\ s * d <= r * n
  BY <1>1, ProductNat, DivNat, QuotientBelow
<1> HIDE DEF s
<1>5. c * d <= r * n /\ c * d \in Nat
  <2>1. c * d <= s * d
    BY <1>1, <1>3, <1>4, ProductGrows
  <2>2. c * d \in Nat /\ s * d \in Nat
    BY <1>1, <1>4, ProductNat
  <2> QED
    BY <1>4, <2>1, <2>2
<1>6. (c * d) * q <= (r * n) * q
  BY <1>1, <1>4, <1>5, ProductGrows
<1>7. (r * q) * n <= p * n
  BY <1>1, ProductNat, ProductGrows
<1>8. c * (q * d) = (c * d) * q /\ (r * n) * q = (r * q) * n
  BY <1>1
<1>9. (c * d) * q \in Nat /\ (r * n) * q \in Nat /\ p * n \in Nat
  BY <1>1, <1>4, <1>5, ProductNat
<1> DEFINE w == (c * d) * q
           x == (r * n) * q
           y == (r * q) * n
           z == p * n
<1>10. w <= x /\ x = y /\ y <= z /\ w \in Nat /\ x \in Nat /\ z \in Nat /\ c * (q * d) = w
  BY <1>6, <1>7, <1>8, <1>9
<1> HIDE DEF w, x, y, z
<1>11. c * (q * d) <= z
  BY <1>10
<1> QED
  BY <1>2, <1>11 DEF z

(* What every step of the ratchet records. *)
LEMMA RetentionRecords ==
  ASSUME IInv, NEW i \in Inputs, retention' \in Shape,
         \/ Genesis(i) \/ Migration(i) \/ Ratchet(i)
         \/ \E split \in Split : RatchetSplit(i, split)
  PROVE  \E factor \in Factors :
           Records(retention', factor) /\ Below(retention'.ceiling, factor)
<1>0. TypeOK /\ NoRearm /\ Unsplit \in Factors
  BY DEF IInv, Unsplit, Factors
<1>1. /\ i.account.step \in Nat \ {0} /\ i.account.bounded \in Nat
      /\ Outstanding(i.account) \in Nat
  BY RetentionAssumption DEF Inputs, Outstanding
<1>2. ASSUME NEW c \in Nat, NEW mode, NEW events
      PROVE  /\ Retained(i, Ratcheted(i, c), mode, events).ceiling \in Nat
             /\ Retained(i, Ratcheted(i, c), mode, events).ceiling <= c
  <2>1. Ratcheted(i, c) \in Nat /\ Ratcheted(i, c) <= c
    BY <1>1, MinOfThree DEF Ratcheted
  <2>2. /\ Floor(Ratcheted(i, c), i.account.step) \in Nat
        /\ Floor(Ratcheted(i, c), i.account.step) <= Ratcheted(i, c)
    BY <1>1, <2>1, FloorFacts
  <2>3. Retained(i, Ratcheted(i, c), mode, events).ceiling = Floor(Ratcheted(i, c), i.account.step)
    BY DEF Retained
  <2> QED
    BY <2>1, <2>2, <2>3
<1>3. CASE Genesis(i) \/ Migration(i)
  <2>1. ceilings = {}
    BY <1>3 DEF IInv, Genesis, Migration
  <2>2. Records(retention', Unsplit)
    BY <1>3 DEF Genesis, Migration, Records
  <2> QED
    BY <1>0, <2>1, <2>2 DEF Below
<1>4. CASE Ratchet(i)
  <2> DEFINE state == Retained(i, Ratcheted(i, retention.ceiling), retention.mode, retention.events)
  <2>1. retention \in Shape /\ Records(state, Unsplit) /\ retention' = state
    BY <1>4 DEF IInv, TypeOK, Shape, Ratchet, Advances, Records
  <2>2. state.ceiling \in Nat /\ state.ceiling <= retention.ceiling
    BY <1>2, <2>1 DEF Shape
  <2>3. Below(state.ceiling, Unsplit)
    <3> HIDE DEF state
    <3> QED
      BY <1>0, <2>1, <2>2, RatchetBelow
  <2> QED
    BY <1>0, <2>1, <2>3
<1>5. CASE \E split \in Split : RatchetSplit(i, split)
  <2>1. PICK split \in Split : RatchetSplit(i, split)
    BY <1>5
  <2> DEFINE factor == Factor[split.event]
             former == (retention.ceiling * factor[1]) \div factor[2]
             state == Retained(i, Ratcheted(i, former), retention.mode,
                               retention.events \union {split.event})
  <2>2. split.event \in Event /\ factor \in Factors
    BY RetentionAssumption DEF Split, Factors
  <2>3. retention \in Shape /\ Records(state, factor) /\ retention' = state
    <3>1. split.event \notin retention.events
      BY <2>1 DEF RatchetSplit, SplitApplies
    <3>2. Records(state, factor)
      BY <2>1, <3>1 DEF RatchetSplit
    <3> QED
      BY <2>1, <3>2 DEF IInv, TypeOK, Shape, RatchetSplit, Advances, Records
  <2>4. former \in Nat
    BY <2>2, <2>3, ProductNat, DivNat DEF Shape, Factors
  <2>5. state.ceiling \in Nat /\ state.ceiling <= former
    <3> HIDE DEF former
    <3> QED
      BY <1>2, <2>4
  <2>6. Below(state.ceiling, factor)
    <3> HIDE DEF state, factor
    <3> QED
      BY <1>0, <2>2, <2>3, <2>5, SplitBelow
  <2> QED
    BY <2>2, <2>3, <2>6
<1> QED
  BY <1>3, <1>4, <1>5

LEMMA InitInv == Init => IInv
BY DEF Init, IInv, TypeOK, Remaining, NeverSelfBlocked, NoRearm

LEMMA NextKeeps == IInv /\ [Next]_vars => IInv'
<1> SUFFICES ASSUME IInv, [Next]_vars
             PROVE  IInv'
  OBVIOUS
<1>0. TypeOK /\ Remaining /\ NeverSelfBlocked
  BY DEF IInv
<1>1. ASSUME NEW session \in Session, NEW triggered \in BOOLEAN, Advance(session, triggered)
      PROVE  IInv'
  <2>1. /\ cooldown' \in [session : Session, remaining : 0..CooldownSessions,
                          reentry : BOOLEAN, last : Session \union {None}]
        /\ quiet' \in Nat \union {None} /\ Remaining' /\ CooldownValid(cooldown')
    BY <1>0, <1>1, AdvanceKeeps
  <2>2. UNCHANGED <<retention, ceilings>>
    BY <1>1 DEF Advance, retentionVars
  <2>3. TypeOK'
    BY <1>0, <2>1, <2>2 DEF TypeOK
  <2>4. NeverSelfBlocked'
    BY <1>0, <2>1, <2>2 DEF NeverSelfBlocked, RetentionValid
  <2> QED
    BY <2>1, <2>2, <2>3, <2>4 DEF IInv, NoRearm
<1>2. ASSUME NEW i \in Inputs,
             \/ Genesis(i) \/ Migration(i) \/ Ratchet(i)
             \/ \E split \in Split : RatchetSplit(i, split)
      PROVE  IInv'
  <2>1. /\ RetentionValid(retention') /\ retention' \in Shape
        /\ IsFiniteSet(retention'.events)
    <3>1. CASE Genesis(i) \/ Migration(i)
      BY <3>1, StartIsValid, FS_EmptySet
    <3>2. CASE Ratchet(i) \/ \E split \in Split : RatchetSplit(i, split)
      <4>1. retention \in Shape /\ IsFiniteSet(retention.events)
        BY <3>2 DEF IInv, TypeOK, Shape, Ratchet, RatchetSplit, Advances
      <4> QED
        BY <3>2, <4>1, RatchetKeeps
    <3> QED
      BY <1>2, <3>1, <3>2
  <2>2. PICK factor \in Factors :
          Records(retention', factor) /\ Below(retention'.ceiling, factor)
    BY <1>2, <2>1, RetentionRecords
  <2>a. UNCHANGED <<cooldown, quiet>>
    BY <2>2 DEF Records, cooldownVars
  <2>3. TypeOK'
    <3>1. ceilings' \subseteq Nat \X (Nat \ {0})
      BY <1>0, <2>1, <2>2, CeilingsKept DEF Factors
    <3> QED
      BY <1>0, <2>1, <2>a, <3>1 DEF TypeOK, Shape
  <2>4. NeverSelfBlocked'
    BY <1>0, <2>1, <2>a DEF NeverSelfBlocked, CooldownValid
  <2>5. Remaining'
    BY <1>0, <2>a DEF Remaining, CooldownExact
  <2>6. NoRearm'
    BY <2>1, <2>2, RecordsBelow
  <2>7. retention' # NoRetention
    <3>1. retention'.mode \in Mode /\ NoRetention.mode \notin Mode
      BY <2>1 DEF Shape, Mode, NoRetention
    <3> QED
      BY <3>1
  <2> QED
    BY <2>1, <2>3, <2>4, <2>5, <2>6, <2>7 DEF IInv
<1>3. CASE UNCHANGED vars
  BY <1>3 DEF IInv, vars, cooldownVars, retentionVars, TypeOK, Remaining, CooldownExact,
              NeverSelfBlocked, CooldownValid, RetentionValid, NoRearm
<1> QED
  BY <1>1, <1>2, <1>3 DEF Next

(* The inductive invariant holds of every reachable state. *)
LEMMA Invariance == Spec => []IInv
BY InitInv, NextKeeps, PTL DEF Spec

(* Cooldown and retention states keep their shape, and the count of        *)
(* blocked sessions its bounds (TypeOK).                                   *)
THEOREM TypeCorrect == Spec => []TypeOK
<1>1. IInv => TypeOK
  BY DEF IInv
<1> QED
  BY Invariance, <1>1, PTL

(* Re-entry is allowed exactly when more sessions than the cooldown were   *)
(* recorded since the last trigger, for a cooldown of any length           *)
(* (CooldownExact).                                                        *)
THEOREM CooldownsAreExact == Spec => []CooldownExact
<1>1. IInv => CooldownExact
  BY DEF IInv, Remaining, CooldownExact
<1> QED
  BY Invariance, <1>1, PTL

(* No state the program records is refused as a predecessor, for any       *)
(* accounts, splits and quantity steps (NeverSelfBlocked).                 *)
THEOREM RecordedIsUsable == Spec => []NeverSelfBlocked
<1>1. IInv => NeverSelfBlocked
  BY DEF IInv
<1> QED
  BY Invariance, <1>1, PTL

(* What a release gave up does not come back: through any sequence of      *)
(* sessions, accounts, quantity steps and splits the retained quantity     *)
(* stays below every earlier one in the shares of its day (NoRearm).       *)
THEOREM NothingRearms == Spec => []NoRearm
<1>1. IInv => NoRearm
  BY DEF IInv
<1> QED
  BY Invariance, <1>1, PTL
===============================================================================
