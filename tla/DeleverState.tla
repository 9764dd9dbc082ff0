----------------------------- MODULE DeleverState -----------------------------
(***************************************************************************)
(* The two calculators that keep a deleveraged account from being armed    *)
(* again too early: the cooldown before re-entry                           *)
(* (volatility_delever_cooldown.py) and the ratchet on the quantity that a *)
(* released plugin may retain (research/tqqq_plugin_release_retention.py). *)
(*                                                                         *)
(* Each is a pure function of its predecessor and one session's input,     *)
(* whose result is appended to a store that takes one successor per        *)
(* transition.  An append that lands therefore landed behind the           *)
(* transition it was computed from, whoever else was computing: load,      *)
(* calculation and append are one step here, and a refused input, a retry  *)
(* that returns the stored transition or an append that does not land are  *)
(* none.  Quantities are integers in the smallest unit.                    *)
(***************************************************************************)
EXTENDS Integers, FiniteSets, FiniteSetsExt

CONSTANTS
  CooldownSessions,
  MaxSession,   \* bound on the effective sessions
  Snapshot,     \* accounts: settled, buying, selling, bounded, step
  Event,        \* split events
  Factor,       \* [Event -> <<numerator, denominator>>]
  Basis,        \* digests of the quantity basis
  MaxSplits,
  None

Session == 1..MaxSession
Signal  == 0..MaxSession

ASSUME CooldownAssumption ==
  /\ CooldownSessions \in Nat
  /\ MaxSession \in Nat
  /\ None \notin Nat

ASSUME RetentionAssumption ==
  /\ Snapshot \subseteq [settled : Nat, buying : Nat, selling : Nat,
                         bounded : Nat, step : Nat \ {0}]
  /\ \A s \in Snapshot : s.selling <= s.settled
  /\ \A e \in Event : /\ Factor[e] \in (Nat \ {0}) \X (Nat \ {0})
                      /\ Factor[e][1] # Factor[e][2]
  /\ MaxSplits \in Nat

VARIABLES
  cooldown,   \* the last cooldown state
  quiet,      \* history: states recorded since the last trigger, or None
  retention,  \* the last retention state
  ceilings    \* history: every ceiling so far, as a fraction, in shares of today

cooldownVars  == <<cooldown, quiet>>
retentionVars == <<retention, ceilings>>
vars          == <<cooldownVars, retentionVars>>

-----------------------------------------------------------------------------
(* The cooldown. *)

Blocked(session) ==
  [session |-> session, remaining |-> CooldownSessions, reentry |-> FALSE, last |-> session]

Unblocked(session) ==
  [session |-> session, remaining |-> 0, reentry |-> TRUE, last |-> None]

Waited(prior, session) ==
  [session |-> session, last |-> prior.last,
   remaining |-> IF prior.remaining > 0 THEN prior.remaining - 1 ELSE 0,
   reentry |-> prior.remaining = 0]

(* Mutant of Advanced: a trigger during a cooldown does not start it again. *)
AdvancedOnce(prior, session, triggered) ==
  IF prior = None THEN IF triggered THEN Blocked(session) ELSE Unblocked(session)
  ELSE IF triggered /\ prior.remaining = 0 THEN Blocked(session)
  ELSE Waited(prior, session)

Advanced(prior, session, triggered) ==
  IF triggered THEN Blocked(session)
  ELSE IF prior = None THEN Unblocked(session)
  ELSE Waited(prior, session)

(* What a predecessor must satisfy to be built upon. *)
CooldownValid(s) ==
  /\ s.remaining \in 0..CooldownSessions
  /\ s.last # None => s.last <= s.session
  /\ s.reentry => s.remaining = 0

Advance(session, triggered) ==
  /\ cooldown # None => CooldownValid(cooldown) /\ session > cooldown.session
  /\ cooldown' = Advanced(cooldown, session, triggered)
  /\ quiet' = IF triggered THEN 0 ELSE IF cooldown = None \/ quiet = None THEN None ELSE quiet + 1
  /\ UNCHANGED retentionVars

-----------------------------------------------------------------------------
(* The ratchet.  An input names its session, the earlier session its       *)
(* signal is from, the basis of its quantities and the account.            *)

Split == [event : Event, previous : Basis]   \* and the factor of the event
Mode  == {"genesis", "migration"}

NoRetention == [mode |-> "none"]

Inputs ==
  {i \in [session : Session, signal : Signal, basis : Basis, account : Snapshot] :
     i.signal < i.session}

Floor(q, step) == q - (q % step)
Outstanding(s) == s.settled + s.buying

Retained(i, ceiling, mode, events) ==
  [session |-> i.session, signal |-> i.signal, basis |-> i.basis, mode |-> mode,
   ceiling |-> Floor(ceiling, i.account.step), step |-> i.account.step,
   outstanding |-> Outstanding(i.account), bounded |-> i.account.bounded,
   reconcile |-> Outstanding(i.account) > Floor(ceiling, i.account.step),
   events |-> events]

(* What a predecessor must satisfy to be built upon. *)
RetentionValid(s) ==
  /\ s.ceiling <= s.outstanding /\ s.ceiling <= s.bounded
  /\ s.ceiling % s.step = 0
  /\ s.mode = "genesis" => s.ceiling = 0
  /\ s.reconcile = (s.outstanding > s.ceiling)
  /\ Cardinality(s.events) <= MaxSplits

(* Mutant of Migrated: an account that migrates keeps what it holds. *)
MigratedWhole(i) == Outstanding(i.account)

Migrated(i) == Min({Outstanding(i.account), i.account.bounded})

(* The history counts a ceiling in the shares of today: once an event is   *)
(* applied, whatever was recorded before is worth its factor in new ones.  *)
Unsplit == <<1, 1>>
InShares(former, factor) == <<former[1] * factor[1], former[2] * factor[2]>>

Records(state, factor) ==
  /\ retention' = state
  /\ ceilings' = {InShares(former, factor) : former \in ceilings} \union {<<state.ceiling, 1>>}
  /\ UNCHANGED cooldownVars

(* A flat account begins with nothing to retain, any other with what it    *)
(* holds within its caps.                                                  *)
Genesis(i) ==
  /\ retention = NoRetention
  /\ Outstanding(i.account) = 0 /\ i.account.selling = 0
  /\ Records(Retained(i, 0, "genesis", {}), Unsplit)

Migration(i) ==
  /\ retention = NoRetention
  /\ Records(Retained(i, Migrated(i), "migration", {}), Unsplit)

Ratcheted(i, ceiling) == Min({ceiling, Outstanding(i.account), i.account.bounded})

Advances(i) ==
  /\ retention # NoRetention /\ RetentionValid(retention)
  /\ i.session > retention.session
  /\ i.signal > retention.signal

Ratchet(i) ==
  /\ Advances(i)
  /\ i.basis = retention.basis
  /\ Records(Retained(i, Ratcheted(i, retention.ceiling), retention.mode, retention.events),
             Unsplit)

(* Mutant of SplitApplies: an event may be applied again on a new basis. *)
SplitAppliesAgain(i, split) ==
  /\ split.previous = retention.basis /\ i.basis # retention.basis
  /\ Cardinality(retention.events) < MaxSplits

(* A split names the basis it leaves, and its event is applied once. *)
SplitApplies(i, split) ==
  /\ split.previous = retention.basis /\ i.basis # retention.basis
  /\ split.event \notin retention.events
  /\ Cardinality(retention.events) < MaxSplits

(* Neither the ceiling nor the account has a fraction of a quantity step. *)
Whole(i, ceiling, factor) ==
  /\ (ceiling * factor[1]) % (factor[2] * i.account.step) = 0
  /\ \A q \in {i.account.settled, i.account.buying, i.account.selling} : q % i.account.step = 0

RatchetSplit(i, split) ==
  LET factor == Factor[split.event] IN
  /\ Advances(i)
  /\ SplitApplies(i, split)
  /\ Whole(i, retention.ceiling, factor)
  /\ Records(Retained(i, Ratcheted(i, (retention.ceiling * factor[1]) \div factor[2]),
                      retention.mode, retention.events \union {split.event}),
             IF split.event \in retention.events THEN Unsplit ELSE factor)

-----------------------------------------------------------------------------
Init ==
  /\ cooldown = None /\ quiet = None
  /\ retention = NoRetention /\ ceilings = {}

Next ==
  \/ \E session \in Session, triggered \in BOOLEAN : Advance(session, triggered)
  \/ \E i \in Inputs :
       \/ Genesis(i) \/ Migration(i) \/ Ratchet(i)
       \/ \E split \in Split : RatchetSplit(i, split)

Spec == Init /\ [][Next]_vars

-----------------------------------------------------------------------------
(* The two states keep their shape; in particular the count of blocked     *)
(* sessions stays within the configured cooldown.                          *)
TypeOK ==
  /\ cooldown = None \/ cooldown \in [session : Session, remaining : 0..CooldownSessions,
                                      reentry : BOOLEAN, last : Session \union {None}]
  /\ quiet \in Nat \union {None}
  /\ \/ retention = NoRetention
     \/ retention \in [session : Session, signal : Signal, basis : Basis, mode : Mode,
                       ceiling : Nat, step : Nat \ {0}, outstanding : Nat, bounded : Nat,
                       reconcile : BOOLEAN, events : SUBSET Event]
  /\ ceilings \subseteq Nat \X (Nat \ {0})

(* "A trigger blocks re-entry in its own session and the configured number *)
(* of following sessions.  A fresh trigger during a cooldown resets that   *)
(* cooldown."  Re-entry is allowed exactly when more sessions than the     *)
(* cooldown were recorded since the last trigger, or there was none: no    *)
(* release early, and no cooldown without an end.                          *)
CooldownExact ==
  cooldown # None =>
    (cooldown.reentry <=> (quiet = None \/ quiet > CooldownSessions))

(* What is recorded can be built upon: the program's own check of a        *)
(* predecessor refuses no state the program recorded, through splits,      *)
(* changes of the quantity step and caps below what is held.  Otherwise    *)
(* the chain would be stuck, as it cannot be initialized again.            *)
NeverSelfBlocked ==
  /\ cooldown # None => CooldownValid(cooldown)
  /\ retention # NoRetention => RetentionValid(retention)

(* No rearm: the retained quantity never exceeds any earlier one, counted  *)
(* in the shares of today, i.e. times the factors of the splits that were  *)
(* applied since, each of them once.  Neither a rising proposal, nor new   *)
(* holdings, nor a finer quantity step gives back what was given up.       *)
NoRearm == \A former \in ceilings : retention.ceiling * former[2] <= former[1]
===============================================================================
