---------------------------- MODULE MCEventJournal ----------------------------
(* Small scopes for the writers of EventJournal to fight over. *)
EXTENDS EventJournal, TLC

R(i, k, e, n, t, p, s) ==
  [identity |-> i, kind |-> k, event_id |-> e, sequence |-> n,
   observed_at |-> t, previous |-> p, sha |-> s]

A0 == R("a", "INITIALIZE",  "init", 0, 1, "none", "a0")
A1 == R("a", "EVENT",       "e",    1, 1, "a0",   "a1")

(* One identity: competing successors, a seal, a record after the seal, an *)
(* event id that is used again two records later, and a root of the other  *)
(* kind, which may come first or second.                                   *)
ChainRecord ==
  { A0, A1,
    R("a", "MIGRATE_OUT", "move", 2, 2, "a1",   "a11"),
    R("a", "EVENT",       "f",    2, 2, "a1",   "a12"),
    R("a", "EVENT",       "g",    1, 1, "a0",   "a2"),
    R("a", "EVENT",       "g",    3, 2, "a11",  "a111"),
    R("a", "EVENT",       "init", 2, 2, "a1",   "a13"),
    R("a", "MIGRATE_IN",  "in",   0, 1, "none", "m0") }

IdentitiesOf(S) == {r.identity : r \in S}
ShasOf(S)       == {r.sha : r \in S}
EventIdsOf(S)   == {r.event_id : r \in S}

ChainIdentity == IdentitiesOf(ChainRecord)
ChainSha      == ShasOf(ChainRecord)
ChainEventId  == EventIdsOf(ChainRecord)

WriterSymmetry == Permutations(Writer)
===============================================================================
