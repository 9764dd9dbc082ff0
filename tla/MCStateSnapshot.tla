--------------------------- MODULE MCStateSnapshot ---------------------------
(* Identity "a" is sealed and migrates to "b"; callers of the target may   *)
(* start "b" as a scope of its own or continue it differently.             *)
EXTENDS StateSnapshot

R(i, k, e, n, t, p, s) ==
  [identity |-> i, kind |-> k, event_id |-> e, sequence |-> n,
   observed_at |-> t, previous |-> p, sha |-> s]

Records ==
  { R("a", "INITIALIZE",  "init", 0, 1, "none", "a0"),
    R("a", "MIGRATE_OUT", "move", 1, 1, "a0",   "a1"),
    R("b", "MIGRATE_IN",  "move", 0, 1, "none", "b0"),
    R("b", "EVENT",       "e",    1, 1, "b0",   "b1"),
    R("b", "INITIALIZE",  "init", 0, 1, "none", "c0") }

Identities == {r.identity : r \in Records}
Shas       == {r.sha : r \in Records}
EventIds   == {r.event_id : r \in Records}
Heads      == {r \in Records : r.sha \in {"b0", "b1"}}
Strays     == {r \in Records : r.sha \in {"b0", "b1", "c0"}}
Move(r)    == CHOOSE s \in Seals(Records) : s.event_id = r.event_id
Terminals  == [r \in Imports(Records) |-> Move(r)]
===============================================================================
