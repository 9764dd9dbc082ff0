-------------------------- MODULE MCDailyRiskState --------------------------
(* Three sessions, the first with two competing observations. *)
EXTENDS DailyRiskState

D(f, s, trip, draft) == [fingerprint |-> f, session |-> s, trip |-> trip, draft |-> draft]

ThreeSessions ==
  { D("calm", 1, FALSE, TRUE), D("trip", 1, TRUE, FALSE),
    D("next", 2, FALSE, TRUE), D("last", 3, FALSE, TRUE) }
=============================================================================
