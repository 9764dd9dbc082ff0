--------------------------- MODULE MCIntradayState ---------------------------
(* A scope with three policies in turn, and deliveries that trip, repeat an *)
(* identifier with other content, and arrive late.                         *)
EXTENDS IntradayState, TLC

D(e, at, trip, peak, draft) ==
  [id |-> <<"event", e>>, at |-> at, trip |-> trip, peak |-> peak, draft |-> draft]

Clear   == D("e", 1, FALSE, 1, TRUE)
Changed == D("e", 2, TRUE,  1, FALSE)
Trip    == D("f", 2, TRUE,  2, TRUE)

AllDeliveries == {Clear, Changed, Trip}
OneDelivery   == {Trip}

MCEventId ==
  {<<"init", open>> : open \in BOOLEAN} \union {<<"event", e>> : e \in {"e", "f"}}
    \union {<<"handoff", j, n>> : j \in Identity, n \in 0..2}

MCRecord ==
  [identity: Identity, kind: Kinds, event_id: MCEventId, sequence: 0..3,
   observed_at: 0..2, previous: Sha \union {NoSha}, sha: Sha,
   state: [open: BOOLEAN, peak: 1..2],
   cause: [initial: [open: BOOLEAN, peak: 1..2]] \union Delivery
            \union [source: Identity, destination: Identity, head: Sha]]

MCSha == Identity \X (0..3) \X MCEventId

CallSymmetry == Permutations(Call)
===============================================================================
