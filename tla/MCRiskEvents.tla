----------------------------- MODULE MCRiskEvents -----------------------------
(* Two policies with two levels, and days of an account with one sleeve.    *)
EXTENDS RiskEvents, TLC

MCUnit == 100

L(stop, trail, daily, fall, sessions, fraction, share, mdd, cvar, vol) ==
  [stop_loss_ratio |-> stop, trailing_stop_ratio |-> trail,
   breaker_daily_loss |-> daily, breaker_drawdown |-> fall,
   resume_observation_sessions |-> sessions,
   resume_daily_loss_fraction_of_trigger |-> fraction,
   resume_cvar_vol_fraction_of_limit |-> share,
   max_drawdown_tolerance |-> mdd, daily_cvar95_loss_limit |-> cvar,
   target_annual_volatility |-> vol]

Catalogue ==
  [p |-> [conservative |-> L(5, 8, 2, 6, 6, 40, 70, 8, 3, 12),
          growth       |-> L(10, 15, 4, 12, 5, 50, 80, 15, 5, 20)],
   q |-> [conservative |-> L(4, 20, 3, 5, 6, 50, 80, 5, 4, 10),
          growth       |-> L(12, 18, 6, 20, 5, 50, 60, 25, 8, 25)]]

MCThresholds == [p \in Policy |-> [l \in Level |-> Catalogue[p][l]]]

MCOverride ==
  {<<>>, [stop_loss_ratio |-> 3, breaker_daily_loss |-> 1],
   [trailing_stop_ratio |-> 40, resume_observation_sessions |-> 6]}

Cash == [c \in Cycle |-> None]

Lot(entry, net, high) == [c \in Cycle |-> [entry |-> entry, net |-> net, high |-> high]]

O(start, nav, flow, index, peak, cvar, vol, held, verified) ==
  [start |-> start, nav |-> nav, flow |-> flow, index |-> index, peak |-> peak,
   cvar |-> <<cvar, Unit>>, volatility |-> <<vol, Unit>>, held |-> held,
   verified |-> verified]

Calm     == O(100, 100,  0, 100, 100, 1,  5, Cash, TRUE)
Doubtful == O(100, 100,  0, 100, 100, 1,  5, Cash, FALSE)
PaidOut  == O(100,  90, -10, 97, 100, 1, 16, Cash, TRUE)
Dip      == O(100,  99,  0,  99, 100, 2, 12, Lot(50, 48, 56), TRUE)
Slide    == O(100,  95,  0,  93, 100, 4, 18, Lot(50, 46, 56), TRUE)
Grown    == O(110, 112,  0, 112, 112, 1,  8, Lot(50, 58, 58), TRUE)

AllObservations == {Calm, Doubtful, PaidOut, Dip, Slide, Grown}

R(daily, cvar, vol, fall, verified) ==
  [metrics |-> [daily_loss |-> <<daily, 10 * Unit>>, daily_cvar95_loss |-> <<cvar, Unit>>,
                annual_volatility |-> <<vol, Unit>>, drawdown |-> <<fall, Unit>>],
   verified |-> verified]

Quiet  == R(5, 1, 5, 1, TRUE)
Rough  == R(15, 2, 9, 2, TRUE)
Gap    == R(5, 1, 5, 1, FALSE)

NewScope == [open |-> FALSE, trigger |-> None, since |-> None, latched |-> None,
             peak |-> 100, sleeves |-> Cash]

OldScope == [open |-> TRUE, trigger |-> 3, since |-> 1,
             latched |-> L(6, 9, 2, 8, 5, 50, 80, 10, 4, 15), peak |-> 100,
             sleeves |-> [c \in Cycle |-> [entry |-> 50, peak |-> 51, stop |-> 7, trailing |-> 9]]]

Yesterday(s) == [risk_state |-> s, session |-> 0, start |-> 100]
Today(s)     == [risk_state |-> s, session |-> 1, start |-> 100]

BothScopes   == {Yesterday(NewScope), Today(OldScope)}
QuietOnly    == {Quiet}

(* Recovery: quiet and rough days, and one that trips the breaker: a loss   *)
(* of the account, or of one sleeve.                                        *)
Plunge == O(100, 90, 0, 90, 100, 1, 5, Cash, TRUE)
Struck == O(100, 98, 0, 98, 100, 1, 5, Lot(50, 40, 52), TRUE)

CalmAndPlunge == {Calm, Plunge}
CalmAndStruck == {Calm, Struck}
QuietAndRough == {Quiet, Rough}
AllRows       == {Quiet, Rough, Gap}
OneOverride   == {<<>>, [resume_observation_sessions |-> 5, breaker_drawdown |-> 8]}
NewScopeOnly  == {Yesterday(NewScope)}
===============================================================================
