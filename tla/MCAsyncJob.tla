------------------------------ MODULE MCAsyncJob ------------------------------
(* Two dispatches of one request and a second attempt of the first; a      *)
(* policy, a source object it sizes, and an object of the case.            *)
EXTENDS AsyncJob

Runs == {[id |-> "x", attempt |-> 1], [id |-> "x", attempt |-> 2],
         [id |-> "y", attempt |-> 1]}

Objects == <<"policy", "bars", "case">>
Sizing  == [policy |-> <<1, 1>>, bars |-> <<2, 3>>, case |-> <<1, 2>>]
Sized   == [policy |-> None, bars |-> 2, case |-> None]
===============================================================================
