---------------------------- MODULE MCDeleverState ----------------------------
EXTENDS DeleverState

Account(settled, buying, selling, bounded, step) ==
  [settled |-> settled, buying |-> buying, selling |-> selling,
   bounded |-> bounded, step |-> step]

(* Flat; within the caps; capped, in coarser steps; bought since. *)
Accounts ==
  {Account(0, 0, 0, 6, 1), Account(6, 0, 0, 8, 1), Account(6, 3, 2, 4, 2),
   Account(12, 0, 0, 12, 1)}

Doubling == "doubling"
Halving  == "halving"

SplitFactor == [e \in {Doubling, Halving} |-> IF e = Doubling THEN <<2, 1>> ELSE <<1, 2>>]
===============================================================================
