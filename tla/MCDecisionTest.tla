---------------------------- MODULE MCDecisionTest ----------------------------
(* Finite instances of DecisionTest. *)
EXTENDS DecisionTest, TLC

CONSTANTS a1, a2, v1, s1, s2, s3

OneSlot    == <<"arithmetic">>
OneFamily  == [i \in Items |-> "arithmetic"]

\* The sitting that is played is a real one; the earlier one is anybody's.
MCArrivals == [s \in Sessions |-> IF s \in Played THEN {<<v1, FALSE>>}
                                  ELSE Visitors \X BOOLEAN]

ItemSymmetry == Permutations(Items)
=============================================================================
