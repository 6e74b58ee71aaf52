----------------------- MODULE MCUserProcessController -----------------------
(* Values of the constants of UserProcessController for the model checker. *)
EXTENDS UserProcessController, TLC

CONSTANTS d1, d2

\* One drink with a single item left, one sold out: local sales race with
\* reservations for the item, prepayments are for the other drink.
LastItemAndSoldOut == (d1 :> 1) @@ (d2 :> 0)
LastItem == d1 :> 1
SoldOut  == d1 :> 0
Few      == d1 :> 3

Symmetry == Permutations(Peers) \cup Permutations(AuthCodes)
=============================================================================
