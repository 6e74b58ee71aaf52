----------------------- MODULE MCReservationProtocol -----------------------
(***************************************************************************)
(* A buys at B, which has nothing, and at C, which has two items and       *)
(* buys, too, when it has sold them.                                       *)
(***************************************************************************)
EXTENDS ReservationProtocol, TLC

CONSTANTS A, B, C, d1

TwoItems == (A :> (d1 :> 0)) @@ (B :> (d1 :> 0)) @@ (C :> (d1 :> 2))

Symmetry == Permutations(Codes)
=============================================================================
