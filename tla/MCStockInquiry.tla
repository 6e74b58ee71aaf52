--------------------------- MODULE MCStockInquiry ---------------------------
(***************************************************************************)
(* A table of two machines for TLC. As text their ids order the other way  *)
(* round than by their numbers; each is at one of two distances.           *)
(***************************************************************************)
EXTENDS StockInquiry, TLC

CONSTANTS T2, T10

MCTable == <<T2, T10>>
Here == <<1, 1>>
NearAndFar == {<<2, 2>>, <<1, 3>>}
Numbers == (T2 :> 2) @@ (T10 :> 10)
Texts == (T10 :> 1) @@ (T2 :> 2)
AllInStock == [m \in Others |-> Drinks]
=============================================================================
