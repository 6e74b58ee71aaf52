------------------------- MODULE ReservationLedger -------------------------
(***************************************************************************)
(* What reservations promise of the items of every machine: an item is in  *)
(* stock, set aside for a machine that asked for it, or given out, and     *)
(* only items that are there are set aside. What the code adds: a local    *)
(* sale may find the last item gone, once per machine and drink.           *)
(***************************************************************************)
EXTENDS Naturals

CONSTANTS Machines, Drinks, InitialStock

VARIABLES inStock, aside, given

Init ==
    /\ inStock = InitialStock
    /\ aside = [m \in Machines |-> [d \in Drinks |-> 0]]
    /\ given = [m \in Machines |-> [d \in Drinks |-> 0]]

SetAside(m, d) ==
    /\ inStock[m][d] > 0
    /\ inStock' = [inStock EXCEPT ![m][d] = @ - 1]
    /\ aside' = [aside EXCEPT ![m][d] = @ + 1]
    /\ UNCHANGED given

HandOver(m, d) ==
    /\ aside[m][d] > 0
    /\ aside' = [aside EXCEPT ![m][d] = @ - 1]
    /\ given' = [given EXCEPT ![m][d] = @ + 1]
    /\ UNCHANGED inStock

Sell(m, d) ==
    /\ inStock[m][d] > 0
    /\ inStock' = [inStock EXCEPT ![m][d] = @ - 1]
    /\ given' = [given EXCEPT ![m][d] = @ + 1]
    /\ UNCHANGED aside

\* A sale without an item: the accounts were even, and no item is left.
SellShort(m, d) ==
    /\ inStock[m][d] = 0
    /\ aside[m][d] + given[m][d] = InitialStock[m][d]
    /\ given' = [given EXCEPT ![m][d] = @ + 1]
    /\ UNCHANGED <<inStock, aside>>

Next == \E m \in Machines, d \in Drinks :
            SetAside(m, d) \/ HandOver(m, d) \/ Sell(m, d) \/ SellShort(m, d)

Spec == Init /\ [][Next]_<<inStock, aside, given>>
=============================================================================
