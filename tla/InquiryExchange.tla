-------------------------- MODULE InquiryExchange --------------------------
(***************************************************************************)
(* What sender and receiver promise of the search for a drink: inquiry     *)
(* after inquiry, a machine is asked at most once, answers at most once    *)
(* and only when asked, and every answer is handled once. Only requests    *)
(* get lost.                                                               *)
(***************************************************************************)
EXTENDS Integers

CONSTANTS Machines, Inquiries

VARIABLE exchange \* how far inquiry k has come with machine m

Stages == {"open", "asked", "answered", "over"}

Init == exchange = [k \in Inquiries |-> [m \in Machines |-> "open"]]

\* Later inquiries have not begun.
Ask(k, m) ==
    /\ exchange[k][m] = "open"
    /\ \A j \in Inquiries, n \in Machines : j > k => exchange[j][n] = "open"
    /\ exchange' = [exchange EXCEPT ![k][m] = "asked"]

Answer(k, m) ==
    /\ exchange[k][m] = "asked"
    /\ exchange' = [exchange EXCEPT ![k][m] = "answered"]

Receive(k, m) ==
    /\ exchange[k][m] = "answered"
    /\ exchange' = [exchange EXCEPT ![k][m] = "over"]

\* Machines stop with the requests they have, and inquiries pass machines over.
Lose ==
    /\ exchange' \in [Inquiries -> [Machines -> Stages]]
    /\ \A k \in Inquiries, m \in Machines :
          exchange'[k][m] # exchange[k][m] =>
              exchange[k][m] \in {"open", "asked"} /\ exchange'[k][m] = "over"

Next ==
    \/ Lose
    \/ \E k \in Inquiries, m \in Machines : Ask(k, m) \/ Answer(k, m) \/ Receive(k, m)

Spec == Init /\ [][Next]_exchange
=============================================================================
