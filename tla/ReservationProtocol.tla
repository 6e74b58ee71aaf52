------------------------ MODULE ReservationProtocol ------------------------
(***************************************************************************)
(* Several machines that sell their own drinks, reserve drinks at each     *)
(* other for customers who have paid (REQ_PREPAY, RESP_PREPAY), and hand   *)
(* out drinks for codes. Messages are delayed without limit, so also lost, *)
(* and overtake each other. A machine is coarser here than in              *)
(* UserProcessController, where both threads of one machine interleave;    *)
(* how a target is found is the subject of StockInquiry.                   *)
(***************************************************************************)
EXTENDS Integers, Sequences, FiniteSets

CONSTANTS
    Machines,
    Drinks,
    NoDrink,
    Codes,          \* authentication codes
    NoMachine,
    InitialStock,   \* items of each drink at each machine
    Buyers,         \* machines whose customers buy at other machines
    MaxPurchases    \* bound on the number of prepayments

ASSUME ProtocolAssumption ==
    /\ NoMachine \notin Machines
    /\ NoDrink \notin Drinks
    /\ InitialStock \in [Machines -> [Drinks -> 0..99]]
    /\ Buyers \subseteq Machines
    /\ MaxPurchases \in Nat

VARIABLES
    phase,          \* what the machine does for the customer in front of it
    drink,          \* pendingDrinkSelection_
    target,         \* selectedTargetVmForPrepayment_
    order,          \* the purchase in hand (currentActiveOrder_), 0 if none
    stock,
    codes,          \* the purchase a code was recorded for, while ACTIVE, or 0
    net,            \* messages on their way
    purchases,      \* history: approved prepayments, in order
    granted,        \* history: purchases that got an item set aside
    redeemed,       \* history: purchases whose item was given out
    sold,           \* history: items sold at the machine itself
    settledBy       \* history: the purchase whose answer T a purchase took, or 0

customer == <<phase, drink, target, order>>
store == <<stock, codes>>
vars == <<customer, store, net, purchases, granted, redeemed, sold, settledBy>>

Purchases == DOMAIN purchases
NoPurchase == 0

\* A message names no purchase; the field is a history of what caused it.
Request(p) == [type |-> "REQ_PREPAY", src |-> purchases[p].by,
               dst |-> purchases[p].to, drink |-> purchases[p].drink,
               code |-> purchases[p].code, purchase |-> p]

Response(q, ok) == [type |-> "RESP_PREPAY", src |-> q.dst, dst |-> q.src,
                    drink |-> q.drink, available |-> ok, purchase |-> q.purchase]

\* The menu resets the transaction.
ToMenu(m) ==
    /\ phase' = [phase EXCEPT ![m] = "MENU"]
    /\ drink' = [drink EXCEPT ![m] = NoDrink]
    /\ target' = [target EXCEPT ![m] = NoMachine]
    /\ order' = [order EXCEPT ![m] = NoPurchase]

-----------------------------------------------------------------------------
(* The customer in front of a machine *)

\* state_awaitingDrinkSelection, the drink is in stock.
SelectHere(m, d) ==
    /\ phase[m] = "MENU"
    /\ stock[m][d] > 0
    /\ phase' = [phase EXCEPT ![m] = "LOCAL_SALE"]
    /\ drink' = [drink EXCEPT ![m] = d]
    /\ UNCHANGED <<target, order, store, net, purchases, granted, redeemed,
                   sold, settledBy>>

\* It is sold out, and the machines that were asked lead to a target.
SelectElsewhere(m, d, t) ==
    /\ phase[m] = "MENU"
    /\ stock[m][d] = 0
    /\ m \in Buyers
    /\ t # m
    /\ phase' = [phase EXCEPT ![m] = "OFFER"]
    /\ drink' = [drink EXCEPT ![m] = d]
    /\ target' = [target EXCEPT ![m] = t]
    /\ UNCHANGED <<order, store, net, purchases, granted, redeemed, sold,
                   settledBy>>

\* The customer or the card refuses.
Refuse(m) ==
    /\ phase[m] \in {"LOCAL_SALE", "OFFER"}
    /\ ToMenu(m)
    /\ UNCHANGED <<store, net, purchases, granted, redeemed, sold, settledBy>>

\* Mutant of DecreaseStock: the stock is not looked at.
DecreaseUnchecked(m, d) == stock' = [stock EXCEPT ![m][d] = @ - 1]

\* decreaseStock: nothing happens without an item.
DecreaseStock(m, d) ==
    stock' = [stock EXCEPT ![m][d] = IF @ > 0 THEN @ - 1 ELSE @]

\* The payment of a local sale is approved, and the drink leaves.
PayHere(m) ==
    /\ phase[m] = "LOCAL_SALE"
    /\ DecreaseStock(m, drink[m])
    /\ sold' = [sold EXCEPT ![m][drink[m]] = @ + 1]
    /\ ToMenu(m)
    /\ UNCHANGED <<codes, net, purchases, granted, redeemed, settledBy>>

\* The payment of a prepayment is approved, and a code is drawn.
PayElsewhere(m, c) ==
    /\ phase[m] = "OFFER"
    /\ Len(purchases) < MaxPurchases
    /\ purchases' = Append(purchases, [by |-> m, to |-> target[m],
                                       drink |-> drink[m], code |-> c])
    /\ settledBy' = Append(settledBy, NoPurchase)
    /\ order' = [order EXCEPT ![m] = Len(purchases) + 1]
    /\ phase' = [phase EXCEPT ![m] = "ISSUING"]
    /\ UNCHANGED <<drink, target, store, net, granted, redeemed, sold>>

\* sendPrepaymentReservationRequest. Whether it arrives nobody learns.
SendRequest(m) ==
    /\ phase[m] = "ISSUING"
    /\ phase' = [phase EXCEPT ![m] = "WAITING"]
    /\ net' = net \cup {Request(order[m])}
    /\ UNCHANGED <<drink, target, order, store, purchases, granted, redeemed,
                   sold, settledBy>>

\* currentState_ is ISSUING_AUTH_CODE_AND_REQUESTING_RESERVATION.
Issuing(m) == phase[m] \in {"ISSUING", "WAITING"}

\* The timer of this wait, or a handler of an earlier one that was queued.
TimeOut(m) ==
    /\ Issuing(m)
    /\ ToMenu(m)
    /\ UNCHANGED <<store, net, purchases, granted, redeemed, sold, settledBy>>

\* A late RESP_STOCK completes the list of an inquiry, this customer's or an
\* earlier one's: the controller is back at the options, whatever it was to do
\* with the drink.
BackToOptions(m, t) ==
    /\ Issuing(m) \/ phase[m] \in {"OFFER", "AUTH_CODE", "REDEEMING"}
    /\ stock[m][drink[m]] = 0
    /\ m \in Buyers
    /\ t # m
    /\ phase' = [phase EXCEPT ![m] = "OFFER"]
    /\ target' = [target EXCEPT ![m] = t]
    /\ order' = [order EXCEPT ![m] = NoPurchase]
    /\ UNCHANGED <<drink, store, net, purchases, granted, redeemed, sold,
                   settledBy>>

\* state_displayingAuthCodeInfo.
ShowCode(m) ==
    /\ phase[m] = "AUTH_CODE"
    /\ ToMenu(m)
    /\ UNCHANGED <<store, net, purchases, granted, redeemed, sold, settledBy>>

\* state_awaitingAuthCodeInputPrompt finds an ACTIVE code.
EnterCode(m, c) ==
    /\ phase[m] = "MENU"
    /\ codes[m][c] # NoPurchase
    /\ phase' = [phase EXCEPT ![m] = "REDEEMING"]
    /\ order' = [order EXCEPT ![m] = codes[m][c]]
    /\ drink' = [drink EXCEPT ![m] = purchases[codes[m][c]].drink]
    /\ UNCHANGED <<target, store, net, purchases, granted, redeemed,
                   sold, settledBy>>

\* Mutant of MarkUsed: the code stays ACTIVE.
MarkNothing(m, c) == codes' = [codes EXCEPT ![m][c] = @]

\* changeAuthCodeStatusToUsed: whatever the code is recorded for by now.
MarkUsed(m, c) == codes' = [codes EXCEPT ![m][c] = NoPurchase]

\* state_dispensingDrink, seconds later.
DispenseReserved(m) ==
    /\ phase[m] = "REDEEMING"
    /\ redeemed' = redeemed \cup {order[m]}
    /\ MarkUsed(m, purchases[order[m]].code)
    /\ ToMenu(m)
    /\ UNCHANGED <<stock, net, purchases, granted, sold, settledBy>>

-----------------------------------------------------------------------------
(* Handlers *)

\* Mutant of OnReqPrepayReceived: the code is recorded, the stock is not reduced.
RecordWithoutItem(q) ==
    /\ q.type = "REQ_PREPAY"
    /\ LET ok == stock[q.dst][q.drink] >= 1
       IN  /\ net' = (net \ {q}) \cup {Response(q, ok)}
           /\ IF ok
              THEN /\ codes' = [codes EXCEPT ![q.dst][q.code] = q.purchase]
                   /\ granted' = granted \cup {q.purchase}
              ELSE UNCHANGED <<codes, granted>>
    /\ UNCHANGED <<customer, stock, purchases, redeemed, sold, settledBy>>

\* onReqPrepayReceived: an item is set aside under the code, if there is one.
OnReqPrepayReceived(q) ==
    /\ q.type = "REQ_PREPAY"
    /\ LET ok == stock[q.dst][q.drink] >= 1
       IN  /\ net' = (net \ {q}) \cup {Response(q, ok)}
           /\ IF ok
              THEN /\ DecreaseStock(q.dst, q.drink)
                   /\ codes' = [codes EXCEPT ![q.dst][q.code] = q.purchase]
                   /\ granted' = granted \cup {q.purchase}
              ELSE UNCHANGED <<stock, codes, granted>>
    /\ UNCHANGED <<customer, purchases, redeemed, sold, settledBy>>

\* Mutant of Matches: the sender is not compared.
MatchesDrink(m, a) == drink[m] = a.drink

\* The answer is for the drink and from the machine of the order in hand. It
\* does not say for which code.
Matches(m, a) == drink[m] = a.drink /\ target[m] = a.src

\* Mutant of OnRespPrepayReceived: the availability is not looked at.
TakeAnyAnswer(a) ==
    /\ a.type = "RESP_PREPAY"
    /\ net' = net \ {a}
    /\ LET m == a.dst
       IN  \/ /\ Issuing(m) /\ Matches(m, a)
              /\ phase' = [phase EXCEPT ![m] = "AUTH_CODE"]
              /\ settledBy' = [settledBy EXCEPT ![order[m]] = a.purchase]
              /\ UNCHANGED <<drink, target, order>>
           \/ /\ Issuing(m) /\ ~Matches(m, a)
              /\ ToMenu(m)
              /\ UNCHANGED settledBy
           \/ /\ ~Issuing(m)
              /\ UNCHANGED <<customer, settledBy>>
    /\ UNCHANGED <<store, purchases, granted, redeemed, sold>>

\* onRespPrepayReceived: T leads to the code, F or a mismatch to an error and
\* the menu; in any other state the answer is dropped.
OnRespPrepayReceived(a) ==
    /\ a.type = "RESP_PREPAY"
    /\ net' = net \ {a}
    /\ LET m == a.dst
       IN  \/ /\ Issuing(m) /\ Matches(m, a) /\ a.available
              /\ phase' = [phase EXCEPT ![m] = "AUTH_CODE"]
              /\ settledBy' = [settledBy EXCEPT ![order[m]] = a.purchase]
              /\ UNCHANGED <<drink, target, order>>
           \/ /\ Issuing(m) /\ ~(Matches(m, a) /\ a.available)
              /\ ToMenu(m)
              /\ UNCHANGED settledBy
           \/ /\ ~Issuing(m)
              /\ UNCHANGED <<customer, settledBy>>
    /\ UNCHANGED <<store, purchases, granted, redeemed, sold>>

-----------------------------------------------------------------------------

Init ==
    /\ phase = [m \in Machines |-> "MENU"]
    /\ drink = [m \in Machines |-> NoDrink]
    /\ target = [m \in Machines |-> NoMachine]
    /\ order = [m \in Machines |-> NoPurchase]
    /\ stock = InitialStock
    /\ codes = [m \in Machines |-> [c \in Codes |-> NoPurchase]]
    /\ net = {}
    /\ purchases = <<>>
    /\ granted = {}
    /\ redeemed = {}
    /\ sold = [m \in Machines |-> [d \in Drinks |-> 0]]
    /\ settledBy = <<>>

Customer(m) ==
    \/ \E d \in Drinks : SelectHere(m, d)
    \/ \E d \in Drinks, t \in Machines : SelectElsewhere(m, d, t)
    \/ Refuse(m)
    \/ PayHere(m)
    \/ \E c \in Codes : PayElsewhere(m, c)
    \/ SendRequest(m)
    \/ TimeOut(m)
    \/ \E t \in Machines : BackToOptions(m, t)
    \/ ShowCode(m)
    \/ \E c \in Codes : EnterCode(m, c)
    \/ DispenseReserved(m)

Handler == \E msg \in net : OnReqPrepayReceived(msg) \/ OnRespPrepayReceived(msg)

Next == (\E m \in Machines : Customer(m)) \/ Handler

Spec == Init /\ [][Next]_vars

-----------------------------------------------------------------------------
(* Properties *)

Phases == {"MENU", "LOCAL_SALE", "OFFER", "ISSUING", "WAITING", "AUTH_CODE",
           "REDEEMING"}

Messages ==
    [type : {"REQ_PREPAY"}, src : Machines, dst : Machines, drink : Drinks,
     code : Codes, purchase : Nat]
    \cup [type : {"RESP_PREPAY"}, src : Machines, dst : Machines, drink : Drinks,
          available : BOOLEAN, purchase : Nat]

\* Types; a history names purchases there have been.
TypeOK ==
    /\ phase \in [Machines -> Phases]
    /\ drink \in [Machines -> Drinks \cup {NoDrink}]
    /\ target \in [Machines -> Machines \cup {NoMachine}]
    /\ order \in [Machines -> 0..Len(purchases)]
    /\ stock \in [Machines -> [Drinks -> 0..99]]
    /\ codes \in [Machines -> [Codes -> 0..Len(purchases)]]
    /\ net \subseteq Messages
    /\ purchases \in Seq([by : Machines, to : Machines, drink : Drinks, code : Codes])
    /\ granted \subseteq Purchases
    /\ redeemed \subseteq Purchases
    /\ sold \in [Machines -> [Drinks -> Nat]]
    /\ settledBy \in [Purchases -> 0..Len(purchases)]

\* A drink leaves for a code only if a machine was paid for it, the drink was
\* set aside here for that payment, and it has not left before: although a code
\* may be drawn twice, and replaced between its check and its mark.
RedemptionIsPaid ==
    \A m \in Machines : phase[m] = "REDEEMING" =>
        /\ order[m] \in granted \ redeemed
        /\ purchases[order[m]].to = m

Alike(p, q) ==
    /\ purchases[p].by = purchases[q].by
    /\ purchases[p].to = purchases[q].to
    /\ purchases[p].drink = purchases[q].drink

\* No code was shown for it, and nobody waits for its answer any more.
GivenUp(p) ==
    /\ settledBy[p] = NoPurchase
    /\ \A m \in Machines : Issuing(m) => order[m] # p

\* Every code that is shown rests on an item that the target set aside for the
\* machine that shows it, and no two on the same one: lost, late and crossed
\* answers may leave an item nobody fetches, never fewer items than codes.
ShownHasItsOwnItem ==
    \A p \in Purchases : settledBy[p] # NoPurchase =>
        LET g == settledBy[p]
        IN  /\ g \in granted
            /\ Alike(g, p)
            /\ \A r \in Purchases : settledBy[r] = g => r = p

\* A code is shown on the answer to another purchase only after the machine
\* gave up an earlier purchase of the same drink from the same target: a late
\* answer misleads the next customer, and its own answer perhaps the next.
OnlyAbandonedAnswersMislead ==
    \A p \in Purchases : settledBy[p] \notin {NoPurchase, p} =>
        \E q \in 1..p - 1 : Alike(q, p) /\ GivenUp(q)

-----------------------------------------------------------------------------
(* What the machines implement *)

Aside(m, d) == {p \in granted \ redeemed : purchases[p].to = m /\ purchases[p].drink = d}
HandedOver(m, d) == {p \in redeemed : purchases[p].to = m /\ purchases[p].drink = d}

\* Items that left machine m: sold there, or handed over for a code.
AsideOf == [m \in Machines |-> [d \in Drinks |-> Cardinality(Aside(m, d))]]
GivenOf == [m \in Machines |->
               [d \in Drinks |-> sold[m][d] + Cardinality(HandedOver(m, d))]]

Ledger == INSTANCE ReservationLedger WITH
    inStock <- stock, aside <- AsideOf, given <- GivenOf

\* The items of all machines follow the ledger.
FollowsLedger == Ledger!Spec
=============================================================================
