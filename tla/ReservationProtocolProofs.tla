--------------------- MODULE ReservationProtocolProofs ---------------------
(***************************************************************************)
(* Proofs about ReservationProtocol, for any number of machines, drinks,   *)
(* codes, items and purchases.                                             *)
(***************************************************************************)
EXTENDS ReservationProtocol, SequenceTheorems, TLAPS

PurchaseRecords == [by : Machines, to : Machines, drink : Drinks, code : Codes]

PaidFor == {"ISSUING", "WAITING", "AUTH_CODE"}

\* What the phase of a machine rests on. An order that is paid is the machine's
\* latest, and a request that has not been sent has had no effect.
MachineOK(m) ==
    /\ phase[m] # "MENU" => drink[m] \in Drinks
    /\ phase[m] \in {"OFFER"} \cup PaidFor => target[m] \in Machines
    /\ phase[m] \in PaidFor =>
          /\ order[m] \in Purchases
          /\ purchases[order[m]].by = m
          /\ purchases[order[m]].to = target[m]
          /\ purchases[order[m]].drink = drink[m]
          /\ \A q \in Purchases : purchases[q].by = m => q <= order[m]
    /\ Issuing(m) => settledBy[order[m]] = NoPurchase
    /\ phase[m] = "ISSUING" =>
          order[m] \notin granted /\ \A msg \in net : msg.purchase # order[m]
    /\ phase[m] = "REDEEMING" =>
          order[m] \in granted \ redeemed /\ purchases[order[m]].to = m

\* What a message says is so; a T that is under way has confirmed nothing yet.
MessageOK(msg) ==
    /\ msg.purchase \in Purchases
    /\ purchases[msg.purchase].drink = msg.drink
    /\ msg.type = "REQ_PREPAY" =>
          /\ purchases[msg.purchase].by = msg.src
          /\ purchases[msg.purchase].to = msg.dst
          /\ purchases[msg.purchase].code = msg.code
          /\ msg.purchase \notin granted
          /\ \A r \in Purchases : settledBy[r] # msg.purchase
    /\ msg.type = "RESP_PREPAY" =>
          /\ purchases[msg.purchase].by = msg.dst
          /\ purchases[msg.purchase].to = msg.src
          /\ msg.available => /\ msg.purchase \in granted
                              /\ \A r \in Purchases : settledBy[r] # msg.purchase

\* A purchase has one message under way at most.
NetOK ==
    /\ \A msg \in net : MessageOK(msg)
    /\ \A msg, other \in net : msg.purchase = other.purchase => msg = other

\* An ACTIVE code stands for a purchase that has its item, at its target.
CodesOK ==
    \A m \in Machines, c \in Codes : codes[m][c] # NoPurchase =>
        /\ codes[m][c] \in granted \ redeemed
        /\ purchases[codes[m][c]].to = m
        /\ purchases[codes[m][c]].code = c

\* The inductive invariant.
Inv ==
    /\ \A m \in Machines : MachineOK(m)
    /\ NetOK
    /\ CodesOK
    /\ redeemed \subseteq granted
    /\ ShownHasItsOwnItem
    /\ OnlyAbandonedAnswersMislead

-----------------------------------------------------------------------------
(* Types *)

\* The histories as functions.
LEMMA HistoryShape ==
    ASSUME TypeOK
    PROVE  /\ Len(purchases) \in Nat
           /\ Purchases = 1..Len(purchases)
           /\ purchases \in Seq(PurchaseRecords)
           /\ \A p \in Purchases : purchases[p] \in PurchaseRecords
           /\ settledBy \in [1..Len(purchases) -> 0..Len(purchases)]
           /\ \A p \in Purchases : settledBy[p] \in Nat
<1>1. purchases \in Seq(PurchaseRecords)
  BY DEF TypeOK, PurchaseRecords
<1>2. Len(purchases) \in Nat /\ Purchases = 1..Len(purchases)
  BY <1>1, LenProperties DEF Purchases
<1>3. \A p \in Purchases : purchases[p] \in PurchaseRecords
  BY <1>1, <1>2, ElementOfSeq
<1>4. settledBy \in [1..Len(purchases) -> 0..Len(purchases)]
  BY <1>2 DEF TypeOK
<1> QED
  BY <1>1, <1>2, <1>3, <1>4

\* The histories after a payment.
LEMMA PurchasesGrow ==
    ASSUME TypeOK, NEW m \in Machines, NEW c \in Codes, PayElsewhere(m, c),
           MachineOK(m)
    PROVE  /\ Len(purchases') = Len(purchases) + 1
           /\ Purchases' = Purchases \cup {Len(purchases) + 1}
           /\ \A p \in Purchases : purchases'[p] = purchases[p] /\ settledBy'[p] = settledBy[p]
           /\ purchases'[Len(purchases) + 1] =
                 [by |-> m, to |-> target[m], drink |-> drink[m], code |-> c]
           /\ settledBy'[Len(purchases) + 1] = NoPurchase
           /\ purchases' \in Seq(PurchaseRecords)
           /\ settledBy' \in [Purchases' -> 0..Len(purchases')]
<1> DEFINE n == Len(purchases)
           r == [by |-> m, to |-> target[m], drink |-> drink[m], code |-> c]
<1>1. n \in Nat /\ Purchases = 1..n /\ purchases \in Seq(PurchaseRecords)
      /\ settledBy \in [1..n -> 0..n + 1]
  BY HistoryShape
<1>2. r \in PurchaseRecords
  BY DEF PayElsewhere, MachineOK, PurchaseRecords
<1>3. purchases' = Append(purchases, r) /\ settledBy' = Append(settledBy, NoPurchase)
  BY DEF PayElsewhere
<1> HIDE DEF r
<1>4. /\ purchases' \in Seq(PurchaseRecords) /\ Len(purchases') = n + 1
      /\ \A p \in 1..n : purchases'[p] = purchases[p]
      /\ purchases'[n + 1] = r
  BY <1>1, <1>2, <1>3, AppendProperties
<1>5. Purchases' = 1..n + 1
  BY <1>1, <1>4 DEF Purchases
<1>6. /\ settledBy' \in [1..n + 1 -> 0..n + 1]
      /\ \A p \in 1..n : settledBy'[p] = settledBy[p]
      /\ settledBy'[n + 1] = NoPurchase
  <2> DEFINE S == 0..n + 1
  <2>1. n \in Nat /\ settledBy \in [1..n -> S] /\ NoPurchase \in S
    BY <1>1 DEF NoPurchase
  <2>2. settledBy \in Seq(S) /\ Len(settledBy) = n
    <3> HIDE DEF n, S
    <3> QED
      BY <2>1, IsASeq
  <2>3. /\ settledBy' \in Seq(S) /\ Len(settledBy') = n + 1
        /\ \A i \in 1..n : settledBy'[i] = settledBy[i]
        /\ settledBy'[n + 1] = NoPurchase
    <3> HIDE DEF n, S
    <3> QED
      BY <1>3, <2>1, <2>2, AppendProperties
  <2>4. settledBy' \in [1..n + 1 -> S]
    <3> HIDE DEF n, S
    <3> QED
      BY <2>3, LenProperties
  <2> QED
    BY <2>3, <2>4
<1> QED
  BY <1>1, <1>4, <1>5, <1>6 DEF r

\* The fields of a message.
LEMMA MessageTypes ==
    ASSUME TypeOK, NEW msg \in net
    PROVE  /\ msg.type \in {"REQ_PREPAY", "RESP_PREPAY"}
           /\ msg.src \in Machines /\ msg.dst \in Machines
           /\ msg.drink \in Drinks /\ msg.purchase \in Nat
           /\ msg.type = "REQ_PREPAY" => msg.code \in Codes
           /\ msg.type = "RESP_PREPAY" => msg.available \in BOOLEAN
BY DEF TypeOK, Messages

\* The return to the menu keeps the types.
LEMMA ToMenuTypes ==
    ASSUME TypeOK, NEW m \in Machines, ToMenu(m)
    PROVE  /\ phase' \in [Machines -> Phases]
           /\ drink' \in [Machines -> Drinks \cup {NoDrink}]
           /\ target' \in [Machines -> Machines \cup {NoMachine}]
           /\ order' \in [Machines -> 0..Len(purchases)]
BY HistoryShape DEF TypeOK, ToMenu, Phases, NoPurchase

\* Taking an item keeps the stock within its bounds.
LEMMA DecreaseStockTypes ==
    ASSUME TypeOK, NEW m \in Machines, NEW d \in Drinks, DecreaseStock(m, d)
    PROVE  /\ stock' \in [Machines -> [Drinks -> 0..99]]
           /\ stock'[m][d] = IF stock[m][d] > 0 THEN stock[m][d] - 1 ELSE stock[m][d]
           /\ \A n \in Machines, e \in Drinks :
                 <<n, e>> # <<m, d>> => stock'[n][e] = stock[n][e]
<1>1. stock \in [Machines -> [Drinks -> 0..99]] /\ stock[m] \in [Drinks -> 0..99]
      /\ stock[m][d] \in 0..99
  BY DEF TypeOK
<1>2. stock' = [stock EXCEPT ![m] = [stock[m] EXCEPT ![d] =
                    IF stock[m][d] > 0 THEN stock[m][d] - 1 ELSE stock[m][d]]]
  BY DEF DecreaseStock
<1> QED
  BY <1>1, <1>2

\* Types in the initial state.
LEMMA TypeInit == Init => TypeOK
<1> SUFFICES ASSUME Init PROVE TypeOK
  OBVIOUS
<1>1. purchases = <<>> /\ Len(purchases) = 0 /\ Purchases = {} /\ settledBy \in [Purchases -> 0..Len(purchases)]
  BY DEF Init, Purchases
<1>2. purchases \in Seq([by : Machines, to : Machines, drink : Drinks, code : Codes])
  BY <1>1
<1>3. stock \in [Machines -> [Drinks -> 0..99]]
  BY ProtocolAssumption DEF Init
<1> QED
  BY <1>1, <1>2, <1>3 DEF Init, TypeOK, Phases, NoPurchase

\* A step of the customer in front of a machine keeps the types.
LEMMA CustomerTypes ==
    ASSUME TypeOK, NEW m \in Machines, MachineOK(m), CodesOK, Customer(m)
    PROVE  TypeOK'
<1> USE HistoryShape
<1>1. ASSUME NEW d \in Drinks, SelectHere(m, d) PROVE TypeOK'
  BY <1>1 DEF TypeOK, SelectHere, store, Purchases, Phases
<1>2. ASSUME NEW d \in Drinks, NEW t \in Machines, SelectElsewhere(m, d, t) PROVE TypeOK'
  BY <1>2 DEF TypeOK, SelectElsewhere, store, Purchases, Phases
<1>3. CASE Refuse(m)
  BY <1>3, ToMenuTypes DEF TypeOK, Refuse, store, Purchases
<1>4. CASE PayHere(m)
  <2>1. drink[m] \in Drinks /\ DecreaseStock(m, drink[m])
    BY <1>4 DEF PayHere, MachineOK
  <2>2. stock' \in [Machines -> [Drinks -> 0..99]]
    BY <2>1, DecreaseStockTypes
  <2>3. sold' \in [Machines -> [Drinks -> Nat]]
    BY <1>4, <2>1 DEF PayHere, TypeOK
  <2> QED
    BY <1>4, <2>2, <2>3, ToMenuTypes DEF TypeOK, PayHere, Purchases
<1>5. ASSUME NEW c \in Codes, PayElsewhere(m, c) PROVE TypeOK'
  <2>1. /\ Len(purchases') = Len(purchases) + 1
        /\ purchases' \in Seq(PurchaseRecords)
        /\ settledBy' \in [Purchases' -> 0..Len(purchases')]
        /\ Purchases \subseteq Purchases'
    BY <1>5, PurchasesGrow
  <2>2. order' \in [Machines -> 0..Len(purchases')]
    BY <1>5, <2>1 DEF PayElsewhere, TypeOK
  <2>3. codes' \in [Machines -> [Codes -> 0..Len(purchases')]]
    <3>1. codes \in [Machines -> [Codes -> 0..Len(purchases)]] /\ codes' = codes
      BY <1>5 DEF PayElsewhere, TypeOK, store
    <3>2. 0..Len(purchases) \subseteq 0..Len(purchases')
      BY <2>1
    <3> QED
      BY <3>1, <3>2
  <2>4. phase' \in [Machines -> Phases] /\ UNCHANGED <<drink, target, stock, net, granted, redeemed, sold>>
    BY <1>5 DEF PayElsewhere, TypeOK, store, Phases
  <2> QED
    BY <2>1, <2>2, <2>3, <2>4 DEF TypeOK, PurchaseRecords
<1>6. CASE SendRequest(m)
  <2>1. Request(order[m]) \in Messages
    <3>1. order[m] \in Purchases /\ purchases[order[m]] \in PurchaseRecords
      BY <1>6 DEF SendRequest, MachineOK, PaidFor
    <3> QED
      BY <3>1 DEF Request, Messages, PurchaseRecords
  <2> QED
    BY <1>6, <2>1 DEF TypeOK, SendRequest, store, Purchases, Phases
<1>7. CASE TimeOut(m)
  BY <1>7, ToMenuTypes DEF TypeOK, TimeOut, store, Purchases
<1>8. ASSUME NEW t \in Machines, BackToOptions(m, t) PROVE TypeOK'
  <2>1. NoPurchase \in 0..Len(purchases)
    BY DEF NoPurchase
  <2>2. /\ phase' \in [Machines -> Phases]
        /\ target' \in [Machines -> Machines \cup {NoMachine}]
        /\ order' \in [Machines -> 0..Len(purchases)]
    BY <1>8, <2>1 DEF TypeOK, BackToOptions, Phases
  <2> QED
    BY <1>8, <2>2 DEF TypeOK, BackToOptions, store, Purchases
<1>9. CASE ShowCode(m)
  BY <1>9, ToMenuTypes DEF TypeOK, ShowCode, store, Purchases
<1>10. ASSUME NEW c \in Codes, EnterCode(m, c) PROVE TypeOK'
  <2>1. codes[m][c] \in Purchases /\ purchases[codes[m][c]].drink \in Drinks
    BY <1>10 DEF EnterCode, CodesOK, TypeOK, PurchaseRecords
  <2> QED
    BY <1>10, <2>1 DEF TypeOK, EnterCode, store, Purchases, Phases
<1>11. CASE DispenseReserved(m)
  <2>1. order[m] \in Purchases /\ purchases[order[m]].code \in Codes
    BY <1>11 DEF DispenseReserved, MachineOK, TypeOK, PurchaseRecords
  <2>2. codes' \in [Machines -> [Codes -> 0..Len(purchases)]]
    <3>1. NoPurchase \in 0..Len(purchases)
      BY DEF NoPurchase
    <3>2. codes' = [codes EXCEPT ![m][purchases[order[m]].code] = NoPurchase]
      BY <1>11 DEF DispenseReserved, MarkUsed
    <3> QED
      BY <2>1, <3>1, <3>2 DEF TypeOK
  <2> QED
    BY <1>11, <2>1, <2>2, ToMenuTypes DEF TypeOK, DispenseReserved, Purchases
<1> QED
  BY <1>1, <1>2, <1>3, <1>4, <1>5, <1>6, <1>7, <1>8, <1>9, <1>10, <1>11 DEF Customer

\* A handler keeps the types.
LEMMA HandlerTypes ==
    ASSUME TypeOK, NetOK, \A m \in Machines : MachineOK(m), NEW msg \in net,
           OnReqPrepayReceived(msg) \/ OnRespPrepayReceived(msg)
    PROVE  TypeOK'
<1> USE HistoryShape, MessageTypes
<1>0. msg.purchase \in Purchases
  BY DEF NetOK, MessageOK
<1>1. CASE OnReqPrepayReceived(msg)
  <2>1. \A ok \in BOOLEAN : Response(msg, ok) \in Messages
    BY DEF Response, Messages
  <2>2. net' \subseteq Messages
    <3> DEFINE ok == stock[msg.dst][msg.drink] >= 1
    <3>1. ok \in BOOLEAN /\ net' = (net \ {msg}) \cup {Response(msg, ok)}
      BY <1>1 DEF OnReqPrepayReceived
    <3> HIDE DEF ok
    <3> QED
      BY <2>1, <3>1 DEF TypeOK
  <2>3. CASE stock[msg.dst][msg.drink] >= 1
    <3>1. DecreaseStock(msg.dst, msg.drink)
      BY <1>1, <2>3 DEF OnReqPrepayReceived
    <3>2. stock' \in [Machines -> [Drinks -> 0..99]]
      BY <3>1, DecreaseStockTypes
    <3>3. codes' = [codes EXCEPT ![msg.dst][msg.code] = msg.purchase]
          /\ granted' = granted \cup {msg.purchase}
      BY <1>1, <2>3 DEF OnReqPrepayReceived
    <3>4. msg.purchase \in 0..Len(purchases)
      BY <1>0
    <3>5. codes' \in [Machines -> [Codes -> 0..Len(purchases)]] /\ granted' \subseteq Purchases
      BY <1>0, <1>1, <3>3, <3>4 DEF TypeOK, OnReqPrepayReceived
    <3> QED
      BY <1>1, <2>2, <3>2, <3>5 DEF TypeOK, OnReqPrepayReceived, customer, Purchases
  <2>4. CASE ~(stock[msg.dst][msg.drink] >= 1)
    BY <1>1, <2>2, <2>4 DEF TypeOK, OnReqPrepayReceived, customer, Purchases
  <2> QED
    BY <2>3, <2>4
<1>2. CASE OnRespPrepayReceived(msg)
  <2> DEFINE m == msg.dst
  <2>1. net' \subseteq Messages /\ UNCHANGED <<stock, codes, purchases, granted, redeemed, sold>>
    BY <1>2 DEF OnRespPrepayReceived, TypeOK, store
  <2>2. CASE Issuing(m) /\ Matches(m, msg) /\ msg.available
    <3>1. order[m] \in Purchases
      BY <2>2 DEF MachineOK, Issuing, PaidFor
    <3>2. msg.purchase \in 0..Len(purchases)
      BY <1>0
    <3>3. /\ phase' = [phase EXCEPT ![m] = "AUTH_CODE"]
          /\ settledBy' = [settledBy EXCEPT ![order[m]] = msg.purchase]
          /\ UNCHANGED <<drink, target, order>>
      BY <1>2, <2>2 DEF OnRespPrepayReceived
    <3>4. settledBy' \in [Purchases -> 0..Len(purchases)]
      BY <3>1, <3>2, <3>3 DEF TypeOK
    <3>5. phase' \in [Machines -> Phases]
      BY <3>3 DEF TypeOK, Phases
    <3> QED
      BY <2>1, <3>3, <3>4, <3>5 DEF TypeOK, Purchases
  <2>3. CASE Issuing(m) /\ ~(Matches(m, msg) /\ msg.available)
    <3>1. ToMenu(m) /\ settledBy' = settledBy
      BY <1>2, <2>3 DEF OnRespPrepayReceived
    <3> QED
      BY <2>1, <3>1, ToMenuTypes DEF TypeOK, Purchases
  <2>4. CASE ~Issuing(m)
    BY <1>2, <2>1, <2>4 DEF TypeOK, OnRespPrepayReceived, customer, Purchases
  <2> QED
    BY <2>2, <2>3, <2>4
<1> QED
  BY <1>1, <1>2

-----------------------------------------------------------------------------
(* The inductive invariant *)

\* The initial state satisfies the invariant.
LEMMA InvInit == Init => Inv
<1> SUFFICES ASSUME Init PROVE Inv
  OBVIOUS
<1>1. Purchases = {}
  BY DEF Init, Purchases
<1> QED
  BY <1>1 DEF Init, Inv, MachineOK, PaidFor, Issuing, NetOK, CodesOK, NoPurchase,
              ShownHasItsOwnItem, OnlyAbandonedAnswersMislead

\* A purchase that was given up stays so in a step that begins no wait.
LEMMA GivenUpStays ==
    ASSUME NEW q \in Purchases, GivenUp(q), settledBy'[q] = settledBy[q],
           \A m \in Machines : Issuing(m)' => Issuing(m) /\ order'[m] = order[m]
    PROVE  GivenUp(q)'
BY DEF GivenUp

\* A step of one machine that touches nothing but its customer.
Quiet(m) ==
    /\ UNCHANGED <<codes, net, purchases, granted, redeemed, settledBy>>
    /\ \A n \in Machines \ {m} :
          /\ phase'[n] = phase[n] /\ order'[n] = order[n]
          /\ drink'[n] = drink[n] /\ target'[n] = target[n]
    /\ Issuing(m)' => Issuing(m) /\ order'[m] = order[m]
    /\ MachineOK(m)'

\* Such a step keeps the invariant.
LEMMA QuietInv ==
    ASSUME TypeOK, Inv, NEW m \in Machines, Quiet(m)
    PROVE  Inv'
<1>1. ASSUME NEW n \in Machines \ {m} PROVE MachineOK(n)' /\ (Issuing(n)' => Issuing(n) /\ order'[n] = order[n])
  BY DEF Inv, Quiet, MachineOK, Issuing, Purchases
<1>2. \A n \in Machines : Issuing(n)' => Issuing(n) /\ order'[n] = order[n]
  BY <1>1 DEF Quiet
<1>3. NetOK' /\ CodesOK' /\ (redeemed \subseteq granted)' /\ ShownHasItsOwnItem'
  BY DEF Inv, Quiet, NetOK, MessageOK, CodesOK, ShownHasItsOwnItem, Alike, Purchases
<1>4. OnlyAbandonedAnswersMislead'
  <2>1. SUFFICES ASSUME NEW p \in Purchases, settledBy[p] \notin {NoPurchase, p}
                 PROVE  \E q \in 1..p - 1 : Alike(q, p)' /\ GivenUp(q)'
    BY DEF OnlyAbandonedAnswersMislead, Quiet, Purchases
  <2>2. PICK q \in 1..p - 1 : Alike(q, p) /\ GivenUp(q)
    BY <2>1 DEF Inv, OnlyAbandonedAnswersMislead
  <2>3. q \in Purchases
    BY HistoryShape
  <2> QED
    BY <1>2, <2>2, <2>3, GivenUpStays DEF Quiet, Alike
<1> QED
  BY <1>1, <1>3, <1>4 DEF Inv, Quiet

\* The steps of a customer that touch nothing else.
LEMMA QuietSteps ==
    ASSUME TypeOK, Inv, NEW m \in Machines,
           \/ \E d \in Drinks : SelectHere(m, d)
           \/ \E d \in Drinks, t \in Machines : SelectElsewhere(m, d, t)
           \/ Refuse(m)
           \/ PayHere(m)
           \/ TimeOut(m)
           \/ \E t \in Machines : BackToOptions(m, t)
           \/ ShowCode(m)
           \/ \E c \in Codes : EnterCode(m, c)
    PROVE  Quiet(m)
<1> USE DEF Quiet, MachineOK, PaidFor, Issuing, Purchases, store
<1>0. MachineOK(m)
  BY DEF Inv
<1>1. ASSUME NEW d \in Drinks, SelectHere(m, d) PROVE Quiet(m)
  BY <1>1 DEF SelectHere, TypeOK
<1>2. ASSUME NEW d \in Drinks, NEW t \in Machines, SelectElsewhere(m, d, t) PROVE Quiet(m)
  BY <1>2 DEF SelectElsewhere, TypeOK
<1>3. CASE ToMenu(m) /\ UNCHANGED <<codes, net, purchases, granted, redeemed, settledBy>>
  BY <1>3 DEF ToMenu, TypeOK
<1>4. ASSUME NEW t \in Machines, BackToOptions(m, t) PROVE Quiet(m)
  BY <1>0, <1>4 DEF BackToOptions, TypeOK
<1>5. ASSUME NEW c \in Codes, EnterCode(m, c) PROVE Quiet(m)
  <2>1. codes[m][c] \in granted \ redeemed /\ purchases[codes[m][c]].to = m
    BY <1>5 DEF EnterCode, Inv, CodesOK
  <2>2. purchases[codes[m][c]].drink \in Drinks
    BY <2>1, HistoryShape DEF TypeOK, PurchaseRecords
  <2> QED
    BY <1>5, <2>1, <2>2 DEF EnterCode, TypeOK
<1> QED
  BY <1>1, <1>2, <1>3, <1>4, <1>5 DEF Refuse, PayHere, TimeOut, ShowCode

\* A payment adds a purchase that nothing knows of yet.
LEMMA PayElsewhereInv ==
    ASSUME TypeOK, Inv, NEW m \in Machines, NEW c \in Codes, PayElsewhere(m, c)
    PROVE  Inv'
<1> DEFINE new == Len(purchases) + 1
<1>0. MachineOK(m)
  BY DEF Inv
<1>1. /\ Purchases' = Purchases \cup {new} /\ new \notin Purchases /\ new \in Nat /\ new # NoPurchase
      /\ \A p \in Purchases : /\ p \in Nat /\ p < new /\ p # NoPurchase
                             /\ purchases'[p] = purchases[p] /\ settledBy'[p] = settledBy[p]
      /\ purchases'[new] = [by |-> m, to |-> target[m], drink |-> drink[m], code |-> c]
      /\ settledBy'[new] = NoPurchase
  BY <1>0, PurchasesGrow, HistoryShape DEF NoPurchase
<1>2. /\ UNCHANGED <<drink, target, codes, net, granted, redeemed>>
      /\ order' = [order EXCEPT ![m] = new] /\ phase' = [phase EXCEPT ![m] = "ISSUING"]
      /\ phase[m] = "OFFER"
  BY DEF PayElsewhere, store
<1>3. granted \subseteq Purchases /\ \A msg \in net : msg.purchase \in Purchases
  BY DEF TypeOK, Inv, NetOK, MessageOK
<1> HIDE DEF new
<1>4. ASSUME NEW k \in Machines PROVE MachineOK(k)'
  <2>1. CASE k = m
    <3>1. phase'[m] = "ISSUING" /\ order'[m] = new /\ drink[m] \in Drinks /\ target[m] \in Machines
      BY <1>0, <1>2 DEF MachineOK, TypeOK, PaidFor
    <3>2. \A q \in Purchases' : q <= new
      BY <1>1
    <3>3. new \notin granted /\ \A msg \in net : msg.purchase # new
      BY <1>1, <1>3
    <3> QED
      BY <1>1, <1>2, <2>1, <3>1, <3>2, <3>3 DEF MachineOK, PaidFor, Issuing
  <2>2. CASE k # m
    <3>1. phase'[k] = phase[k] /\ order'[k] = order[k] /\ MachineOK(k)
      BY <1>2, <2>2 DEF TypeOK, Inv
    <3> QED
      BY <1>1, <1>2, <1>3, <2>2, <3>1 DEF MachineOK, PaidFor, Issuing
  <2> QED
    BY <2>1, <2>2
<1>5. NetOK'
  BY <1>1, <1>2, <1>3 DEF Inv, NetOK, MessageOK
<1>6. CodesOK' /\ (redeemed \subseteq granted)'
  BY <1>1, <1>2, <1>3 DEF Inv, CodesOK
<1>7. ShownHasItsOwnItem'
  BY <1>1, <1>2, <1>3 DEF Inv, ShownHasItsOwnItem, Alike
<1>8. OnlyAbandonedAnswersMislead'
  <2> SUFFICES ASSUME NEW p \in Purchases, settledBy[p] \notin {NoPurchase, p}
               PROVE  \E q \in 1..p - 1 : Alike(q, p)' /\ GivenUp(q)'
    BY <1>1 DEF OnlyAbandonedAnswersMislead
  <2>1. PICK q \in 1..p - 1 : Alike(q, p) /\ GivenUp(q)
    BY DEF Inv, OnlyAbandonedAnswersMislead
  <2>2. q \in Purchases
    BY HistoryShape
  <2>3. \A k \in Machines : Issuing(k)' => order'[k] # q
    BY <1>1, <1>2, <2>1, <2>2 DEF TypeOK, GivenUp, Issuing
  <2> QED
    BY <1>1, <2>1, <2>2, <2>3 DEF Alike, GivenUp
<1> QED
  BY <1>4, <1>5, <1>6, <1>7, <1>8 DEF Inv

\* The request of a machine is the only message about its order.
LEMMA SendRequestInv ==
    ASSUME TypeOK, Inv, NEW m \in Machines, SendRequest(m)
    PROVE  Inv'
<1> DEFINE req == Request(order[m])
<1>1. /\ MachineOK(m) /\ phase[m] = "ISSUING" /\ order[m] \in Purchases
      /\ order[m] \notin granted /\ \A msg \in net : msg.purchase # order[m]
      /\ purchases[order[m]].by = m
  BY DEF Inv, SendRequest, MachineOK, PaidFor
<1>2. /\ UNCHANGED <<drink, target, order, codes, purchases, granted, redeemed, settledBy>>
      /\ phase' = [phase EXCEPT ![m] = "WAITING"]
      /\ net' = net \cup {req}
  BY DEF SendRequest, store
<1>3. /\ req.type = "REQ_PREPAY" /\ req.purchase = order[m] /\ req.src = m
      /\ req.dst = purchases[order[m]].to /\ req.drink = purchases[order[m]].drink
      /\ req.code = purchases[order[m]].code
  BY <1>1 DEF Request
<1>4. \A r \in Purchases : settledBy[r] # order[m]
  BY <1>1, HistoryShape DEF Inv, ShownHasItsOwnItem, NoPurchase
<1> HIDE DEF req
<1>5. MessageOK(req)
  BY <1>1, <1>3, <1>4 DEF MessageOK
<1>6. NetOK'
  <2>1. \A msg \in net' : MessageOK(msg)'
    BY <1>2, <1>5 DEF Inv, NetOK, MessageOK, Purchases
  <2>2. \A msg, other \in net' : msg.purchase = other.purchase => msg = other
    BY <1>1, <1>2, <1>3 DEF Inv, NetOK
  <2> QED
    BY <2>1, <2>2 DEF NetOK
<1>7. ASSUME NEW k \in Machines PROVE MachineOK(k)'
  <2>1. CASE k = m
    BY <1>1, <1>2, <2>1 DEF MachineOK, PaidFor, Issuing, TypeOK, Purchases
  <2>2. CASE k # m
    <3>1. phase'[k] = phase[k] /\ MachineOK(k)
      BY <1>2, <2>2 DEF TypeOK, Inv
    <3>2. phase[k] = "ISSUING" => order[k] # order[m]
      BY <1>1, <2>2, <3>1 DEF MachineOK, PaidFor
    <3> QED
      BY <1>2, <1>3, <3>1, <3>2 DEF MachineOK, PaidFor, Issuing, Purchases
  <2> QED
    BY <2>1, <2>2
<1>8. CodesOK' /\ (redeemed \subseteq granted)' /\ ShownHasItsOwnItem'
  BY <1>2 DEF Inv, CodesOK, ShownHasItsOwnItem, Alike, Purchases
<1>9. OnlyAbandonedAnswersMislead'
  <2>1. \A k \in Machines : Issuing(k)' => Issuing(k) /\ order'[k] = order[k]
    BY <1>1, <1>2 DEF Issuing, TypeOK
  <2> QED
    BY <1>2, <2>1 DEF Inv, OnlyAbandonedAnswersMislead, GivenUp, Alike, Purchases
<1> QED
  BY <1>6, <1>7, <1>8, <1>9 DEF Inv

\* A redeemed purchase is in no other machine's hands and under no code.
LEMMA DispenseReservedInv ==
    ASSUME TypeOK, Inv, NEW m \in Machines, DispenseReserved(m)
    PROVE  Inv'
<1>1. /\ phase[m] = "REDEEMING" /\ order[m] \in granted \ redeemed
      /\ purchases[order[m]].to = m /\ purchases[order[m]].code \in Codes
  BY HistoryShape DEF Inv, DispenseReserved, MachineOK, TypeOK, PurchaseRecords
<1>2. /\ UNCHANGED <<net, purchases, granted, settledBy>>
      /\ redeemed' = redeemed \cup {order[m]}
      /\ codes' = [codes EXCEPT ![m][purchases[order[m]].code] = NoPurchase]
      /\ ToMenu(m)
  BY DEF DispenseReserved, MarkUsed
<1>3. \A k \in Machines \ {m} : /\ phase'[k] = phase[k] /\ order'[k] = order[k]
                                 /\ drink'[k] = drink[k] /\ target'[k] = target[k]
  BY <1>2 DEF ToMenu, TypeOK
<1>4. phase'[m] = "MENU"
  BY <1>2 DEF ToMenu, TypeOK
<1>5. ASSUME NEW k \in Machines PROVE MachineOK(k)'
  <2>1. CASE k = m
    BY <1>4, <2>1 DEF MachineOK, PaidFor, Issuing
  <2>2. CASE k # m
    <3>1. MachineOK(k) /\ (phase[k] = "REDEEMING" => order[k] # order[m])
      BY <1>1, <2>2 DEF Inv, MachineOK
    <3> QED
      BY <1>2, <1>3, <2>2, <3>1 DEF MachineOK, PaidFor, Issuing, Purchases
  <2> QED
    BY <2>1, <2>2
<1>6. CodesOK'
  <2> SUFFICES ASSUME NEW n \in Machines, NEW c \in Codes, codes'[n][c] # NoPurchase
               PROVE  /\ codes'[n][c] \in granted \ redeemed'
                      /\ purchases[codes'[n][c]].to = n
                      /\ purchases[codes'[n][c]].code = c
    BY <1>2 DEF CodesOK
  <2>1. codes'[n][c] = codes[n][c] /\ <<n, c>> # <<m, purchases[order[m]].code>>
    BY <1>1, <1>2 DEF TypeOK
  <2>2. /\ codes[n][c] \in granted \ redeemed
        /\ purchases[codes[n][c]].to = n
        /\ purchases[codes[n][c]].code = c
    BY <2>1 DEF Inv, CodesOK
  <2> QED
    BY <1>1, <1>2, <2>1, <2>2
<1>7. NetOK' /\ (redeemed \subseteq granted)' /\ ShownHasItsOwnItem'
  BY <1>1, <1>2 DEF Inv, NetOK, MessageOK, ShownHasItsOwnItem, Alike, Purchases
<1>8. \A k \in Machines : Issuing(k)' => Issuing(k) /\ order'[k] = order[k]
  BY <1>3, <1>4 DEF Issuing
<1>9. OnlyAbandonedAnswersMislead'
  BY <1>2, <1>8 DEF Inv, OnlyAbandonedAnswersMislead, GivenUp, Alike, Purchases
<1> QED
  BY <1>5, <1>6, <1>7, <1>9 DEF Inv

\* A request gives its purchase an item or not, and the answer says which.
LEMMA ReqPrepayInv ==
    ASSUME TypeOK, Inv, NEW q \in net, OnReqPrepayReceived(q)
    PROVE  Inv'
<1> DEFINE p == q.purchase
           ok == stock[q.dst][q.drink] >= 1
           answer == Response(q, ok)
<1>1. /\ q.type = "REQ_PREPAY" /\ p \in Purchases /\ p \notin granted
      /\ q.src = purchases[p].by /\ q.dst = purchases[p].to
      /\ q.drink = purchases[p].drink /\ q.code = purchases[p].code
      /\ \A r \in Purchases : settledBy[r] # p
      /\ \A msg \in net \ {q} : msg.purchase # p
  BY DEF Inv, NetOK, MessageOK, OnReqPrepayReceived
<1>2. /\ answer.type = "RESP_PREPAY" /\ answer.purchase = p /\ answer.src = q.dst
      /\ answer.dst = q.src /\ answer.drink = q.drink /\ answer.available = ok
  BY DEF Response
<1>3. /\ net' = (net \ {q}) \cup {answer}
      /\ UNCHANGED <<phase, drink, target, order, purchases, redeemed, settledBy>>
      /\ granted' = IF ok THEN granted \cup {p} ELSE granted
      /\ codes' = IF ok THEN [codes EXCEPT ![q.dst][q.code] = p] ELSE codes
  BY DEF OnReqPrepayReceived, customer
<1>4. q.dst \in Machines /\ q.code \in Codes
  BY <1>1, MessageTypes
<1> HIDE DEF p, ok, answer
<1>5. NetOK'
  <2>1. ASSUME NEW msg \in net \ {q} PROVE MessageOK(msg)'
    BY <1>1, <1>3 DEF Inv, NetOK, MessageOK, Purchases
  <2>2. ASSUME NEW msg, msg = answer PROVE MessageOK(msg)'
    <3>1. ok => p \in granted'
      BY <1>3
    <3>2. msg.available = ok
      BY <1>2, <2>2
    <3> QED
      BY <1>1, <1>2, <1>3, <2>2, <3>1, <3>2 DEF MessageOK, Purchases
  <2>3. \A msg, other \in net' : msg.purchase = other.purchase => msg = other
    BY <1>1, <1>2, <1>3 DEF Inv, NetOK
  <2>4. ASSUME NEW msg \in net' PROVE MessageOK(msg)'
    <3>1. msg \in net \ {q} \/ msg = answer
      BY <1>3
    <3> QED
      BY <2>1, <2>2, <3>1
  <2> QED
    BY <2>3, <2>4 DEF NetOK
<1>6. ASSUME NEW k \in Machines PROVE MachineOK(k)'
  <2>1. MachineOK(k) /\ (phase[k] = "ISSUING" => order[k] # p)
    BY DEF Inv, MachineOK, p
  <2> QED
    BY <1>2, <1>3, <2>1 DEF MachineOK, PaidFor, Issuing, Purchases
<1>7. CodesOK' /\ (redeemed \subseteq granted)'
  <2>1. CASE ok
    <3>1. ASSUME NEW n \in Machines, NEW c \in Codes, codes'[n][c] # NoPurchase
          PROVE  /\ codes'[n][c] \in granted' \ redeemed
                 /\ purchases[codes'[n][c]].to = n
                 /\ purchases[codes'[n][c]].code = c
      <4>1. CASE n = q.dst /\ c = q.code
        <5>1. codes'[n][c] = p
          BY <1>3, <1>4, <2>1, <4>1 DEF TypeOK
        <5> QED
          BY <1>1, <1>3, <2>1, <4>1, <5>1 DEF Inv
      <4>2. CASE ~(n = q.dst /\ c = q.code)
        <5>1. codes'[n][c] = codes[n][c]
          BY <1>3, <1>4, <2>1, <4>2 DEF TypeOK
        <5> QED
          BY <1>3, <2>1, <3>1, <5>1 DEF Inv, CodesOK
      <4> QED
        BY <4>1, <4>2
    <3> QED
      BY <1>3, <2>1, <3>1 DEF Inv, CodesOK
  <2>2. CASE ~ok
    BY <1>3, <2>2 DEF Inv, CodesOK
  <2> QED
    BY <2>1, <2>2
<1>8. ShownHasItsOwnItem' /\ OnlyAbandonedAnswersMislead'
  BY <1>3 DEF Inv, ShownHasItsOwnItem, OnlyAbandonedAnswersMislead, Alike, GivenUp, Issuing, Purchases
<1> QED
  BY <1>5, <1>6, <1>7, <1>8 DEF Inv

\* Fewer messages satisfy what the messages did.
LEMMA TakenMessage ==
    ASSUME NetOK, net' \subseteq net, UNCHANGED <<purchases, granted, settledBy>>
    PROVE  NetOK'
BY DEF NetOK, MessageOK, Purchases

\* An answer that is taken is for an order like the one in hand, which is the
\* latest; if it is for another order, that one was given up or was itself misled.
LEMMA RespPrepayInv ==
    ASSUME TypeOK, Inv, NEW a \in net, OnRespPrepayReceived(a)
    PROVE  Inv'
<1> DEFINE m == a.dst
           p == order[m]
           g == a.purchase
<1>1. /\ UNCHANGED <<codes, purchases, granted, redeemed>> /\ net' = net \ {a}
      /\ a.type = "RESP_PREPAY"
  BY DEF OnRespPrepayReceived, store
<1>2. /\ m \in Machines /\ g \in Purchases
      /\ purchases[g].by = m /\ purchases[g].to = a.src /\ purchases[g].drink = a.drink
  BY <1>1, MessageTypes DEF Inv, NetOK, MessageOK
<1>3. CodesOK' /\ (redeemed \subseteq granted)'
  BY <1>1 DEF Inv, CodesOK
<1>4. CASE ~Issuing(m)
  <2>1. UNCHANGED <<phase, drink, target, order, settledBy>>
    BY <1>4 DEF OnRespPrepayReceived, customer
  <2>2. NetOK'
    BY <1>1, <2>1, TakenMessage DEF Inv
  <2>3. \A k \in Machines : MachineOK(k)'
    BY <1>1, <2>1 DEF Inv, MachineOK, PaidFor, Issuing, Purchases
  <2>4. ShownHasItsOwnItem' /\ OnlyAbandonedAnswersMislead'
    BY <1>1, <2>1 DEF Inv, ShownHasItsOwnItem, OnlyAbandonedAnswersMislead, Alike, GivenUp, Issuing, Purchases
  <2> QED
    BY <1>3, <2>2, <2>3, <2>4 DEF Inv
<1>5. CASE Issuing(m) /\ ~(Matches(m, a) /\ a.available)
  <2>1. ToMenu(m) /\ UNCHANGED settledBy
    BY <1>5 DEF OnRespPrepayReceived
  <2>2. NetOK'
    BY <1>1, <2>1, TakenMessage DEF Inv
  <2>3. /\ phase'[m] = "MENU"
        /\ \A k \in Machines \ {m} : /\ phase'[k] = phase[k] /\ order'[k] = order[k]
                                     /\ drink'[k] = drink[k] /\ target'[k] = target[k]
    BY <1>2, <2>1 DEF ToMenu, TypeOK
  <2>4. ASSUME NEW k \in Machines PROVE MachineOK(k)'
    BY <1>1, <2>1, <2>3 DEF Inv, MachineOK, PaidFor, Issuing, Purchases
  <2>5. \A k \in Machines : Issuing(k)' => Issuing(k) /\ order'[k] = order[k]
    BY <2>3 DEF Issuing
  <2>6. ShownHasItsOwnItem' /\ OnlyAbandonedAnswersMislead'
    BY <1>1, <2>1, <2>5 DEF Inv, ShownHasItsOwnItem, OnlyAbandonedAnswersMislead, Alike, GivenUp, Purchases
  <2> QED
    BY <1>3, <2>2, <2>4, <2>6 DEF Inv
<1>6. CASE Issuing(m) /\ Matches(m, a) /\ a.available
  <2>1. /\ phase' = [phase EXCEPT ![m] = "AUTH_CODE"]
        /\ settledBy' = [settledBy EXCEPT ![p] = g]
        /\ UNCHANGED <<drink, target, order>>
    BY <1>6 DEF OnRespPrepayReceived
  <2>2. /\ MachineOK(m) /\ p \in Purchases /\ purchases[p].by = m
        /\ purchases[p].to = target[m] /\ purchases[p].drink = drink[m]
        /\ settledBy[p] = NoPurchase
        /\ \A q \in Purchases : purchases[q].by = m => q <= p
    BY <1>2, <1>6 DEF Inv, MachineOK, Issuing, PaidFor
  <2>3. g \in granted /\ \A r \in Purchases : settledBy[r] # g
    BY <1>1, <1>6 DEF Inv, NetOK, MessageOK
  <2>4. Alike(g, p) /\ g <= p
    BY <1>2, <1>6, <2>2 DEF Alike, Matches
  <2>5. settledBy'[p] = g /\ \A r \in Purchases \ {p} : settledBy'[r] = settledBy[r]
    BY <2>1, <2>2 DEF TypeOK
  <2>6. Purchases' = Purchases /\ \A q, r : Alike(q, r)' <=> Alike(q, r)
    BY <1>1 DEF Purchases, Alike
  <2>7. /\ phase'[m] = "AUTH_CODE"
        /\ \A k \in Machines \ {m} : phase'[k] = phase[k]
        /\ \A k \in Machines : Issuing(k)' => k # m /\ Issuing(k) /\ order'[k] # p
    <3>1. phase'[m] = "AUTH_CODE" /\ \A k \in Machines \ {m} : phase'[k] = phase[k]
      BY <1>2, <2>1 DEF TypeOK
    <3>2. \A k \in Machines : Issuing(k) => purchases[order[k]].by = k
      BY DEF Inv, MachineOK, Issuing, PaidFor
    <3> QED
      BY <2>1, <2>2, <3>1, <3>2 DEF Issuing
  <2> HIDE DEF m, p, g
  <2>8. NetOK'
    <3>1. ASSUME NEW msg \in net' PROVE MessageOK(msg)'
      <4>1. msg \in net /\ msg.purchase # g /\ MessageOK(msg)
        BY <1>1 DEF Inv, NetOK, g
      <4> QED
        BY <1>1, <2>5, <2>6, <4>1 DEF MessageOK
    <3> QED
      BY <1>1, <3>1 DEF Inv, NetOK
  <2>9. ASSUME NEW k \in Machines PROVE MachineOK(k)'
    <3>1. CASE k = m
      <4>1. drink[m] \in Drinks /\ target[m] \in Machines
        BY <1>6, <2>2 DEF MachineOK, PaidFor, Issuing, m
      <4> QED
        BY <1>1, <2>1, <2>2, <2>6, <2>7, <3>1, <4>1 DEF MachineOK, PaidFor, Issuing, p
    <3>2. CASE k # m
      <4>1. MachineOK(k) /\ phase'[k] = phase[k] /\ (Issuing(k) => order[k] # p)
        BY <2>1, <2>7, <3>2 DEF Inv, Issuing
      <4>2. Issuing(k) => order[k] \in Purchases
        BY <4>1 DEF MachineOK, Issuing, PaidFor
      <4> QED
        BY <1>1, <2>1, <2>5, <2>6, <3>2, <4>1, <4>2 DEF MachineOK, PaidFor, Issuing
    <3> QED
      BY <3>1, <3>2
  <2>10. ShownHasItsOwnItem'
    BY <1>1, <2>2, <2>3, <2>4, <2>5, <2>6 DEF Inv, ShownHasItsOwnItem
  <2>11. ASSUME NEW q \in Purchases, GivenUp(q), q # p PROVE GivenUp(q)'
    BY <2>1, <2>5, <2>7, <2>11 DEF GivenUp
  <2>12. OnlyAbandonedAnswersMislead'
    <3> SUFFICES ASSUME NEW r \in Purchases, settledBy'[r] \notin {NoPurchase, r}
                 PROVE  \E q \in 1..r - 1 : Alike(q, r) /\ GivenUp(q)'
      BY <2>6 DEF OnlyAbandonedAnswersMislead
    <3>0. Purchases = 1..Len(purchases) /\ Len(purchases) \in Nat
      BY HistoryShape
    <3>1. CASE r = p
      <4>1. g \in 1..p - 1 /\ g \in Purchases /\ p \in Nat
        BY <1>2, <2>2, <2>4, <2>5, <3>0, <3>1 DEF g
      <4>2. CASE settledBy[g] = NoPurchase
        <5>1. GivenUp(g)'
          <6>1. settledBy'[g] = NoPurchase
            BY <2>5, <4>1, <4>2
          <6>2. \A k \in Machines : Issuing(k)' => order'[k] # g
            BY <1>2, <2>1, <2>7 DEF Inv, MachineOK, PaidFor, Issuing, g
          <6> QED
            BY <6>1, <6>2 DEF GivenUp
        <5> QED
          BY <2>4, <3>1, <4>1, <5>1
      <4>3. CASE settledBy[g] # NoPurchase
        <5>1. settledBy[g] \notin {NoPurchase, g}
          BY <2>3, <4>1, <4>3
        <5>2. PICK q \in 1..g - 1 : Alike(q, g) /\ GivenUp(q)
          BY <4>1, <5>1 DEF Inv, OnlyAbandonedAnswersMislead
        <5>3. q \in 1..p - 1 /\ q \in Purchases /\ q # p
          BY <3>0, <4>1
        <5> QED
          BY <2>4, <2>11, <3>1, <5>2, <5>3 DEF Alike
      <4> QED
        BY <4>2, <4>3
    <3>2. CASE r # p
      <4>1. PICK q \in 1..r - 1 : Alike(q, r) /\ GivenUp(q)
        BY <2>5, <3>2 DEF Inv, OnlyAbandonedAnswersMislead
      <4>2. q \in Purchases /\ q # p
        <5>1. ~GivenUp(p)
          BY <1>2, <1>6 DEF GivenUp, p
        <5> QED
          BY <3>0, <4>1, <5>1
      <4> QED
        BY <2>11, <4>1, <4>2
    <3> QED
      BY <3>1, <3>2
  <2> QED
    BY <1>3, <2>8, <2>9, <2>10, <2>12 DEF Inv
<1> QED
  BY <1>4, <1>5, <1>6

\* Every step keeps types and invariant.
LEMMA InvNext ==
    ASSUME TypeOK, Inv, [Next]_vars
    PROVE  TypeOK' /\ Inv'
<1>1. ASSUME NEW m \in Machines, Customer(m) PROVE TypeOK' /\ Inv'
  <2>1. TypeOK'
    BY <1>1, CustomerTypes DEF Inv
  <2>2. ASSUME NEW c \in Codes, PayElsewhere(m, c) PROVE Inv'
    BY <2>2, PayElsewhereInv
  <2>3. SendRequest(m) => Inv'
    BY SendRequestInv
  <2>4. DispenseReserved(m) => Inv'
    BY DispenseReservedInv
  <2>5. Quiet(m) => Inv'
    BY QuietInv
  <2>6. Inv'
    BY <1>1, <2>2, <2>3, <2>4, <2>5, QuietSteps DEF Customer
  <2> QED
    BY <2>1, <2>6
<1>2. ASSUME NEW msg \in net, OnReqPrepayReceived(msg) \/ OnRespPrepayReceived(msg)
      PROVE  TypeOK' /\ Inv'
  <2>1. TypeOK'
    BY <1>2, HandlerTypes DEF Inv
  <2> QED
    BY <1>2, <2>1, ReqPrepayInv, RespPrepayInv
<1>3. CASE UNCHANGED vars
  <2>1. TypeOK'
    BY <1>3 DEF vars, customer, store, TypeOK, Purchases
  <2>2. \A m \in Machines : MachineOK(m)'
    BY <1>3 DEF vars, customer, store, Inv, MachineOK, PaidFor, Issuing, Purchases
  <2>3. NetOK' /\ CodesOK' /\ (redeemed \subseteq granted)'
    BY <1>3 DEF vars, customer, store, Inv, NetOK, MessageOK, CodesOK, Purchases
  <2>4. ShownHasItsOwnItem' /\ OnlyAbandonedAnswersMislead'
    BY <1>3 DEF vars, customer, store, Inv, ShownHasItsOwnItem,
                OnlyAbandonedAnswersMislead, Alike, GivenUp, Issuing, Purchases
  <2> QED
    BY <2>1, <2>2, <2>3, <2>4 DEF Inv
<1> QED
  BY <1>1, <1>2, <1>3 DEF Next, Handler

\* Types and what orders, messages and codes rest on hold in every reachable
\* state, for any number of machines, drinks, codes, items and purchases.
THEOREM Invariance == Spec => [](TypeOK /\ Inv)
<1>1. Init => TypeOK /\ Inv
  BY TypeInit, InvInit
<1>2. TypeOK /\ Inv /\ [Next]_vars => (TypeOK /\ Inv)'
  BY InvNext
<1> QED
  BY <1>1, <1>2, PTL DEF Spec

\* Fields, stores, messages and histories keep their types.
THEOREM TypeCorrect == Spec => []TypeOK
BY Invariance, PTL

\* A drink leaves for a code only if it was paid for, set aside here for that
\* payment, and has not left before.
THEOREM OnlyPaidIsRedeemed == Spec => []RedemptionIsPaid
<1>1. Inv => RedemptionIsPaid
  BY DEF Inv, MachineOK, RedemptionIsPaid
<1> QED
  BY <1>1, Invariance, PTL

\* Every code that is shown rests on an item of its own.
THEOREM ShownCodesHaveItems == Spec => []ShownHasItsOwnItem
<1>1. Inv => ShownHasItsOwnItem
  BY DEF Inv
<1> QED
  BY <1>1, Invariance, PTL

\* A code is shown on the answer to another purchase only after one like it was
\* given up.
THEOREM OnlyLateAnswersMislead == Spec => []OnlyAbandonedAnswersMislead
<1>1. Inv => OnlyAbandonedAnswersMislead
  BY DEF Inv
<1> QED
  BY <1>1, Invariance, PTL
=============================================================================
