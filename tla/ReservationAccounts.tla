------------------------ MODULE ReservationAccounts ------------------------
(***************************************************************************)
(* Proof that the machines of ReservationProtocol keep the accounts of     *)
(* ReservationLedger.                                                      *)
(***************************************************************************)
EXTENDS ReservationProtocolProofs, FiniteSetTheorems

\* What a drink's items at a machine have become.
Total(m, d) ==
    stock[m][d] + Cardinality(Aside(m, d)) + sold[m][d] + Cardinality(HandedOver(m, d))

\* Nothing is missing, or one sale went without an item; then none is left, and
\* no other sale of the drink is under way.
Balanced(m, d) ==
    \/ Total(m, d) = InitialStock[m][d]
    \/ /\ Total(m, d) = InitialStock[m][d] + 1
       /\ stock[m][d] = 0
       /\ ~(phase[m] = "LOCAL_SALE" /\ drink[m] = d)

Accounts == \A m \in Machines, d \in Drinks : Balanced(m, d)

\* The counts are numbers.
LEMMA Counts ==
    ASSUME TypeOK, NEW m \in Machines, NEW d \in Drinks
    PROVE  /\ IsFiniteSet(Aside(m, d)) /\ Cardinality(Aside(m, d)) \in Nat
           /\ IsFiniteSet(HandedOver(m, d)) /\ Cardinality(HandedOver(m, d)) \in Nat
           /\ stock[m][d] \in 0..99 /\ sold[m][d] \in Nat
           /\ InitialStock[m][d] \in 0..99
<1>1. IsFiniteSet(Purchases)
  BY HistoryShape, FS_Interval
<1>2. Aside(m, d) \in SUBSET Purchases /\ HandedOver(m, d) \in SUBSET Purchases
  BY DEF TypeOK, Aside, HandedOver
<1>3. IsFiniteSet(Aside(m, d)) /\ IsFiniteSet(HandedOver(m, d))
  BY <1>1, <1>2, FS_Subset
<1>4. stock[m][d] \in 0..99 /\ sold[m][d] \in Nat /\ InitialStock[m][d] \in 0..99
  BY ProtocolAssumption DEF TypeOK
<1> QED
  BY <1>3, <1>4, FS_CardinalityType

\* A step that moves no item: neither stock nor sales nor the items of purchases.
LEMMA NoItemMoves ==
    ASSUME TypeOK, granted' = granted, redeemed' = redeemed,
           \A p \in Purchases : purchases'[p] = purchases[p]
    PROVE  \A m \in Machines, d \in Drinks :
              Aside(m, d)' = Aside(m, d) /\ HandedOver(m, d)' = HandedOver(m, d)
BY DEF TypeOK, Aside, HandedOver

\* A granted request moves one item of one drink from the stock aside.
LEMMA GrantMoves ==
    ASSUME TypeOK, Inv, NEW q \in net, OnReqPrepayReceived(q),
           stock[q.dst][q.drink] >= 1,
           NEW m \in Machines, NEW d \in Drinks
    PROVE  /\ stock'[m][d] = IF <<m, d>> = <<q.dst, q.drink>> THEN stock[m][d] - 1 ELSE stock[m][d]
           /\ Cardinality(Aside(m, d)') = IF <<m, d>> = <<q.dst, q.drink>>
                                          THEN Cardinality(Aside(m, d)) + 1
                                          ELSE Cardinality(Aside(m, d))
           /\ HandedOver(m, d)' = HandedOver(m, d)
<1> DEFINE p == q.purchase
<1>1. /\ q.dst \in Machines /\ q.drink \in Drinks /\ p \in Purchases /\ p \notin granted
      /\ purchases[p].to = q.dst /\ purchases[p].drink = q.drink
  BY MessageTypes DEF Inv, NetOK, MessageOK, OnReqPrepayReceived
<1>2. /\ DecreaseStock(q.dst, q.drink) /\ granted' = granted \cup {p}
      /\ UNCHANGED <<purchases, redeemed>>
  BY DEF OnReqPrepayReceived
<1>3. p \notin redeemed
  BY <1>1 DEF Inv
<1>4. stock'[m][d] = IF <<m, d>> = <<q.dst, q.drink>> THEN stock[m][d] - 1 ELSE stock[m][d]
  <2>1. /\ stock'[q.dst][q.drink] = IF stock[q.dst][q.drink] > 0 THEN stock[q.dst][q.drink] - 1
                                    ELSE stock[q.dst][q.drink]
        /\ <<m, d>> # <<q.dst, q.drink>> => stock'[m][d] = stock[m][d]
    BY <1>1, <1>2, DecreaseStockTypes
  <2>2. stock[q.dst][q.drink] > 0
    <3>1. stock[q.dst][q.drink] \in 0..99
      BY <1>1, Counts
    <3> QED
      BY <3>1
  <2>3. <<m, d>> = <<q.dst, q.drink>> => m = q.dst /\ d = q.drink
    OBVIOUS
  <2> QED
    BY <2>1, <2>2, <2>3
<1>5. HandedOver(m, d)' = HandedOver(m, d)
  BY <1>2 DEF HandedOver
<1>6. CASE <<m, d>> = <<q.dst, q.drink>>
  <2>1. Aside(m, d)' = Aside(m, d) \cup {p} /\ p \notin Aside(m, d)
    BY <1>1, <1>2, <1>3, <1>6 DEF Aside
  <2> QED
    BY <1>4, <1>5, <1>6, <2>1, Counts, FS_AddElement
<1>7. CASE <<m, d>> # <<q.dst, q.drink>>
  <2>1. Aside(m, d)' = Aside(m, d)
    BY <1>1, <1>2, <1>7 DEF Aside
  <2> QED
    BY <1>4, <1>5, <1>7, <2>1
<1> QED
  BY <1>6, <1>7

\* A redemption gives one item that was aside.
LEMMA RedemptionMoves ==
    ASSUME TypeOK, Inv, NEW k \in Machines, DispenseReserved(k),
           NEW m \in Machines, NEW d \in Drinks
    PROVE  LET o == order[k]
               here == <<m, d>> = <<purchases[o].to, purchases[o].drink>>
           IN  /\ Cardinality(Aside(m, d)) = IF here THEN Cardinality(Aside(m, d)') + 1
                                             ELSE Cardinality(Aside(m, d)')
               /\ Cardinality(Aside(m, d)') \in Nat
               /\ Cardinality(HandedOver(m, d)') = IF here THEN Cardinality(HandedOver(m, d)) + 1
                                                   ELSE Cardinality(HandedOver(m, d))
<1> DEFINE o == order[k]
           here == <<m, d>> = <<purchases[o].to, purchases[o].drink>>
<1>1. o \in granted \ redeemed /\ redeemed' = redeemed \cup {o} /\ UNCHANGED <<purchases, granted>>
  BY DEF Inv, MachineOK, DispenseReserved
<1> HIDE DEF o
<1>2. CASE here
  <2>1. /\ Aside(m, d)' = Aside(m, d) \ {o} /\ o \in Aside(m, d)
        /\ HandedOver(m, d)' = HandedOver(m, d) \cup {o} /\ o \notin HandedOver(m, d)
    BY <1>1, <1>2 DEF Aside, HandedOver
  <2>2. /\ Cardinality(Aside(m, d)') = Cardinality(Aside(m, d)) - 1
        /\ IsFiniteSet(Aside(m, d)')
        /\ Cardinality(HandedOver(m, d)') = Cardinality(HandedOver(m, d)) + 1
    <3>1. /\ IsFiniteSet(Aside(m, d)) /\ Cardinality(Aside(m, d)) \in Nat
          /\ IsFiniteSet(HandedOver(m, d))
      BY Counts
    <3>2. /\ Cardinality(Aside(m, d) \ {o}) = Cardinality(Aside(m, d)) - 1
          /\ IsFiniteSet(Aside(m, d) \ {o})
      BY <2>1, <3>1, FS_RemoveElement
    <3>3. Cardinality(HandedOver(m, d) \cup {o}) = Cardinality(HandedOver(m, d)) + 1
      BY <2>1, <3>1, FS_AddElement
    <3> QED
      BY <2>1, <3>2, <3>3
  <2>3. Cardinality(Aside(m, d)') \in Nat
    BY <2>2, FS_CardinalityType
  <2> QED
    BY <1>2, <2>2, <2>3, Counts DEF o
<1>3. CASE ~here
  <2>1. Aside(m, d)' = Aside(m, d) /\ HandedOver(m, d)' = HandedOver(m, d)
    BY <1>1, <1>3 DEF Aside, HandedOver
  <2> QED
    BY <1>3, <2>1, Counts DEF o
<1> QED
  BY <1>2, <1>3

-----------------------------------------------------------------------------
(* Accounts *)

\* A local sale that a step begins has an item.
SalesBeginWithItem ==
    \A m \in Machines : phase'[m] = "LOCAL_SALE" =>
        \/ phase[m] = "LOCAL_SALE" /\ drink'[m] = drink[m]
        \/ drink'[m] \in Drinks /\ stock[m][drink'[m]] > 0

\* Neither stock nor sales nor the items of purchases change.
StillItems ==
    /\ UNCHANGED <<stock, sold>>
    /\ \A m \in Machines, d \in Drinks :
          Aside(m, d)' = Aside(m, d) /\ HandedOver(m, d)' = HandedOver(m, d)

\* The accounts are balanced at the beginning.
LEMMA AccountsInit == Init => Accounts
<1> SUFFICES ASSUME Init, NEW m \in Machines, NEW d \in Drinks
             PROVE  Balanced(m, d)
  BY DEF Accounts
<1>1. Aside(m, d) = {} /\ HandedOver(m, d) = {}
  BY DEF Init, Aside, HandedOver
<1>2. Cardinality({}) = 0
  BY FS_EmptySet
<1>3. stock[m][d] = InitialStock[m][d] /\ sold[m][d] = 0 /\ InitialStock[m][d] \in 0..99
  BY ProtocolAssumption DEF Init
<1> QED
  BY <1>1, <1>2, <1>3 DEF Balanced, Total

\* A step that moves no item keeps the accounts.
LEMMA AccountsStay ==
    ASSUME Accounts, TypeOK, StillItems, SalesBeginWithItem
    PROVE  Accounts'
<1> SUFFICES ASSUME NEW m \in Machines, NEW d \in Drinks
             PROVE  Balanced(m, d)'
  BY DEF Accounts
<1>1. Total(m, d)' = Total(m, d) /\ stock'[m][d] = stock[m][d]
  BY DEF StillItems, Total
<1>2. Balanced(m, d)
  BY DEF Accounts
<1>3. stock[m][d] = 0 => (phase'[m] = "LOCAL_SALE" /\ drink'[m] = d =>
                             phase[m] = "LOCAL_SALE" /\ drink[m] = d)
  BY DEF SalesBeginWithItem
<1> QED
  BY <1>1, <1>2, <1>3 DEF Balanced

\* The steps of a customer that move no item.
LEMMA CustomerStill ==
    ASSUME TypeOK, Inv, NEW m \in Machines, Customer(m), ~PayHere(m), ~DispenseReserved(m)
    PROVE  StillItems /\ SalesBeginWithItem
<1>1. /\ UNCHANGED <<stock, sold, granted, redeemed>>
      /\ \A p \in Purchases : purchases'[p] = purchases[p]
  <2>1. ASSUME NEW c \in Codes, PayElsewhere(m, c)
        PROVE  \A p \in Purchases : purchases'[p] = purchases[p]
    BY <2>1, PurchasesGrow DEF Inv
  <2> QED
    BY <2>1 DEF Customer, SelectHere, SelectElsewhere, Refuse, PayElsewhere, SendRequest,
                TimeOut, BackToOptions, ShowCode, EnterCode, store
<1>2. StillItems
  BY <1>1, NoItemMoves DEF StillItems
<1>3. SalesBeginWithItem
  BY DEF TypeOK, SalesBeginWithItem, Customer, SelectHere, SelectElsewhere, Refuse, ToMenu,
         PayElsewhere, SendRequest, TimeOut, BackToOptions, ShowCode, EnterCode
<1> QED
  BY <1>2, <1>3

\* The handlers that move no item.
LEMMA HandlerStill ==
    ASSUME TypeOK, Inv, NEW msg \in net,
           \/ OnRespPrepayReceived(msg)
           \/ OnReqPrepayReceived(msg) /\ ~(stock[msg.dst][msg.drink] >= 1)
    PROVE  StillItems /\ SalesBeginWithItem
<1>1. UNCHANGED <<stock, sold, granted, redeemed, purchases>>
  BY DEF OnRespPrepayReceived, OnReqPrepayReceived, store, customer
<1>2. StillItems
  BY <1>1, NoItemMoves DEF StillItems
<1>3. SalesBeginWithItem
  BY MessageTypes DEF TypeOK, SalesBeginWithItem, OnRespPrepayReceived, OnReqPrepayReceived,
                      ToMenu, customer
<1> QED
  BY <1>2, <1>3

\* A table that differs from another in one place.
LEMMA ChangedAt ==
    ASSUME NEW f \in [Machines -> [Drinks -> Int]], NEW g \in [Machines -> [Drinks -> Int]],
           NEW t \in Machines, NEW e \in Drinks, NEW v,
           g[t][e] = v,
           \A m \in Machines, d \in Drinks : ~(m = t /\ d = e) => g[m][d] = f[m][d]
    PROVE  g = [f EXCEPT ![t][e] = v]
<1> DEFINE h == [f EXCEPT ![t] = [f[t] EXCEPT ![e] = v]]
<1>1. ASSUME NEW m \in Machines PROVE g[m] = h[m]
  <2>1. CASE m = t
    <3>1. g[t] \in [Drinks -> Int] /\ f[t] \in [Drinks -> Int]
      OBVIOUS
    <3>2. g[t] = [f[t] EXCEPT ![e] = v]
      BY <3>1
    <3> QED
      BY <2>1, <3>2
  <2>2. CASE m # t
    <3>1. g[m] \in [Drinks -> Int] /\ f[m] \in [Drinks -> Int]
      OBVIOUS
    <3>2. g[m] = f[m]
      BY <2>2, <3>1
    <3> QED
      BY <2>2, <3>2
  <2> QED
    BY <2>1, <2>2
<1> QED
  BY <1>1

\* The ledger's tables hold numbers.
LEMMA TableTypes ==
    ASSUME TypeOK
    PROVE  /\ AsideOf \in [Machines -> [Drinks -> Int]]
           /\ GivenOf \in [Machines -> [Drinks -> Int]]
BY Counts DEF AsideOf, GivenOf

\* A granted request is the ledger's SetAside.
LEMMA GrantKeepsAccounts ==
    ASSUME TypeOK, Inv, Accounts, NEW q \in net, OnReqPrepayReceived(q),
           stock[q.dst][q.drink] >= 1
    PROVE  Accounts' /\ Ledger!SetAside(q.dst, q.drink)
<1> DEFINE t == q.dst
           e == q.drink
<1>1. /\ t \in Machines /\ e \in Drinks
      /\ UNCHANGED <<phase, drink, sold>>
  BY MessageTypes DEF OnReqPrepayReceived, customer
<1>2. stock[t][e] > 0
  <2>1. stock[t][e] \in 0..99
    BY <1>1, Counts
  <2> QED
    BY <2>1
<1> HIDE DEF t, e
<1>3. ASSUME NEW m \in Machines, NEW d \in Drinks
      PROVE  /\ stock'[m][d] = IF m = t /\ d = e THEN stock[m][d] - 1 ELSE stock[m][d]
             /\ Cardinality(Aside(m, d)') = IF m = t /\ d = e THEN Cardinality(Aside(m, d)) + 1
                                                             ELSE Cardinality(Aside(m, d))
             /\ HandedOver(m, d)' = HandedOver(m, d)
  BY GrantMoves DEF t, e
<1>4. ASSUME NEW m \in Machines, NEW d \in Drinks
      PROVE  Balanced(m, d)'
  <2>1. Balanced(m, d) /\ stock[m][d] \in 0..99 /\ sold[m][d] \in Nat
        /\ Cardinality(Aside(m, d)) \in Nat /\ Cardinality(HandedOver(m, d)) \in Nat
    BY Counts DEF Accounts
  <2>2. Total(m, d)' = Total(m, d)
    BY <1>1, <1>3, <2>1 DEF Total
  <2>3. CASE m = t /\ d = e
    <3>1. Total(m, d) = InitialStock[m][d]
      BY <1>2, <2>1, <2>3 DEF Balanced
    <3> QED
      BY <2>2, <3>1 DEF Balanced
  <2>4. CASE ~(m = t /\ d = e)
    BY <1>1, <1>3, <2>1, <2>2, <2>4 DEF Balanced
  <2> QED
    BY <2>3, <2>4
<1>5. Ledger!SetAside(t, e)
  <2>1. stock' = [stock EXCEPT ![t][e] = @ - 1]
    <3>1. DecreaseStock(t, e)
      BY DEF OnReqPrepayReceived, t, e
    <3> QED
      BY <1>1, <1>2, <3>1 DEF DecreaseStock, TypeOK
  <2>2. AsideOf' = [AsideOf EXCEPT ![t][e] = @ + 1]
    <3>1. \A m \in Machines, d \in Drinks : Cardinality(Aside(m, d)) \in Nat
      BY Counts
    <3>2. AsideOf' \in [Machines -> [Drinks -> Int]]
      BY <1>3, <3>1 DEF AsideOf
    <3>3. AsideOf'[t][e] = AsideOf[t][e] + 1
      BY <1>1, <1>3 DEF AsideOf
    <3>4. \A m \in Machines, d \in Drinks : ~(m = t /\ d = e) => AsideOf'[m][d] = AsideOf[m][d]
      BY <1>3 DEF AsideOf
    <3> QED
      BY <1>1, <3>2, <3>3, <3>4, ChangedAt, TableTypes
  <2>3. GivenOf' = GivenOf
    BY <1>1, <1>3 DEF GivenOf
  <2> QED
    BY <1>2, <2>1, <2>2, <2>3 DEF Ledger!SetAside
<1> QED
  BY <1>4, <1>5 DEF Accounts, t, e

\* A redemption is the ledger's HandOver.
LEMMA RedemptionKeepsAccounts ==
    ASSUME TypeOK, Inv, Accounts, NEW k \in Machines, DispenseReserved(k)
    PROVE  Accounts' /\ Ledger!HandOver(k, purchases[order[k]].drink)
<1> DEFINE e == purchases[order[k]].drink
<1>1. /\ e \in Drinks /\ purchases[order[k]].to = k
      /\ UNCHANGED <<stock, sold>> /\ SalesBeginWithItem
  <2>1. order[k] \in granted /\ purchases[order[k]].to = k
    BY DEF Inv, MachineOK, DispenseReserved
  <2>2. purchases[order[k]] \in PurchaseRecords
    BY <2>1, HistoryShape DEF TypeOK
  <2>3. SalesBeginWithItem
    BY DEF SalesBeginWithItem, DispenseReserved, ToMenu, TypeOK
  <2> QED
    BY <2>1, <2>2, <2>3 DEF DispenseReserved, PurchaseRecords
<1>2. ASSUME NEW m \in Machines, NEW d \in Drinks
      PROVE  /\ Cardinality(Aside(m, d)) = IF m = k /\ d = e THEN Cardinality(Aside(m, d)') + 1
                                            ELSE Cardinality(Aside(m, d)')
             /\ Cardinality(Aside(m, d)') \in Nat
             /\ Cardinality(HandedOver(m, d)') = IF m = k /\ d = e THEN Cardinality(HandedOver(m, d)) + 1
                                                 ELSE Cardinality(HandedOver(m, d))
  BY <1>1, RedemptionMoves
<1> HIDE DEF e
<1>3. ASSUME NEW m \in Machines, NEW d \in Drinks
      PROVE  Balanced(m, d)'
  <2>1. Balanced(m, d) /\ stock[m][d] \in 0..99 /\ sold[m][d] \in Nat
        /\ Cardinality(Aside(m, d)) \in Nat /\ Cardinality(HandedOver(m, d)) \in Nat
    BY Counts DEF Accounts
  <2>2. Total(m, d)' = Total(m, d)
    BY <1>1, <1>2, <2>1 DEF Total
  <2>3. stock[m][d] = 0 => (phase'[m] = "LOCAL_SALE" /\ drink'[m] = d =>
                               phase[m] = "LOCAL_SALE" /\ drink[m] = d)
    BY <1>1 DEF SalesBeginWithItem
  <2> QED
    BY <1>1, <2>1, <2>2, <2>3 DEF Balanced
<1>4. Ledger!HandOver(k, e)
  <2>1. AsideOf[k][e] > 0
    <3>1. Cardinality(Aside(k, e)) > 0
      BY <1>1, <1>2
    <3> QED
      BY <1>1, <3>1 DEF AsideOf
  <2>2. AsideOf' = [AsideOf EXCEPT ![k][e] = @ - 1]
    <3>1. AsideOf' \in [Machines -> [Drinks -> Int]]
      BY <1>2 DEF AsideOf
    <3>2. AsideOf'[k][e] = AsideOf[k][e] - 1
      BY <1>1, <1>2 DEF AsideOf
    <3>3. \A m \in Machines, d \in Drinks : ~(m = k /\ d = e) => AsideOf'[m][d] = AsideOf[m][d]
      BY <1>2 DEF AsideOf
    <3> QED
      BY <1>1, <3>1, <3>2, <3>3, ChangedAt, TableTypes
  <2>3. GivenOf' = [GivenOf EXCEPT ![k][e] = @ + 1]
    <3>1. \A m \in Machines, d \in Drinks : sold[m][d] \in Nat /\ Cardinality(HandedOver(m, d)) \in Nat
      BY Counts
    <3>2. GivenOf' \in [Machines -> [Drinks -> Int]]
      BY <1>1, <1>2, <3>1 DEF GivenOf
    <3>3. GivenOf'[k][e] = GivenOf[k][e] + 1
      BY <1>1, <1>2, <3>1 DEF GivenOf
    <3>4. \A m \in Machines, d \in Drinks : ~(m = k /\ d = e) => GivenOf'[m][d] = GivenOf[m][d]
      BY <1>1, <1>2 DEF GivenOf
    <3> QED
      BY <1>1, <3>2, <3>3, <3>4, ChangedAt, TableTypes
  <2> QED
    BY <1>1, <2>1, <2>2, <2>3 DEF Ledger!HandOver
<1> QED
  BY <1>3, <1>4 DEF Accounts, e

\* A local sale is the ledger's Sell, or SellShort when the last item is gone.
LEMMA SaleKeepsAccounts ==
    ASSUME TypeOK, Inv, Accounts, NEW k \in Machines, PayHere(k)
    PROVE  Accounts' /\ (Ledger!Sell(k, drink[k]) \/ Ledger!SellShort(k, drink[k]))
<1> DEFINE e == drink[k]
<1>1. /\ e \in Drinks /\ phase[k] = "LOCAL_SALE"
      /\ DecreaseStock(k, e)
      /\ sold' = [sold EXCEPT ![k][e] = @ + 1]
      /\ UNCHANGED <<purchases, granted, redeemed>>
      /\ phase'[k] = "MENU"
      /\ \A m \in Machines \ {k} : phase'[m] = phase[m] /\ drink'[m] = drink[m]
  BY DEF PayHere, Inv, MachineOK, ToMenu, TypeOK
<1>2. ASSUME NEW m \in Machines, NEW d \in Drinks
      PROVE  Aside(m, d)' = Aside(m, d) /\ HandedOver(m, d)' = HandedOver(m, d)
  BY <1>1, NoItemMoves
<1>3. \A m \in Machines, d \in Drinks :
         /\ stock[m][d] \in 0..99 /\ sold[m][d] \in Nat /\ InitialStock[m][d] \in 0..99
         /\ Cardinality(Aside(m, d)) \in Nat /\ Cardinality(HandedOver(m, d)) \in Nat
  BY Counts
<1>4. Balanced(k, e) /\ Total(k, e) = InitialStock[k][e]
  BY <1>1 DEF Accounts, Balanced
<1> HIDE DEF e
<1>5. ASSUME NEW m \in Machines, NEW d \in Drinks
      PROVE  /\ sold'[m][d] = IF m = k /\ d = e THEN sold[m][d] + 1 ELSE sold[m][d]
             /\ stock'[m][d] = IF m = k /\ d = e /\ stock[k][e] > 0 THEN stock[m][d] - 1 ELSE stock[m][d]
  <2>1. sold \in [Machines -> [Drinks -> Nat]]
    BY DEF TypeOK
  <2>2. /\ stock'[k][e] = IF stock[k][e] > 0 THEN stock[k][e] - 1 ELSE stock[k][e]
        /\ <<m, d>> # <<k, e>> => stock'[m][d] = stock[m][d]
    BY <1>1, DecreaseStockTypes
  <2> QED
    BY <1>1, <2>1, <2>2
<1>6. ASSUME NEW m \in Machines, NEW d \in Drinks
      PROVE  Balanced(m, d)'
  <2>1. Balanced(m, d)
    BY DEF Accounts
  <2>2. CASE m = k /\ d = e
    <3>1. CASE stock[k][e] > 0
      <4>1. stock'[m][d] = stock[m][d] - 1 /\ sold'[m][d] = sold[m][d] + 1
        BY <1>5, <2>2, <3>1
      <4>2. Total(m, d) = InitialStock[m][d]
        BY <1>4, <2>2
      <4>3. Total(m, d)' = InitialStock[m][d]
        BY <1>2, <1>3, <4>1, <4>2 DEF Total
      <4> QED
        BY <4>3 DEF Balanced
    <3>2. CASE stock[k][e] = 0
      <4>1. Total(m, d)' = InitialStock[m][d] + 1 /\ stock'[m][d] = 0
        BY <1>2, <1>3, <1>4, <1>5, <2>2, <3>2 DEF Total
      <4> QED
        BY <1>1, <2>2, <4>1 DEF Balanced
    <3> QED
      BY <1>1, <1>3, <3>1, <3>2
  <2>3. CASE m = k /\ d # e
    <3>1. Total(m, d)' = Total(m, d) /\ stock'[m][d] = stock[m][d]
      BY <1>2, <1>5, <2>3 DEF Total
    <3> QED
      BY <1>1, <2>1, <2>3, <3>1 DEF Balanced
  <2>4. CASE m # k
    <3>1. Total(m, d)' = Total(m, d) /\ stock'[m][d] = stock[m][d]
      BY <1>2, <1>5, <2>4 DEF Total
    <3> QED
      BY <1>1, <2>1, <2>4, <3>1 DEF Balanced
  <2> QED
    BY <2>2, <2>3, <2>4
<1>7. AsideOf' = AsideOf
  BY <1>2 DEF AsideOf
<1>8. GivenOf' = [GivenOf EXCEPT ![k][e] = @ + 1]
  <2>1. GivenOf' \in [Machines -> [Drinks -> Int]]
    BY <1>2, <1>3, <1>5 DEF GivenOf
  <2>2. GivenOf'[k][e] = GivenOf[k][e] + 1
    BY <1>1, <1>2, <1>3, <1>5 DEF GivenOf
  <2>3. \A m \in Machines, d \in Drinks : ~(m = k /\ d = e) => GivenOf'[m][d] = GivenOf[m][d]
    BY <1>2, <1>5 DEF GivenOf
  <2> QED
    BY <1>1, <2>1, <2>2, <2>3, ChangedAt, TableTypes
<1>9. CASE stock[k][e] > 0
  <2>1. stock' = [stock EXCEPT ![k][e] = @ - 1]
    BY <1>1, <1>9 DEF DecreaseStock, TypeOK
  <2> QED
    BY <1>6, <1>7, <1>8, <1>9, <2>1 DEF Ledger!Sell, Accounts, e
<1>10. CASE stock[k][e] = 0
  <2>1. stock' = stock
    BY <1>1, <1>10 DEF DecreaseStock, TypeOK
  <2>2. AsideOf[k][e] + GivenOf[k][e] = InitialStock[k][e]
    <3>1. AsideOf[k][e] = Cardinality(Aside(k, e))
          /\ GivenOf[k][e] = sold[k][e] + Cardinality(HandedOver(k, e))
      BY <1>1 DEF AsideOf, GivenOf
    <3> QED
      BY <1>1, <1>3, <1>4, <1>10, <3>1 DEF Total
  <2> QED
    BY <1>6, <1>7, <1>8, <1>10, <2>1, <2>2 DEF Ledger!SellShort, Accounts, e
<1> QED
  BY <1>1, <1>3, <1>9, <1>10
-----------------------------------------------------------------------------

LedgerVars == <<stock, AsideOf, GivenOf>>

\* What moves no item is a stutter of the ledger.
LEMMA StillIsStutter ==
    ASSUME StillItems
    PROVE  UNCHANGED LedgerVars
BY DEF StillItems, LedgerVars, AsideOf, GivenOf

\* Every step keeps the accounts and is one of the ledger's, or a stutter.
LEMMA LedgerNext ==
    ASSUME TypeOK, Inv, Accounts, [Next]_vars
    PROVE  Accounts' /\ [Ledger!Next]_LedgerVars
<1>1. ASSUME NEW m \in Machines, Customer(m) PROVE Accounts' /\ [Ledger!Next]_LedgerVars
  <2>1. CASE PayHere(m)
    <3>1. drink[m] \in Drinks
      BY <2>1 DEF PayHere, Inv, MachineOK
    <3> QED
      BY <2>1, <3>1, SaleKeepsAccounts DEF Ledger!Next
  <2>2. CASE DispenseReserved(m)
    <3>1. purchases[order[m]].drink \in Drinks
      BY <2>2, HistoryShape DEF DispenseReserved, Inv, MachineOK, TypeOK, PurchaseRecords
    <3> QED
      BY <2>2, <3>1, RedemptionKeepsAccounts DEF Ledger!Next
  <2>3. CASE ~PayHere(m) /\ ~DispenseReserved(m)
    BY <1>1, <2>3, CustomerStill, AccountsStay, StillIsStutter
  <2> QED
    BY <2>1, <2>2, <2>3
<1>2. ASSUME NEW q \in net, OnReqPrepayReceived(q) PROVE Accounts' /\ [Ledger!Next]_LedgerVars
  <2>1. CASE stock[q.dst][q.drink] >= 1
    <3>1. q.dst \in Machines /\ q.drink \in Drinks
      BY MessageTypes
    <3> QED
      BY <1>2, <2>1, <3>1, GrantKeepsAccounts DEF Ledger!Next
  <2>2. CASE ~(stock[q.dst][q.drink] >= 1)
    BY <1>2, <2>2, HandlerStill, AccountsStay, StillIsStutter
  <2> QED
    BY <2>1, <2>2
<1>3. ASSUME NEW a \in net, OnRespPrepayReceived(a) PROVE Accounts' /\ [Ledger!Next]_LedgerVars
  BY <1>3, HandlerStill, AccountsStay, StillIsStutter
<1>4. CASE UNCHANGED vars
  <2>1. StillItems /\ SalesBeginWithItem
    BY <1>4 DEF vars, customer, store, StillItems, SalesBeginWithItem, Aside, HandedOver
  <2> QED
    BY <2>1, AccountsStay, StillIsStutter
<1> QED
  BY <1>1, <1>2, <1>3, <1>4 DEF Next, Handler

\* No item is lost or given out twice, whatever answers are lost, late or
\* crossed; one local sale of a drink may go without an item, when the last one
\* was set aside between its check and its payment.
THEOREM AccountsBalance == Spec => []Accounts
<1>1. Init => Accounts
  BY AccountsInit
<1>2. TypeOK /\ Inv /\ Accounts /\ [Next]_vars => Accounts'
  BY LedgerNext
<1> QED
  BY <1>1, <1>2, Invariance, PTL DEF Spec

\* The machines implement the ledger, for any number of machines, drinks, codes,
\* items and purchases.
THEOREM ImplementsLedger == Spec => FollowsLedger
<1>1. Init => Ledger!Init
  <2> SUFFICES ASSUME Init PROVE Ledger!Init
    OBVIOUS
  <2>1. \A m \in Machines, d \in Drinks : Aside(m, d) = {} /\ HandedOver(m, d) = {} /\ sold[m][d] = 0
    BY DEF Init, Aside, HandedOver
  <2>2. Cardinality({}) = 0
    BY FS_EmptySet
  <2>3. AsideOf = [m \in Machines |-> [d \in Drinks |-> 0]]
    BY <2>1, <2>2 DEF AsideOf
  <2>4. GivenOf = [m \in Machines |-> [d \in Drinks |-> 0]]
    BY <2>1, <2>2 DEF GivenOf
  <2> QED
    BY <2>3, <2>4 DEF Init, Ledger!Init
<1>2. TypeOK /\ Inv /\ Accounts /\ [Next]_vars => [Ledger!Next]_LedgerVars
  BY LedgerNext
<1> QED
  BY <1>1, <1>2, Invariance, AccountsBalance, PTL DEF Spec, Ledger!Spec, FollowsLedger, LedgerVars
=============================================================================
