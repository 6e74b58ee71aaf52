------------------------- MODULE RepositoriesProofs -------------------------
(***************************************************************************)
(* Proofs about Repositories: the records of the orders, and that the code *)
(* repository implements the life cycle of codes.                          *)
(***************************************************************************)
EXTENDS Repositories, TLAPS

\* What Save needs to know of the order in hand, beside its type.
OpenOrderHasNoCode == IsOpen => current.certCode = NoCode

\* The order a redemption puts in hand is settled.
HeldOrdersSettled ==
    \A c \in AuthCodes :
        codes[c].status = "ACTIVE" =>
            codes[c].heldOrder \in OrderRecords /\ codes[c].heldOrder.payStatus = "APPROVED"

\* Only approved orders have a code.
CodedAreApproved ==
    \A i \in DOMAIN orders :
        orders[i].certCode # NoCode => orders[i].payStatus = "APPROVED"

\* The inductive invariant.
Inv == /\ TypeOK /\ OneRecordPerCode /\ CodesAreOnRecord
       /\ OpenOrderHasNoCode /\ HeldOrdersSettled /\ CodedAreApproved

\* HistoryIsKept, of one step.
Keeps ==
    \A i \in DOMAIN orders :
        /\ i \in DOMAIN orders'
        /\ orders[i].payStatus # "PENDING" =>
              /\ orders'[i].payStatus = orders[i].payStatus
              /\ orders'[i].certCode = orders[i].certCode

\* Save adds the record at the end, or puts it in the place of the one with its code.
LEMMA SaveWhere ==
    ASSUME OneRecordPerCode, orders \in Seq(OrderRecords),
           NEW o \in OrderRecords, Save(o)
    PROVE  \/ /\ orders' = Append(orders, o)
              /\ o.certCode = NoCode
                   \/ \A i \in DOMAIN orders : orders[i].certCode # o.certCode
           \/ /\ o.certCode # NoCode
              /\ \E k \in DOMAIN orders : /\ orders[k].certCode = o.certCode
                                          /\ orders' = [orders EXCEPT ![k] = o]
<1>1. CASE o.certCode # NoCode /\ RecordsOf(o.certCode) # {}
  <2>1. PICK k \in RecordsOf(o.certCode) : TRUE
    BY <1>1
  <2>2. k \in DOMAIN orders /\ orders[k].certCode = o.certCode
    BY <2>1 DEF RecordsOf
  <2>3. \A j \in RecordsOf(o.certCode) : j = k
    BY <1>1, <2>2 DEF RecordsOf, OneRecordPerCode
  <2>4. k \in Nat
    BY <2>2
  <2>5. k <= k
    BY <2>4
  <2>6. FirstRecordOf(o.certCode) = k
    BY <2>1, <2>3, <2>5 DEF FirstRecordOf
  <2> QED
    BY <1>1, <2>2, <2>6 DEF Save
<1>2. CASE o.certCode = NoCode \/ RecordsOf(o.certCode) = {}
  BY <1>2 DEF Save, RecordsOf
<1> QED
  BY <1>1, <1>2

\* What saving a record, none of which takes an approval back, does to all of them.
LEMMA SaveKeeps ==
    ASSUME Inv, NEW o \in OrderRecords, Save(o),
           o.certCode # NoCode => o.payStatus = "APPROVED"
    PROVE  /\ orders' \in Seq(OrderRecords)
           /\ OneRecordPerCode'
           /\ \A c \in AuthCodes :
                (\E i \in DOMAIN orders :
                    orders[i].certCode = c /\ orders[i].payStatus = "APPROVED")
                  => \E i \in DOMAIN orders' :
                    orders'[i].certCode = c /\ orders'[i].payStatus = "APPROVED"
           /\ \E i \in DOMAIN orders' : orders'[i] = o
           /\ CodedAreApproved' /\ Keeps
<1>0. orders \in Seq(OrderRecords) /\ OneRecordPerCode /\ CodedAreApproved
  BY DEF Inv, TypeOK
<1>1. CASE /\ orders' = Append(orders, o)
           /\ o.certCode = NoCode
                \/ \A i \in DOMAIN orders : orders[i].certCode # o.certCode
  <2>1. /\ orders' \in Seq(OrderRecords)
        /\ Len(orders) \in Nat
        /\ DOMAIN orders = 1..Len(orders) /\ DOMAIN orders' = 1..(Len(orders) + 1)
        /\ \A i \in 1..Len(orders) : orders'[i] = orders[i]
        /\ orders'[Len(orders) + 1] = o
    BY <1>0, <1>1
  <2>2. OneRecordPerCode'
    <3> SUFFICES ASSUME NEW i \in DOMAIN orders', NEW j \in DOMAIN orders',
                        orders'[i].certCode = orders'[j].certCode,
                        orders'[i].certCode # NoCode
                 PROVE  i = j
      BY DEF OneRecordPerCode
    <3>1. CASE i \in 1..Len(orders) /\ j \in 1..Len(orders)
      BY <1>0, <2>1, <3>1 DEF OneRecordPerCode
    <3>2. CASE i \notin 1..Len(orders) \/ j \notin 1..Len(orders)
      BY <1>1, <2>1, <3>2
    <3> QED
      BY <3>1, <3>2
  <2>3. \A i \in DOMAIN orders : i \in DOMAIN orders' /\ orders'[i] = orders[i]
    BY <2>1
  <2>4. Len(orders) + 1 \in DOMAIN orders'
    BY <2>1
  <2>5. CodedAreApproved'
    BY <1>0, <2>1 DEF CodedAreApproved
  <2>6. Keeps
    BY <2>3 DEF Keeps
  <2> QED
    BY <2>1, <2>2, <2>3, <2>4, <2>5, <2>6
<1>2. CASE /\ o.certCode # NoCode
           /\ \E k \in DOMAIN orders : /\ orders[k].certCode = o.certCode
                                       /\ orders' = [orders EXCEPT ![k] = o]
  <2>1. PICK k \in DOMAIN orders : /\ orders[k].certCode = o.certCode
                                   /\ orders' = [orders EXCEPT ![k] = o]
    BY <1>2
  <2>2. /\ orders' \in Seq(OrderRecords)
        /\ DOMAIN orders' = DOMAIN orders
    BY <1>0, <2>1
  <2>3. \A i \in DOMAIN orders :
          /\ orders'[i].certCode = orders[i].certCode
          /\ orders'[i].payStatus = orders[i].payStatus \/ orders'[i].payStatus = "APPROVED"
    BY <1>2, <2>1
  <2>4. OneRecordPerCode'
    BY <1>0, <2>2, <2>3 DEF OneRecordPerCode
  <2>5. orders'[k] = o
    BY <2>1
  <2>6. CodedAreApproved'
    BY <1>0, <2>2, <2>3 DEF CodedAreApproved
  <2>7. Keeps
    <3>1. \A i \in DOMAIN orders : i # k => orders'[i] = orders[i]
      BY <2>1
    <3>2. orders[k].payStatus = "APPROVED" /\ o.payStatus = "APPROVED"
      BY <1>0, <1>2, <2>1 DEF CodedAreApproved
    <3> QED
      BY <2>1, <2>2, <2>5, <3>1, <3>2 DEF Keeps
  <2> QED
    BY <2>1, <2>2, <2>3, <2>4, <2>5, <2>6, <2>7
<1> QED
  BY <1>0, <1>1, <1>2, SaveWhere

\* Init establishes the invariant.
LEMMA InitInv == Init => Inv
<1> SUFFICES ASSUME Init PROVE Inv
  OBVIOUS
<1>0. <<>> \in Seq(OrderRecords)
  OBVIOUS
<1>1. TypeOK
  BY <1>0 DEF Init, TypeOK
<1>2. OneRecordPerCode /\ CodesAreOnRecord /\ OpenOrderHasNoCode /\ HeldOrdersSettled
      /\ CodedAreApproved
  BY DEF Init, OneRecordPerCode, CodesAreOnRecord, OpenOrderHasNoCode, IsOpen,
         HeldOrdersSettled, CodedAreApproved
<1> QED
  BY <1>1, <1>2 DEF Inv

\* The order a creation or a settlement leaves in hand, and saves.
SavesCurrent ==
    /\ current' \in OrderRecords
    /\ current'.certCode # NoCode => current'.payStatus = "APPROVED"
    /\ current'.payStatus = "PENDING" => current'.certCode = NoCode
    /\ Save(current')
    /\ redeeming' \in AuthCodes \cup {NoCode}
    /\ UNCHANGED codes

\* A new order, an approval and a refusal are such steps.
LEMMA SettlingSteps ==
    ASSUME Inv,
           \/ \E d \in Drinks : CreateOrder(d)
           \/ ApproveLocal \/ Decline
           \/ \E c \in AuthCodes : ApprovePrepayment(c)
    PROVE  SavesCurrent
<1> USE DEF SavesCurrent, OrderRecords
<1>0. TypeOK /\ OpenOrderHasNoCode
  BY DEF Inv
<1>1. CASE \E d \in Drinks : CreateOrder(d)
  BY <1>1, RepositoriesAssumption DEF CreateOrder
<1>2. CASE ApproveLocal
  BY <1>0, <1>2 DEF ApproveLocal, IsOpen, TypeOK, OpenOrderHasNoCode
<1>3. CASE Decline
  BY <1>0, <1>3 DEF Decline, IsOpen, TypeOK, OpenOrderHasNoCode
<1>4. CASE \E c \in AuthCodes : ApprovePrepayment(c)
  BY <1>0, <1>4 DEF ApprovePrepayment, IsOpen, TypeOK, OpenOrderHasNoCode
<1> QED
  BY <1>1, <1>2, <1>3, <1>4

\* Such a step keeps the invariant.
LEMMA SavesCurrentInv == ASSUME Inv, SavesCurrent PROVE Inv'
<1>1. /\ orders' \in Seq(OrderRecords)
      /\ OneRecordPerCode' /\ CodedAreApproved'
      /\ \A c \in AuthCodes :
           (\E i \in DOMAIN orders :
               orders[i].certCode = c /\ orders[i].payStatus = "APPROVED")
             => \E i \in DOMAIN orders' :
               orders'[i].certCode = c /\ orders'[i].payStatus = "APPROVED"
  BY SaveKeeps DEF SavesCurrent
<1>2. TypeOK'
  BY <1>1 DEF Inv, SavesCurrent, TypeOK
<1>3. CodesAreOnRecord'
  BY <1>1 DEF Inv, SavesCurrent, CodesAreOnRecord
<1>4. OpenOrderHasNoCode' /\ HeldOrdersSettled'
  BY DEF Inv, SavesCurrent, OpenOrderHasNoCode, HeldOrdersSettled, IsOpen
<1> QED
  BY <1>1, <1>2, <1>3, <1>4 DEF Inv

\* A reservation puts its order on record together with its code.
LEMMA IncomingInv ==
    ASSUME Inv, NEW v \in Peers, NEW d \in Drinks, NEW c \in AuthCodes,
           RecordIncomingPrepayment(v, d, c)
    PROVE  Inv'
<1> DEFINE o == [vmid |-> v, drink |-> d, certCode |-> c, payStatus |-> "APPROVED"]
<1>1. /\ o \in OrderRecords /\ o.payStatus = "APPROVED" /\ o.certCode = c
      /\ Save(o)
      /\ codes' = [codes EXCEPT ![c] = [status |-> "ACTIVE", heldOrder |-> o]]
      /\ UNCHANGED <<current, redeeming>>
  BY DEF RecordIncomingPrepayment, OrderRecords
<1> HIDE DEF o
<1>2. /\ orders' \in Seq(OrderRecords)
      /\ OneRecordPerCode' /\ CodedAreApproved'
      /\ \A e \in AuthCodes :
           (\E i \in DOMAIN orders :
               orders[i].certCode = e /\ orders[i].payStatus = "APPROVED")
             => \E i \in DOMAIN orders' :
               orders'[i].certCode = e /\ orders'[i].payStatus = "APPROVED"
      /\ \E i \in DOMAIN orders' : orders'[i] = o
  BY <1>1, SaveKeeps
<1>3. TypeOK'
  BY <1>1, <1>2 DEF Inv, TypeOK
<1>4. CodesAreOnRecord'
  <2> SUFFICES ASSUME NEW e \in AuthCodes, codes'[e].status # "ABSENT"
               PROVE  \E i \in DOMAIN orders' :
                        orders'[i].certCode = e /\ orders'[i].payStatus = "APPROVED"
    BY DEF CodesAreOnRecord
  <2>1. CASE e = c
    BY <1>1, <1>2, <2>1
  <2>2. CASE e # c
    <3>1. codes'[e] = codes[e]
      BY <1>1, <2>2 DEF Inv, TypeOK
    <3> QED
      BY <1>2, <3>1 DEF Inv, CodesAreOnRecord
  <2> QED
    BY <2>1, <2>2
<1>5. OpenOrderHasNoCode'
  BY <1>1 DEF Inv, OpenOrderHasNoCode, IsOpen
<1>6. HeldOrdersSettled'
  BY <1>1 DEF Inv, TypeOK, HeldOrdersSettled
<1> QED
  BY <1>2, <1>3, <1>4, <1>5, <1>6 DEF Inv

\* A redemption changes no record.
LEMMA RedeemInv == ASSUME Inv, NEW c \in AuthCodes, Redeem(c) PROVE Inv'
<1>1. /\ UNCHANGED <<orders, codes>> /\ redeeming' = c
      /\ current' \in OrderRecords /\ current'.payStatus = "APPROVED"
  BY DEF Inv, Redeem, HeldOrdersSettled
<1>2. TypeOK' /\ OneRecordPerCode' /\ CodesAreOnRecord' /\ HeldOrdersSettled'
      /\ CodedAreApproved'
  BY <1>1 DEF Inv, TypeOK, OneRecordPerCode, CodesAreOnRecord, HeldOrdersSettled,
              CodedAreApproved
<1>3. OpenOrderHasNoCode'
  BY <1>1 DEF OpenOrderHasNoCode, IsOpen
<1> QED
  BY <1>2, <1>3 DEF Inv

\* Neither does its end; the code keeps its order.
LEMMA FinishInv == ASSUME Inv, FinishRedemption PROVE Inv'
<1>1. /\ UNCHANGED <<current, orders>>
      /\ redeeming' = NoCode
      /\ redeeming \in AuthCodes
      /\ \/ UNCHANGED codes
         \/ /\ codes[redeeming].status = "ACTIVE"
            /\ codes' = [codes EXCEPT ![redeeming] =
                           [codes[redeeming] EXCEPT !.status = "USED"]]
  BY DEF Inv, TypeOK, FinishRedemption, MarkAsUsed
<1>2. /\ codes' \in [AuthCodes -> [status    : {"ABSENT", "ACTIVE", "USED"},
                                  heldOrder : OrderRecords \cup {NoOrder}]]
      /\ \A c \in AuthCodes : /\ codes'[c].heldOrder = codes[c].heldOrder
                              /\ codes'[c].status = "ACTIVE" => codes[c].status = "ACTIVE"
                              /\ codes'[c].status # "ABSENT" => codes[c].status # "ABSENT"
  BY <1>1 DEF Inv, TypeOK
<1>3. TypeOK'
  BY <1>1, <1>2 DEF Inv, TypeOK
<1>4. CodesAreOnRecord' /\ HeldOrdersSettled'
  BY <1>1, <1>2 DEF Inv, CodesAreOnRecord, HeldOrdersSettled
<1>5. OneRecordPerCode' /\ OpenOrderHasNoCode' /\ CodedAreApproved'
  BY <1>1 DEF Inv, OneRecordPerCode, OpenOrderHasNoCode, CodedAreApproved, IsOpen
<1> QED
  BY <1>3, <1>4, <1>5 DEF Inv

\* Nor does the end of a transaction.
LEMMA ForgetInv == ASSUME Inv, Forget \/ UNCHANGED vars PROVE Inv'
<1>1. CASE Forget
  BY <1>1 DEF Inv, Forget, TypeOK, OneRecordPerCode, CodesAreOnRecord,
              HeldOrdersSettled, OpenOrderHasNoCode, CodedAreApproved, IsOpen
<1>2. CASE UNCHANGED vars
  BY <1>2 DEF Inv, vars, TypeOK, OneRecordPerCode, CodesAreOnRecord,
              HeldOrdersSettled, OpenOrderHasNoCode, CodedAreApproved, IsOpen
<1> QED
  BY <1>1, <1>2

\* The invariant is inductive.
THEOREM Invariance == Spec => []Inv
<1>1. Inv /\ [Next]_vars => Inv'
  <2> SUFFICES ASSUME Inv, [Next]_vars PROVE Inv'
    OBVIOUS
  <2>1. CASE \/ \E d \in Drinks : CreateOrder(d)
             \/ ApproveLocal \/ Decline
             \/ \E c \in AuthCodes : ApprovePrepayment(c)
    BY <2>1, SettlingSteps, SavesCurrentInv
  <2>2. CASE \E v \in Peers, d \in Drinks, c \in AuthCodes :
               RecordIncomingPrepayment(v, d, c)
    BY <2>2, IncomingInv
  <2>3. CASE \E c \in AuthCodes : Redeem(c)
    BY <2>3, RedeemInv
  <2>4. CASE FinishRedemption
    BY <2>4, FinishInv
  <2>5. CASE Forget \/ UNCHANGED vars
    BY <2>5, ForgetInv
  <2> QED
    BY <2>1, <2>2, <2>3, <2>4, <2>5 DEF Next
<1> QED
  BY InitInv, <1>1, PTL DEF Spec

\* Types, for every number of machines, drinks, codes and records.
THEOREM TypeCorrect == Spec => []TypeOK
<1>1. Inv => TypeOK
  BY DEF Inv
<1> QED
  BY Invariance, <1>1, PTL

\* A code identifies one record of OrderRepository, however codes are drawn.
THEOREM CodesIdentifyRecords == Spec => []OneRecordPerCode
<1>1. Inv => OneRecordPerCode
  BY DEF Inv
<1> QED
  BY Invariance, <1>1, PTL

\* Every accepted code stays backed by an approved order on record.
THEOREM AcceptedCodesAreOnRecord == Spec => []CodesAreOnRecord
<1>1. Inv => CodesAreOnRecord
  BY DEF Inv
<1> QED
  BY Invariance, <1>1, PTL

\* No step takes a record away or a decision back.
THEOREM HistoryStays == Spec => HistoryIsKept
<1>1. Inv /\ [Next]_vars => [Keeps]_vars
  <2> SUFFICES ASSUME Inv, Next PROVE Keeps
    OBVIOUS
  <2>1. CASE \/ \E d \in Drinks : CreateOrder(d)
             \/ ApproveLocal \/ Decline
             \/ \E c \in AuthCodes : ApprovePrepayment(c)
    BY <2>1, SettlingSteps, SaveKeeps DEF SavesCurrent
  <2>2. CASE \E v \in Peers, d \in Drinks, c \in AuthCodes :
               RecordIncomingPrepayment(v, d, c)
    <3>1. PICK v \in Peers, d \in Drinks, c \in AuthCodes :
               RecordIncomingPrepayment(v, d, c)
      BY <2>2
    <3>2. PICK o \in OrderRecords : Save(o) /\ o.payStatus = "APPROVED"
      BY <3>1 DEF RecordIncomingPrepayment, OrderRecords
    <3> QED
      BY <3>2, SaveKeeps
  <2>3. CASE UNCHANGED orders
    BY <2>3 DEF Keeps
  <2> QED
    BY <2>1, <2>2, <2>3 DEF Next, Forget, FinishRedemption, Redeem
<1> QED
  BY <1>1, Invariance, PTL DEF Spec, HistoryIsKept, Keeps

-----------------------------------------------------------------------------
(* The life cycle of codes.                                                *)

StatusOf == [c \in AuthCodes |-> codes[c].status]

\* All codes are absent in the beginning.
LEMMA LifeCycleInit == Init => LifeCycle!Init
  BY DEF Init, LifeCycle!Init

\* Every step is a grant, a use, or no step of the life cycle.
LEMMA LifeCycleStep ==
    ASSUME Inv, [Next]_vars
    PROVE  [LifeCycle!Next]_StatusOf
<1> USE DEF StatusOf
<1>0. codes \in [AuthCodes -> [status    : {"ABSENT", "ACTIVE", "USED"},
                              heldOrder : OrderRecords \cup {NoOrder}]]
  BY DEF Inv, TypeOK
<1>1. CASE \E v \in Peers, d \in Drinks, c \in AuthCodes :
             RecordIncomingPrepayment(v, d, c)
  <2>1. PICK v \in Peers, d \in Drinks, c \in AuthCodes :
             RecordIncomingPrepayment(v, d, c)
    BY <1>1
  <2>2. PICK o : codes' = [codes EXCEPT ![c] = [status |-> "ACTIVE", heldOrder |-> o]]
    BY <2>1 DEF RecordIncomingPrepayment
  <2>3. StatusOf' = [StatusOf EXCEPT ![c] = "ACTIVE"]
    BY <1>0, <2>2
  <2> QED
    BY <2>3 DEF LifeCycle!Next, LifeCycle!Grant
<1>2. CASE FinishRedemption
  <2>1. redeeming \in AuthCodes
    BY <1>2 DEF Inv, TypeOK, FinishRedemption
  <2>2. CASE codes[redeeming].status = "ACTIVE"
    <3>1. codes' = [codes EXCEPT ![redeeming] =
                      [codes[redeeming] EXCEPT !.status = "USED"]]
      BY <1>2, <2>2 DEF FinishRedemption, MarkAsUsed
    <3>2. StatusOf' = [StatusOf EXCEPT ![redeeming] = "USED"]
      BY <1>0, <2>1, <3>1
    <3> QED
      BY <2>1, <2>2, <3>2 DEF LifeCycle!Next, LifeCycle!Use
  <2>3. CASE codes[redeeming].status # "ACTIVE"
    BY <1>2, <2>3 DEF FinishRedemption
  <2> QED
    BY <2>2, <2>3
<1>3. CASE UNCHANGED codes
  BY <1>3
<1>4. UNCHANGED codes
        \/ FinishRedemption
        \/ \E v \in Peers, d \in Drinks, c \in AuthCodes :
             RecordIncomingPrepayment(v, d, c)
  BY DEF Next, vars, CreateOrder, ApproveLocal, Decline, Forget, ApprovePrepayment,
         Redeem
<1> QED
  BY <1>1, <1>2, <1>3, <1>4

\* The code repository implements the life cycle of codes.
THEOREM ImplementsLifeCycle == Spec => FollowsLifeCycle
<1>1. Inv /\ [Next]_vars => [LifeCycle!Next]_StatusOf
  BY LifeCycleStep
<1> QED
  BY LifeCycleInit, <1>1, Invariance, PTL
     DEF Spec, FollowsLifeCycle, LifeCycle!Spec, StatusOf
=============================================================================
