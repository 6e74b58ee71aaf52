---------------------------- MODULE Repositories ----------------------------
(***************************************************************************)
(* The stored orders and authentication codes of one machine, driven by    *)
(* OrderService and PrepaymentService in the order the controller calls    *)
(* them: src/persistence/OrderRepository.cpp, prepayCodeRepository.cpp.    *)
(***************************************************************************)
EXTENDS Integers, Sequences, FiniteSets

CONSTANTS
    Me,         \* this machine
    Peers,      \* the other machines
    Drinks,     \* drinks of the menu
    AuthCodes,  \* well-formed authentication codes
    NoCode,     \* the empty code
    NoOrder,    \* an order pointer or an optional order without a value
    MaxSaves    \* bound: records in the order repository

ASSUME RepositoriesAssumption ==
    /\ Me \notin Peers
    /\ NoCode \notin AuthCodes
    /\ MaxSaves \in Nat

OrderRecords ==
    [ vmid      : Peers \cup {Me},
      drink     : Drinks,
      certCode  : AuthCodes \cup {NoCode},
      payStatus : {"PENDING", "APPROVED", "DECLINED"} ]

ASSUME RecordAssumption == NoOrder \notin OrderRecords

VARIABLES
    current,    \* the controller's currentActiveOrder_
    redeeming,  \* the code whose drink is being dispensed
    orders,     \* OrderRepository::orders_
    codes       \* PrepayCodeRepository::codes_

vars == <<current, redeeming, orders, codes>>

Init ==
    /\ current = NoOrder /\ redeeming = NoCode
    /\ orders = <<>>
    /\ codes = [c \in AuthCodes |-> [status |-> "ABSENT", heldOrder |-> NoOrder]]

-----------------------------------------------------------------------------
RecordsOf(c) == { i \in DOMAIN orders : orders[i].certCode = c }

\* The record std::find_if finds.
FirstRecordOf(c) ==
    CHOOSE i \in RecordsOf(c) : \A j \in RecordsOf(c) : i <= j

\* Mutants: a record is always added; the record of the same drink is replaced.
AlwaysAppend(o) == orders' = Append(orders, o)
SaveByDrink(o) ==
    LET same == { i \in DOMAIN orders : orders[i].drink = o.drink }
    IN  orders' = IF same # {} THEN [orders EXCEPT ![CHOOSE i \in same : TRUE] = o]
                               ELSE Append(orders, o)

\* OrderRepository::save
Save(o) ==
    orders' = IF o.certCode # NoCode /\ RecordsOf(o.certCode) # {}
              THEN [orders EXCEPT ![FirstRecordOf(o.certCode)] = o]
              ELSE Append(orders, o)

\* The bound of the model.
RoomToSave == Len(orders) < MaxSaves

\* A payment is settled once: the controller does so with a PENDING order.
IsOpen == current # NoOrder /\ current.payStatus = "PENDING"

\* OrderService::createOrder; whatever was in hand is dropped.
CreateOrder(d) ==
    /\ RoomToSave
    /\ current' = [vmid |-> Me, drink |-> d, certCode |-> NoCode,
                   payStatus |-> "PENDING"]
    /\ Save(current')
    /\ redeeming' = NoCode
    /\ UNCHANGED codes

\* Mutant: the failed decrement of the stock ends in the exception handler.
ApproveLocalThenFail ==
    /\ RoomToSave /\ IsOpen
    /\ current' = [current EXCEPT !.payStatus = "ERROR_POST_APPROVAL"]
    /\ Save(current')
    /\ UNCHANGED <<redeeming, codes>>

\* processOrderApproval of a local order; decreaseStock throws nothing.
ApproveLocal ==
    /\ RoomToSave /\ IsOpen
    /\ current' = [current EXCEPT !.payStatus = "APPROVED"]
    /\ Save(current')
    /\ UNCHANGED <<redeeming, codes>>

\* processOrderApproval of a prepayment: c is drawn at random.
ApprovePrepayment(c) ==
    /\ RoomToSave /\ IsOpen
    /\ current' = [current EXCEPT !.payStatus = "APPROVED", !.certCode = c]
    /\ Save(current')
    /\ UNCHANGED <<redeeming, codes>>

\* processOrderDeclination
Decline ==
    /\ RoomToSave /\ IsOpen
    /\ current' = [current EXCEPT !.payStatus = "DECLINED"]
    /\ Save(current')
    /\ UNCHANGED <<redeeming, codes>>

\* resetCurrentTransactionState: the stores keep what they have.
Forget ==
    /\ current' = NoOrder /\ redeeming' = NoCode
    /\ UNCHANGED <<orders, codes>>

\* Mutant: the order of the reservation is not saved.
RecordCodeOnly(v, d, c) ==
    LET o == [vmid |-> v, drink |-> d, certCode |-> c, payStatus |-> "APPROVED"]
    IN  /\ RoomToSave
        /\ codes' = [codes EXCEPT ![c] = [status |-> "ACTIVE", heldOrder |-> o]]
        /\ UNCHANGED <<orders, current, redeeming>>

\* PrepaymentService::recordIncomingPrepayment
RecordIncomingPrepayment(v, d, c) ==
    LET o == [vmid |-> v, drink |-> d, certCode |-> c, payStatus |-> "APPROVED"]
    IN  /\ RoomToSave
        /\ Save(o)
        /\ codes' = [codes EXCEPT ![c] = [status |-> "ACTIVE", heldOrder |-> o]]
        /\ UNCHANGED <<current, redeeming>>

\* getPrepaymentDetailsIfActive, and the order it leads to
Redeem(c) ==
    /\ current = NoOrder
    /\ codes[c].status = "ACTIVE"
    /\ current' = codes[c].heldOrder
    /\ redeeming' = c
    /\ UNCHANGED <<orders, codes>>

\* Mutant: the record of the code is thrown away.
EraseCode(c) == [status |-> "ABSENT", heldOrder |-> NoOrder]

\* PrePaymentCode::markAsUsed
MarkAsUsed(c) == [codes[c] EXCEPT !.status = "USED"]

\* changeAuthCodeStatusToUsed.  updateStatus returns false on every path, so an error
\* is reported in any case; nobody acts on it.
FinishRedemption ==
    /\ redeeming # NoCode
    /\ codes' = IF codes[redeeming].status = "ACTIVE"
                THEN [codes EXCEPT ![redeeming] = MarkAsUsed(redeeming)] ELSE codes
    /\ redeeming' = NoCode
    /\ UNCHANGED <<current, orders>>

Next ==
    \/ \E d \in Drinks : CreateOrder(d)
    \/ ApproveLocal \/ Decline \/ Forget \/ FinishRedemption
    \/ \E c \in AuthCodes : ApprovePrepayment(c) \/ Redeem(c)
    \/ \E v \in Peers, d \in Drinks, c \in AuthCodes : RecordIncomingPrepayment(v, d, c)

Spec == Init /\ [][Next]_vars

-----------------------------------------------------------------------------
TypeOK ==
    /\ current \in OrderRecords \cup {NoOrder}
    /\ redeeming \in AuthCodes \cup {NoCode}
    /\ orders \in Seq(OrderRecords)
    /\ codes \in [AuthCodes -> [status    : {"ABSENT", "ACTIVE", "USED"},
                                heldOrder : OrderRecords \cup {NoOrder}]]

\* However codes are drawn, issued and received again, no two records carry the
\* same code: the code alone identifies an order (findByCertCode).
OneRecordPerCode ==
    \A i, j \in DOMAIN orders :
        orders[i].certCode = orders[j].certCode /\ orders[i].certCode # NoCode => i = j

\* Every code the machine has accepted is backed by an approved order on record,
\* also after the machine itself has drawn the same code for a customer of its own.
CodesAreOnRecord ==
    \A c \in AuthCodes : codes[c].status # "ABSENT" =>
        \E i \in DOMAIN orders :
            orders[i].certCode = c /\ orders[i].payStatus = "APPROVED"

\* No record disappears, and a settled one keeps its status and code; what a code
\* that is drawn twice replaces is the order behind it, never a decision.
HistoryIsKept ==
    [][ \A i \in DOMAIN orders :
          /\ i \in DOMAIN orders'
          /\ orders[i].payStatus # "PENDING" =>
                /\ orders'[i].payStatus = orders[i].payStatus
                /\ orders'[i].certCode = orders[i].certCode ]_vars

LifeCycle == INSTANCE CodeLifeCycle WITH status <- [c \in AuthCodes |-> codes[c].status]

\* The code repository implements the life cycle of codes.
FollowsLifeCycle == LifeCycle!Spec
=============================================================================
