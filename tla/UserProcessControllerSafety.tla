--------------------- MODULE UserProcessControllerSafety ---------------------
(***************************************************************************)
(* The safety invariants of UserProcessController, each proved from a      *)
(* strengthening that is inductive relative to IInv: the accounts of the   *)
(* items, the one request of a prepayment, the error behind the error      *)
(* screen, the codes and orders behind what is dispensed, and the items    *)
(* behind the codes.                                                       *)
(***************************************************************************)
EXTENDS UserProcessControllerProofs, FiniteSetTheorems

USE DEF sharedVars, transactionVars, timerVars, saleVars, codeVars, networkVars,
        countVars

-----------------------------------------------------------------------------
(* The accounts of the items.                                              *)

IsPending ==
    currentActiveOrder # NoOrder /\ currentActiveOrder.payStatus = "PENDING"

\* All items of the drink are where they should be.
Balanced(d) == stock[d] + localSales[d] + reserved[d] = InitialStock[d]

\* A local sale that is under way started with an item in stock: its drink has not
\* been oversold, so it may be now.
OpenSalesBalanced ==
    /\ pc = "select_in_stock" => Balanced(pendingDrinkSelection)
    /\ IsPending /\ ~isCurrentOrderPrepayment => Balanced(currentActiveOrder.drink)

\* A pending order is for a drink of the menu and nobody has been asked for it.
PendingFresh ==
    IsPending => /\ currentActiveOrder.drink \in Drinks
                 /\ currentActiveOrder.certCode = NoCode
                 /\ ~requestSent

Accounts == OversellsOnlyLastItem /\ OpenSalesBalanced /\ PendingFresh

SomeReqPrepay ==
    \E d \in Drinks \cup {UnknownDrink}, c \in AuthCodes, n \in ItemNums :
        OnReqPrepayReceived(d, c, n)

\* What the accounts speak of stays.
Quiet ==
    /\ UNCHANGED <<saleVars, currentActiveOrder, isCurrentOrderPrepayment,
                   requestSent>>
    /\ \/ UNCHANGED <<pc, pendingDrinkSelection>>
       \/ pc' # "select_in_stock"

\* A step that touches no item and no order keeps the accounts.
LEMMA QuietAccounts == ASSUME IInv, Accounts, Quiet PROVE Accounts'
<1>1. UNCHANGED <<stock, localSales, reserved, currentActiveOrder,
                  isCurrentOrderPrepayment, requestSent>>
  BY DEF Quiet
<1>2. OversellsOnlyLastItem'
  BY <1>1 DEF Accounts, OversellsOnlyLastItem
<1>3. OpenSalesBalanced'
  BY <1>1 DEF Accounts, Quiet, OpenSalesBalanced, IsPending, Balanced
<1>4. PendingFresh'
  BY <1>1 DEF Accounts, PendingFresh, IsPending
<1> QED
  BY <1>2, <1>3, <1>4 DEF Accounts

\* Most sections of the main thread are such steps,
LEMMA QuietSteps ==
    ASSUME \/ Initialize \/ RunLoop \/ ChangeState \/ BeginPayment \/ ConfirmPayment
           \/ BeginDispensing \/ FinishDispensing \/ BeginBroadcast
           \/ SendStockRequest \/ ArmTimer \/ WakeUp \/ GiveUpWaiting
           \/ BeginOptions \/ BeginIssuing \/ ShowAuthCode \/ TakeError
    PROVE  Quiet
<1>1. CASE RunLoop
  BY <1>1, EntryPointValues DEF RunLoop, Quiet
<1>2. CASE ~RunLoop
  BY <1>2
     DEF Quiet, Initialize, ChangeState, BeginPayment, ConfirmPayment,
         BeginDispensing, FinishDispensing, BeginBroadcast, SendStockRequest,
         ArmTimer, WakeUp, GiveUpWaiting, BeginOptions, BeginIssuing, ShowAuthCode,
         TakeError, IfPresent
<1> QED
  BY <1>1, <1>2

\* and so is every handler but that of REQ_PREPAY.
LEMMA QuietHandlers ==
    ASSUME Timer \/ Messages
    PROVE  \/ Quiet
           \/ SomeReqPrepay
  BY DEF Quiet, SomeReqPrepay, Timer, Messages, OnReqStockReceived,
         OnRespStockReceived, OnMalformedRespStock, OnMalformedReqPrepay,
         OnRespPrepayReceived, OnMalformedRespPrepay, ExpireTimer, HandleTimeout

\* The counts are natural numbers.
LEMMA CountsOfDrinks ==
    ASSUME IInv
    PROVE  /\ DOMAIN stock = Drinks /\ DOMAIN localSales = Drinks
           /\ DOMAIN reserved = Drinks
           /\ \A e \in Drinks : /\ stock[e] \in Nat /\ localSales[e] \in Nat
                                /\ reserved[e] \in Nat /\ InitialStock[e] \in Nat
<1>1. stock \in [Drinks -> 0..99] /\ InitialStock \in [Drinks -> 0..99]
  BY ConstantsAssumption DEF IInv, StoresOK
<1>2. localSales \in [Drinks -> Nat] /\ reserved \in [Drinks -> Nat]
  BY DEF IInv, StoresOK
<1>3. \A e \in Drinks : stock[e] \in 0..99 /\ InitialStock[e] \in 0..99
  BY <1>1
<1>4. \A e \in Drinks : stock[e] \in Nat /\ InitialStock[e] \in Nat
  BY <1>3
<1> QED
  BY <1>1, <1>2, <1>4

\* Where an open sale comes from: the item that was seen proves that the drink has
\* not been oversold.
LEMMA CheckStockAccounts == ASSUME IInv, Accounts, CheckStock PROVE Accounts'
<1>1. pendingDrinkSelection \in Drinks
  BY DEF IInv, FieldsOK, Carried, InformationPresent, CheckStock
<1>2. OversellsOnlyLastItem' /\ PendingFresh'
  BY DEF CheckStock, Accounts, OversellsOnlyLastItem, PendingFresh, IsPending
<1>3. OpenSalesBalanced'
  BY <1>1
     DEF CheckStock, Accounts, OversellsOnlyLastItem, OpenSalesBalanced, IsPending,
         Balanced, IInv, StoresOK
<1> QED
  BY <1>2, <1>3 DEF Accounts

\* The order of a local sale takes over what the check of the stock has shown.
LEMMA CommitSelectionAccounts ==
    ASSUME IInv, Accounts, CommitSelection
    PROVE  Accounts'
<1>1. pendingDrinkSelection \in Drinks
  BY DEF IInv, FieldsOK, Carried, InformationPresent, CommitSelection
<1>2. OversellsOnlyLastItem'
  BY DEF CommitSelection, Accounts, OversellsOnlyLastItem
<1>4. CASE pc = "select_in_stock"
  BY <1>1, <1>2, <1>4
     DEF CommitSelection, CreateOrder, Accounts, OpenSalesBalanced, PendingFresh,
         IsPending, Balanced
<1>5. CASE pc = "select_sold_out"
  BY <1>2, <1>5
     DEF CommitSelection, Accounts, OpenSalesBalanced, PendingFresh, IsPending,
         Balanced
<1> QED
  BY <1>4, <1>5 DEF CommitSelection

\* The order of a prepayment is fresh.
LEMMA ConfirmPrepaymentAccounts ==
    ASSUME IInv, Accounts, ConfirmPrepayment
    PROVE  Accounts'
<1>1. pendingDrinkSelection \in Drinks
  BY DEF IInv, FieldsOK, Carried, InformationPresent, ConfirmPrepayment
<1>2. OversellsOnlyLastItem'
  BY DEF ConfirmPrepayment, Accounts, OversellsOnlyLastItem
<1> QED
  BY <1>1, <1>2
     DEF ConfirmPrepayment, CreateOrder, Accounts, OpenSalesBalanced, PendingFresh,
         IsPending, Balanced

\* The sale of a balanced drink takes an item, or oversells a drink whose stock is 0.
LEMMA ApproveLocalAccounts == ASSUME IInv, Accounts, ApproveLocal PROVE Accounts'
<1> DEFINE d == currentActiveOrder.drink
<1>1. IsPending /\ Balanced(d) /\ d \in Drinks
  BY DEF ApproveLocal, Accounts, OpenSalesBalanced, PendingFresh, IsPending, IInv,
         Carried, LabelCarries, PayLabels, PendingOrder, HasPurchase
<1>2. currentActiveOrder \in Orders
  BY <1>1 DEF IInv, FieldsOK, IsPending
<1>3. ~IsPending'
  BY <1>2 DEF ApproveLocal, IsPending, Orders
<1>4. /\ DOMAIN stock = Drinks /\ DOMAIN localSales = Drinks
      /\ \A e \in Drinks : /\ stock[e] \in Nat /\ localSales[e] \in Nat
                           /\ reserved[e] \in Nat /\ InitialStock[e] \in Nat
  BY CountsOfDrinks
<1>5. ASSUME NEW e \in Drinks, e # d
      PROVE  /\ stock'[e] = stock[e] /\ localSales'[e] = localSales[e]
             /\ reserved'[e] = reserved[e]
  BY <1>5, <1>4 DEF ApproveLocal, DecreaseStock
<1>6. localSales'[d] = localSales[d] + 1 /\ reserved'[d] = reserved[d]
  BY <1>1, <1>4 DEF ApproveLocal
<1>7. stock'[d] = stock[d] - 1 \/ (stock[d] = 0 /\ stock'[d] = 0)
  <2>1. CASE stock[d] >= 1
    <3>1. stock' = [stock EXCEPT ![d] = @ - 1]
      BY <1>1, <2>1 DEF ApproveLocal, DecreaseStock
    <3> HIDE DEF d
    <3> QED
      BY <1>1, <1>4, <3>1
  <2>2. CASE ~(stock[d] >= 1)
    <3>1. stock' = stock
      BY <2>2 DEF ApproveLocal, DecreaseStock
    <3>2. stock[d] \in Nat
      BY <1>1, <1>4
    <3> HIDE DEF d
    <3> QED
      BY <2>2, <3>1, <3>2
  <2> QED
    BY <2>1, <2>2
<1>8. OversellsOnlyLastItem'
  <2> SUFFICES ASSUME NEW e \in Drinks
               PROVE  \/ stock'[e] + localSales'[e] + reserved'[e] = InitialStock[e]
                      \/ /\ stock'[e] = 0
                         /\ localSales'[e] + reserved'[e] = InitialStock[e] + 1
    BY DEF OversellsOnlyLastItem
  <2>1. CASE e = d
    <3> HIDE DEF d
    <3> QED
      BY <2>1, <1>1, <1>4, <1>6, <1>7 DEF Balanced
  <2>2. CASE e # d
    BY <2>2, <1>5 DEF Accounts, OversellsOnlyLastItem
  <2> QED
    BY <2>1, <2>2
<1> QED
  BY <1>3, <1>8 DEF Accounts, OpenSalesBalanced, PendingFresh, ApproveLocal

\* Without a pending order no sale is open.
LEMMA NotPendingAccounts ==
    ASSUME IInv, Accounts, UNCHANGED saleVars, pc' # "select_in_stock", ~IsPending'
    PROVE  Accounts'
<1>1. OversellsOnlyLastItem'
  BY DEF Accounts, OversellsOnlyLastItem
<1> QED
  BY <1>1 DEF Accounts, OpenSalesBalanced, PendingFresh

\* An order that is dropped, declined or approved as a prepayment is not pending.
LEMMA SettledAccounts ==
    ASSUME IInv, Accounts, ResetTransaction \/ ApprovePrepayment \/ DeclinePayment
    PROVE  Accounts'
<1>2. UNCHANGED saleVars /\ pc' # "select_in_stock"
  BY DEF ResetTransaction, ApprovePrepayment, DeclinePayment
<1>3. ~IsPending'
  <2>1. CASE ResetTransaction
    BY <2>1 DEF ResetTransaction, ResetCurrentTransaction, IsPending
  <2>2. CASE ApprovePrepayment \/ DeclinePayment
    <3>1. currentActiveOrder \in Orders
      BY <2>2
         DEF ApprovePrepayment, DeclinePayment, IInv, FieldsOK, Carried,
             InformationPresent, HasPurchase
    <3> QED
      BY <2>2, <3>1 DEF ApprovePrepayment, DeclinePayment, IsPending, Orders
  <2> QED
    BY <2>1, <2>2
<1> QED
  BY <1>2, <1>3, NotPendingAccounts

\* A request is sent for an order that has its code.
LEMMA SendPrepaymentRequestAccounts ==
    ASSUME IInv, Accounts, SendPrepaymentRequest
    PROVE  Accounts'
<1>2. UNCHANGED saleVars /\ pc' # "select_in_stock"
  BY DEF SendPrepaymentRequest
<1>3. ~IsPending'
  BY DEF SendPrepaymentRequest, Accounts, PendingFresh, IsPending, IInv, Carried,
         InformationPresent, HasCode
<1> QED
  BY <1>2, <1>3, NotPendingAccounts

\* The order of a redeemed code is approved from the start.
LEMMA EnterAuthCodeAccounts ==
    ASSUME IInv, Accounts, EnterAuthCode
    PROVE  Accounts'
<1>2. UNCHANGED saleVars /\ pc' # "select_in_stock"
  BY DEF EnterAuthCode
<1>3. CASE UNCHANGED transactionVars
  <2>1. Quiet
    BY <1>2, <1>3 DEF EnterAuthCode, Quiet
  <2> QED
    BY <2>1, QuietAccounts
<1>4. CASE \E c \in AuthCodes :
             currentActiveOrder' = [drink |-> codes[c].drink, certCode |-> c,
                                    payStatus |-> "APPROVED"]
  <2>1. ~IsPending'
    BY <1>4 DEF IsPending
  <2> QED
    BY <1>2, <2>1, NotPendingAccounts
<1> QED
  BY <1>3, <1>4 DEF EnterAuthCode

\* A reservation moves items of a balanced drink; an oversold one has none left.
LEMMA OnReqPrepayReceivedAccounts ==
    ASSUME IInv, Accounts,
           NEW d \in Drinks \cup {UnknownDrink}, NEW c \in AuthCodes,
           NEW n \in ItemNums, OnReqPrepayReceived(d, c, n)
    PROVE  Accounts'
<1>1. CASE UNCHANGED saleVars
  <2>1. Quiet
    BY <1>1 DEF Quiet, OnReqPrepayReceived
  <2> QED
    BY <2>1, QuietAccounts
<1>2. CASE CanReserve(d, n)
  <2>1. /\ DOMAIN stock = Drinks /\ DOMAIN reserved = Drinks
        /\ \A e \in Drinks : /\ stock[e] \in Nat /\ localSales[e] \in Nat
                             /\ reserved[e] \in Nat /\ InitialStock[e] \in Nat
    BY CountsOfDrinks
  <2>2. d \in Drinks /\ n \in Nat
    BY <1>2, ConstantsAssumption DEF CanReserve, StockOf
  <2>3. /\ stock[d] > 0 /\ stock[d] >= n
        /\ stock' = [stock EXCEPT ![d] = @ - n]
        /\ reserved' = [reserved EXCEPT ![d] = @ + n]
        /\ UNCHANGED localSales
    BY <1>2, <2>2 DEF OnReqPrepayReceived, CanReserve, DecreaseStock, StockOf
  <2>4. /\ Balanced(d) /\ Balanced(d)'
        /\ \A e \in Drinks : stock'[e] + reserved'[e] = stock[e] + reserved[e]
        /\ \A e \in Drinks : e # d => /\ stock'[e] = stock[e]
                                      /\ reserved'[e] = reserved[e]
    BY <2>1, <2>2, <2>3 DEF Balanced, Accounts, OversellsOnlyLastItem
  <2>5. \A e \in Drinks : Balanced(e) => Balanced(e)'
    BY <2>1, <2>3, <2>4 DEF Balanced
  <2>6. OversellsOnlyLastItem'
    <3> SUFFICES
          ASSUME NEW e \in Drinks
          PROVE  \/ stock'[e] + localSales'[e] + reserved'[e] = InitialStock[e]
                 \/ /\ stock'[e] = 0
                    /\ localSales'[e] + reserved'[e] = InitialStock[e] + 1
      BY DEF OversellsOnlyLastItem
    <3>1. CASE e = d
      BY <3>1, <2>4 DEF Balanced
    <3>2. CASE e # d
      BY <3>2, <2>3, <2>4 DEF Accounts, OversellsOnlyLastItem
    <3> QED
      BY <3>1, <3>2
  <2>7. UNCHANGED <<pc, currentActiveOrder, isCurrentOrderPrepayment, requestSent,
                    pendingDrinkSelection>>
    BY DEF OnReqPrepayReceived
  <2>8. pc = "select_in_stock" => pendingDrinkSelection \in Drinks
    BY DEF IInv, FieldsOK, Carried, InformationPresent
  <2>9. OpenSalesBalanced' /\ PendingFresh'
    BY <2>5, <2>7, <2>8
       DEF Accounts, OpenSalesBalanced, PendingFresh, IsPending, Balanced
  <2> QED
    BY <2>6, <2>9 DEF Accounts
<1> QED
  BY <1>1, <1>2 DEF OnReqPrepayReceived

\* At the start every drink is balanced and no sale is open.
LEMMA InitAccounts == ASSUME Init PROVE Accounts
  BY ConstantsAssumption
     DEF Init, Accounts, OversellsOnlyLastItem, OpenSalesBalanced, PendingFresh,
         IsPending

\* Every step of either thread keeps the accounts.
LEMMA NextAccounts == ASSUME IInv, Accounts, [Next]_vars PROVE Accounts'
<1>1. CASE Quiet
  BY <1>1, QuietAccounts
<1>2. CASE Timer \/ Messages
  BY <1>1, <1>2, QuietHandlers, OnReqPrepayReceivedAccounts DEF SomeReqPrepay
<1>3. CASE MainInternal
  BY <1>1, <1>3, QuietSteps, SettledAccounts, CheckStockAccounts,
     CommitSelectionAccounts, ApproveLocalAccounts, ConfirmPrepaymentAccounts,
     SendPrepaymentRequestAccounts
     DEF MainInternal
<1>4. CASE Customer
  <2>1. ChooseMenu \/ SelectDrink => Quiet
    BY DEF ChooseMenu, SelectDrink, Quiet
  <2> QED
    BY <1>1, <1>4, <2>1, EnterAuthCodeAccounts DEF Customer
<1>5. CASE Stopped \/ UNCHANGED vars
  BY <1>1, <1>5 DEF Stopped, vars, Quiet
<1> QED
  BY <1>2, <1>3, <1>4, <1>5 DEF Next

\* However the sale of the last item races with reservations, and whatever else the
\* threads do: a drink is oversold by at most one item, and only after its last.
THEOREM OversellingIsBounded == Spec => []OversellsOnlyLastItem
<1>1. Init => Accounts
  BY InitAccounts
<1>2. IInv /\ Accounts /\ [Next]_vars => Accounts'
  BY NextAccounts
<1>3. Accounts => OversellsOnlyLastItem
  BY DEF Accounts
<1> QED
  BY <1>1, <1>2, <1>3, Invariance, PTL DEF Spec

-----------------------------------------------------------------------------
(* One request for each prepayment.                                        *)

AfterRequest == {"issue_arm", "issue_wait", "issue_self_lock"}

\* The flag of the wait goes up only with a change of state, so the section that
\* sends the request is not entered again for the same order.
AskingOnce ==
    /\ pc \in {"issue_begin", "issue_send"} => ~requestSent
    /\ pc \in {"issue_send", "issue_arm", "issue_wait"} /\ cvDataReady
         => currentState # "ISSUING_AUTH_CODE"
    /\ currentState = "ISSUING_AUTH_CODE" /\ pc \notin Forgetful \cup AfterRequest
         => ~requestSent

\* Every step keeps the requests of one order to one.
LEMMA NextAsking == ASSUME IInv, Accounts, AskingOnce, [Next]_vars PROVE AskingOnce'
<1>1. CASE MainInternal
  <2>1. CASE RunLoop
    BY <2>1, EntryPointValues DEF RunLoop, AskingOnce, Forgetful, AfterRequest
  <2>2. CASE ChangeState
    BY <2>2, ChangesToValues DEF ChangeState, AskingOnce, Forgetful, AfterRequest
  <2>3. CASE Initialize \/ ResetTransaction \/ CheckStock \/ CommitSelection
              \/ BeginPayment \/ ConfirmPayment \/ ApproveLocal \/ DeclinePayment
    BY <2>3
       DEF AskingOnce, Forgetful, AfterRequest, Initialize, ResetTransaction,
           CheckStock, CommitSelection, BeginPayment, ConfirmPayment, ApproveLocal,
           DeclinePayment, IfPresent, RaiseAndWake, ResetCurrentTransaction,
           CreateOrder
  <2>9. CASE ApprovePrepayment
    <3>1. ~requestSent
      BY <2>9
         DEF ApprovePrepayment, Accounts, PendingFresh, IsPending, IInv, Carried,
             LabelCarries, PayLabels, PendingOrder, HasPurchase
    <3> QED
      BY <3>1, <2>9 DEF ApprovePrepayment, AskingOnce, Forgetful, AfterRequest
  <2>4. CASE BeginDispensing \/ FinishDispensing
            \/ BeginBroadcast \/ SendStockRequest \/ ArmTimer
            \/ WakeUp \/ GiveUpWaiting
            \/ BeginOptions \/ ConfirmPrepayment
            \/ SendPrepaymentRequest \/ ShowAuthCode \/ TakeError
    BY <2>4
       DEF AskingOnce, Forgetful, AfterRequest, BeginDispensing, FinishDispensing,
           BeginBroadcast, SendStockRequest, ArmTimer, WakeUp, GiveUpWaiting,
           BeginOptions, ConfirmPrepayment, SendPrepaymentRequest, ShowAuthCode,
           TakeError, IfPresent, RaiseAndWake, CreateOrder
  <2>5. CASE BeginIssuing
    BY <2>5
       DEF BeginIssuing, AskingOnce, Forgetful, AfterRequest, IInv, Carried,
           InformationPresent
  <2> QED
    BY <1>1, <2>1, <2>2, <2>3, <2>9, <2>4, <2>5 DEF MainInternal
<1>2. CASE Customer
  BY <1>2
     DEF Customer, ChooseMenu, SelectDrink, EnterAuthCode, AskingOnce, Forgetful,
         AfterRequest
<1>3. CASE Timer
  BY <1>3 DEF Timer, ExpireTimer, HandleTimeout, RaiseAndWake, AskingOnce
<1>4. CASE Messages
  <2>1. CASE \E r \in prepayReplies : OnRespPrepayReceived(r)
    <3>1. \/ UNCHANGED <<pc, requestSent, currentState, cvDataReady>>
          \/ UNCHANGED <<pc, requestSent>> /\ currentState' # "ISSUING_AUTH_CODE"
      BY <2>1 DEF OnRespPrepayReceived, AcceptPrepayAnswer
    <3> QED
      BY <3>1 DEF AskingOnce
  <2>2. CASE \E p \in Peers, d \in Drinks : OnRespStockReceived(p, d)
    BY <2>2 DEF OnRespStockReceived, AskingOnce
  <2>3. CASE OnReqStockReceived \/ OnMalformedRespStock \/ OnMalformedReqPrepay
    <3>1. UNCHANGED <<pc, transactionVars, codeVars, networkVars>>
      BY <2>3 DEF OnReqStockReceived, OnMalformedRespStock, OnMalformedReqPrepay
    <3>2. \/ UNCHANGED <<currentState, cvDataReady>>
          \/ currentState' = "HANDLING_ERROR"
      BY <2>3
         DEF OnReqStockReceived, OnMalformedRespStock, OnMalformedReqPrepay,
             RaiseAndWake
    <3> QED
      BY <3>1, <3>2 DEF AskingOnce
  <2>4. CASE OnMalformedRespPrepay
    BY <2>4 DEF OnMalformedRespPrepay, AcceptPrepayAnswer, AskingOnce
  <2>5. CASE SomeReqPrepay
    BY <2>5 DEF SomeReqPrepay, OnReqPrepayReceived, AskingOnce
  <2> QED
    BY <1>4, <2>1, <2>2, <2>3, <2>4, <2>5 DEF Messages, SomeReqPrepay
<1>5. CASE Stopped \/ UNCHANGED vars
  BY <1>5 DEF Stopped, vars, AskingOnce
<1> QED
  BY <1>1, <1>2, <1>3, <1>4, <1>5 DEF Next

\* A target is asked at most once for each paid order, although the request is sent
\* in a loop that waits for its answer.
THEOREM OneRequestPerOrder == Spec => []AsksOncePerOrder
<1>1. Init => Accounts /\ AskingOnce
  BY InitAccounts DEF Init, AskingOnce
<1>2. IInv /\ Accounts /\ AskingOnce /\ [Next]_vars => Accounts' /\ AskingOnce'
  BY NextAccounts, NextAsking
<1>3. AskingOnce => AsksOncePerOrder
  BY DEF AskingOnce, AsksOncePerOrder
<1> QED
  BY <1>1, <1>2, <1>3, Invariance, PTL DEF Spec

-----------------------------------------------------------------------------
(* The error behind the error screen.                                      *)

\* HANDLING_ERROR, until it has been shown, comes with an error.
ErrorStored ==
    /\ ErrorScreenHasError
    /\ currentState = "HANDLING_ERROR" /\ pc \notin Forgetful \cup {"error_menu"}
         => lastErrorInfo

\* Every step keeps the error with the state that shows it.
LEMMA NextErrorStored == ASSUME IInv, ErrorStored, [Next]_vars PROVE ErrorStored'
<1>1. CASE MainInternal
  <2>1. CASE RunLoop
    BY <2>1, EntryPointValues
       DEF RunLoop, ErrorStored, ErrorScreenHasError, Forgetful
  <2>2. CASE ChangeState
    BY <2>2, ChangesToValues
       DEF ChangeState, ErrorStored, ErrorScreenHasError, Forgetful
  <2>3. CASE Initialize \/ ResetTransaction \/ CheckStock \/ CommitSelection
              \/ BeginPayment \/ ConfirmPayment
              \/ ApproveLocal \/ ApprovePrepayment \/ DeclinePayment
    BY <2>3
       DEF ErrorStored, ErrorScreenHasError, Forgetful, Initialize,
           ResetTransaction, CheckStock, CommitSelection, BeginPayment,
           ConfirmPayment, ApproveLocal, ApprovePrepayment, DeclinePayment,
           IfPresent, RaiseAndWake, ResetCurrentTransaction
  <2>4. CASE BeginDispensing \/ FinishDispensing
            \/ BeginBroadcast \/ SendStockRequest \/ ArmTimer
            \/ WakeUp \/ GiveUpWaiting
            \/ BeginOptions \/ ConfirmPrepayment
            \/ BeginIssuing \/ SendPrepaymentRequest \/ ShowAuthCode \/ TakeError
    BY <2>4
       DEF ErrorStored, ErrorScreenHasError, Forgetful, BeginDispensing,
           FinishDispensing, BeginBroadcast, SendStockRequest, ArmTimer, WakeUp,
           GiveUpWaiting, BeginOptions, ConfirmPrepayment, BeginIssuing,
           SendPrepaymentRequest, ShowAuthCode, TakeError, IfPresent, RaiseAndWake
  <2> QED
    BY <1>1, <2>1, <2>2, <2>3, <2>4 DEF MainInternal
<1>2. CASE Customer
  BY <1>2
     DEF Customer, ChooseMenu, SelectDrink, EnterAuthCode, ErrorStored,
         ErrorScreenHasError, Forgetful
<1>3. CASE Timer
  BY <1>3
     DEF Timer, ExpireTimer, HandleTimeout, RaiseAndWake, ErrorStored,
         ErrorScreenHasError
<1>4. CASE Messages
  BY <1>4
     DEF Messages, OnReqStockReceived, OnRespStockReceived, OnMalformedRespStock,
         OnReqPrepayReceived, OnMalformedReqPrepay, OnRespPrepayReceived,
         OnMalformedRespPrepay, AcceptPrepayAnswer, RaiseAndWake, ErrorStored,
         ErrorScreenHasError
<1>5. CASE Stopped \/ UNCHANGED vars
  BY <1>5 DEF Stopped, vars, ErrorStored, ErrorScreenHasError
<1> QED
  BY <1>1, <1>2, <1>3, <1>4, <1>5 DEF Next

\* The error screen always has an error to show.
THEOREM ErrorIsShown == Spec => []ErrorScreenHasError
<1>1. Init => ErrorStored
  BY DEF Init, ErrorStored, ErrorScreenHasError
<1>2. IInv /\ ErrorStored /\ [Next]_vars => ErrorStored'
  BY NextErrorStored
<1>3. ErrorStored => ErrorScreenHasError
  BY DEF ErrorStored
<1> QED
  BY <1>1, <1>2, <1>3, Invariance, PTL DEF Spec

-----------------------------------------------------------------------------
(* The order, and the code, behind what is dispensed.                      *)

Deliverable ==
    /\ currentActiveOrder.payStatus = "APPROVED"
    /\ currentActiveOrder.drink = pendingDrinkSelection
    /\ isCurrentOrderPrepayment =>
         /\ currentActiveOrder.certCode \in AuthCodes
         /\ codes[currentActiveOrder.certCode].status = "ACTIVE"

\* Deliverable from the approval, or the check of the code, until the drink is out;
\* before the approval the order is for the drink in hand.
Delivery ==
    /\ pc \in {"dispense_begin", "dispense_done"} => Deliverable
    /\ currentState = "DISPENSING_DRINK" /\ pc \notin Forgetful \cup {"dispense_end"}
         => Deliverable
    /\ pc \in PayLabels => currentActiveOrder.drink = pendingDrinkSelection
    /\ currentState \in PayStates /\ pc \notin Forgetful
         => currentActiveOrder.drink = pendingDrinkSelection
    /\ pc = "select" => currentState \notin PayStates \cup {"DISPENSING_DRINK"}

\* Every step keeps what is about to be dispensed paid for.
LEMMA NextDelivery == ASSUME IInv, Delivery, [Next]_vars PROVE Delivery'
<1>1. CASE MainInternal
  <2>1. CASE RunLoop
    BY <2>1, EntryPointValues
       DEF RunLoop, Delivery, Deliverable, Forgetful, PayLabels, PayStates
  <2>2. CASE ChangeState
    BY <2>2, ChangesToValues
       DEF ChangeState, Delivery, Deliverable, Forgetful, PayLabels, PayStates
  <2>3. CASE Initialize \/ CheckStock \/ CommitSelection
              \/ BeginPayment \/ ConfirmPayment
    BY <2>3
       DEF Delivery, Deliverable, Forgetful, PayLabels, PayStates, Initialize,
           CheckStock, CommitSelection, BeginPayment, ConfirmPayment, IfPresent,
           RaiseAndWake, CreateOrder
  <2>4. CASE ApproveLocal
    <3>1. currentActiveOrder \in Orders
      BY <2>4
         DEF ApproveLocal, IInv, FieldsOK, Carried, InformationPresent, HasPurchase
    <3>2. Deliverable'
      BY <2>4, <3>1 DEF ApproveLocal, Deliverable, Delivery, PayLabels, Orders
    <3> QED
      BY <2>4, <3>2 DEF ApproveLocal, Delivery, PayLabels, PayStates
  <2>5. CASE ResetTransaction \/ ApprovePrepayment \/ DeclinePayment
    BY <2>5
       DEF ResetTransaction, ApprovePrepayment, DeclinePayment, Delivery, Forgetful,
           PayLabels, PayStates
  <2>6. CASE FinishDispensing
    BY <2>6 DEF FinishDispensing, Delivery, PayLabels, PayStates, Forgetful
  <2>7. CASE BeginDispensing \/ BeginBroadcast \/ SendStockRequest \/ ArmTimer
            \/ WakeUp \/ GiveUpWaiting
            \/ BeginOptions \/ ConfirmPrepayment
            \/ BeginIssuing \/ SendPrepaymentRequest \/ ShowAuthCode \/ TakeError
    BY <2>7
       DEF Delivery, Deliverable, Forgetful, PayLabels, PayStates, BeginDispensing,
           BeginBroadcast, SendStockRequest, ArmTimer, WakeUp, GiveUpWaiting,
           BeginOptions, ConfirmPrepayment, BeginIssuing, SendPrepaymentRequest,
           ShowAuthCode, TakeError, IfPresent, RaiseAndWake, CreateOrder
  <2> QED
    BY <1>1, <2>1, <2>2, <2>3, <2>4, <2>5, <2>6, <2>7 DEF MainInternal
<1>2. CASE Customer
  <2>1. CASE ChooseMenu \/ SelectDrink
    BY <2>1
       DEF ChooseMenu, SelectDrink, Delivery, Deliverable, Forgetful, PayLabels,
           PayStates
  <2>2. CASE EnterAuthCode
    <3>1. CASE currentState' = "DISPLAYING_MAIN_MENU"
      BY <2>2, <3>1 DEF EnterAuthCode, Delivery, PayLabels, PayStates
    <3>2. ASSUME NEW c \in AuthCodes, Usable(c),
                 currentActiveOrder' = [drink |-> codes[c].drink, certCode |-> c,
                                        payStatus |-> "APPROVED"],
                 pendingDrinkSelection' = codes[c].drink
          PROVE  Deliverable'
      BY <2>2, <3>2 DEF EnterAuthCode, Deliverable, Usable
    <3>3. \A c \in AuthCodes : Usable(c) => codes[c].drink \in Drinks
      BY DEF IInv, Carried, CodesKnown, Usable
    <3>4. CASE currentState' = "DISPENSING_DRINK"
      BY <2>2, <3>2, <3>3, <3>4 DEF EnterAuthCode, Delivery, PayLabels, PayStates
    <3>5. CASE currentState' = "HANDLING_ERROR"
      BY <2>2, <3>5 DEF EnterAuthCode, Delivery, PayLabels, PayStates
    <3> QED
      BY <2>2, <3>1, <3>3, <3>4, <3>5 DEF EnterAuthCode
  <2> QED
    BY <1>2, <2>1, <2>2 DEF Customer
<1>3. CASE Timer
  BY <1>3
     DEF Timer, ExpireTimer, HandleTimeout, RaiseAndWake, Delivery, Deliverable,
         PayStates
<1>4. CASE Messages
  <2>1. CASE \E r \in prepayReplies : OnRespPrepayReceived(r)
    BY <2>1
       DEF OnRespPrepayReceived, AcceptPrepayAnswer, Delivery, Deliverable,
           PayStates
  <2>2. CASE \E p \in Peers, d \in Drinks : OnRespStockReceived(p, d)
    BY <2>2 DEF OnRespStockReceived, Delivery, Deliverable, PayStates
  <2>3. CASE OnReqStockReceived \/ OnMalformedRespStock \/ OnMalformedReqPrepay
    <3>1. UNCHANGED <<pc, transactionVars, codeVars, networkVars>>
      BY <2>3 DEF OnReqStockReceived, OnMalformedRespStock, OnMalformedReqPrepay
    <3>2. \/ UNCHANGED <<currentState, cvDataReady>>
          \/ currentState' = "HANDLING_ERROR"
      BY <2>3
         DEF OnReqStockReceived, OnMalformedRespStock, OnMalformedReqPrepay,
             RaiseAndWake
    <3> QED
      BY <3>1, <3>2 DEF Delivery, Deliverable, PayStates
  <2>5. CASE OnMalformedRespPrepay
    BY <2>5
       DEF OnMalformedRespPrepay, AcceptPrepayAnswer, Delivery, Deliverable,
           PayStates
  <2>4. CASE SomeReqPrepay
    <3>1. Deliverable => Deliverable'
      BY <2>4 DEF SomeReqPrepay, OnReqPrepayReceived, Deliverable, IInv, StoresOK
    <3> QED
      BY <2>4, <3>1 DEF SomeReqPrepay, OnReqPrepayReceived, Delivery
  <2> QED
    BY <1>4, <2>1, <2>2, <2>3, <2>4, <2>5 DEF Messages, SomeReqPrepay
<1>5. CASE Stopped \/ UNCHANGED vars
  BY <1>5 DEF Stopped, vars, Delivery, Deliverable
<1> QED
  BY <1>1, <1>2, <1>3, <1>4, <1>5 DEF Next

\* Codes change when a drink is out and when a request is granted, and items are set
\* aside only for such a request.
LEMMA CodesChange ==
    ASSUME [Next]_vars
    PROVE  \/ UNCHANGED <<codeVars, reserved>>
           \/ FinishDispensing
           \/ SomeReqPrepay
  BY EntryPointValues
     DEF Next, MainInternal, Customer, Timer, Messages, SomeReqPrepay, Stopped,
         vars, Initialize, RunLoop, ChangeState, ResetTransaction, CheckStock,
         CommitSelection, BeginPayment, ConfirmPayment, ApproveLocal,
         ApprovePrepayment, DeclinePayment, BeginDispensing, BeginBroadcast,
         SendStockRequest, ArmTimer, WakeUp, GiveUpWaiting, BeginOptions,
         ConfirmPrepayment, BeginIssuing, SendPrepaymentRequest, ShowAuthCode,
         TakeError, ChooseMenu, SelectDrink, EnterAuthCode, ExpireTimer,
         HandleTimeout, OnReqStockReceived, OnRespStockReceived,
         OnMalformedRespStock, OnMalformedReqPrepay, OnRespPrepayReceived,
         OnMalformedRespPrepay

\* Every step keeps the redeemed within the granted.
LEMMA NextRedemption ==
    ASSUME IInv, Delivery, NoDoubleRedemption, [Next]_vars
    PROVE  NoDoubleRedemption'
<1>1. CASE UNCHANGED codeVars
  BY <1>1 DEF NoDoubleRedemption
<1>2. CASE FinishDispensing /\ isCurrentOrderPrepayment
  <2> DEFINE c == currentActiveOrder.certCode
  <2>1. c \in AuthCodes /\ Usable(c)
    BY <1>2 DEF FinishDispensing, Delivery, Deliverable, Usable
  <2>2. /\ redeemed' = [redeemed EXCEPT ![c] = @ + 1]
        /\ codes' = [codes EXCEPT ![c].status = "USED"]
        /\ granted' = granted
    BY <1>2, <2>1 DEF FinishDispensing, MarkUsed
  <2> HIDE DEF c
  <2> QED
    BY <2>1, <2>2 DEF NoDoubleRedemption, IInv, StoresOK, Usable
<1>3. CASE SomeReqPrepay
  BY <1>3 DEF SomeReqPrepay, OnReqPrepayReceived, NoDoubleRedemption, IInv, StoresOK
<1>4. UNCHANGED codeVars \/ FinishDispensing \/ SomeReqPrepay
  BY CodesChange
<1>5. FinishDispensing /\ ~isCurrentOrderPrepayment => UNCHANGED codeVars
  BY DEF FinishDispensing
<1> QED
  BY <1>1, <1>2, <1>3, <1>4, <1>5

\* At the start no code is known and nothing is dispensed.
LEMMA InitDelivery ==
    ASSUME Init
    PROVE  Delivery /\ NoDoubleRedemption
  BY DEF Init, Delivery, NoDoubleRedemption, PayLabels, PayStates

\* Whatever happens between the check of a code and the drink, a drink leaves the
\* machine only for an approved order of it, and for a prepayment only while its
\* code is ACTIVE.
THEOREM OnlyPaidIsDispensed == Spec => []DispensesOnlyPaidOrders
<1>1. Init => Delivery
  BY InitDelivery
<1>2. IInv /\ Delivery /\ [Next]_vars => Delivery'
  BY NextDelivery
<1>3. Delivery => DispensesOnlyPaidOrders
  BY DEF Delivery, Deliverable, DispensesOnlyPaidOrders
<1> QED
  BY <1>1, <1>2, <1>3, Invariance, PTL DEF Spec

\* Each code opens the machine at most as often as it was granted.
THEOREM NoReservationTwice == Spec => []NoDoubleRedemption
<1>1. Init => Delivery /\ NoDoubleRedemption
  BY InitDelivery
<1>2. IInv /\ Delivery /\ NoDoubleRedemption /\ [Next]_vars
        => Delivery' /\ NoDoubleRedemption'
  BY NextDelivery, NextRedemption
<1> QED
  BY <1>1, <1>2, Invariance, PTL DEF Spec

-----------------------------------------------------------------------------
(* An item for each code.                                                  *)

\* Each code on record was set aside for: with at least one item, since no request
\* for less gets through.
CodesBacked ==
    \A d \in Drinks :
        IsFiniteSet(CodesFor(d)) /\ Cardinality(CodesFor(d)) <= reserved[d]

\* Fewer codes need no more items.
LEMMA FewerCodes ==
    ASSUME NEW S, NEW T, IsFiniteSet(S), T \subseteq S, NEW k \in Nat, NEW l \in Nat,
           Cardinality(S) <= k, k <= l
    PROVE  IsFiniteSet(T) /\ Cardinality(T) <= l
<1>1. /\ IsFiniteSet(T) /\ Cardinality(T) <= Cardinality(S)
      /\ Cardinality(S) \in Nat /\ Cardinality(T) \in Nat
  BY FS_Subset, FS_CardinalityType
<1> QED
  BY <1>1

\* A code that is granted is one more, or replaces one.
LEMMA OneMoreCode ==
    ASSUME NEW S, NEW T, NEW c, IsFiniteSet(S), T \subseteq S \cup {c},
           NEW k \in Nat, NEW n \in Nat, n >= 1, Cardinality(S) <= k
    PROVE  IsFiniteSet(T) /\ Cardinality(T) <= k + n
<1>1. IsFiniteSet(S \cup {c}) /\ Cardinality(S) \in Nat
  BY FS_AddElement, FS_CardinalityType
<1>2. Cardinality(S \cup {c}) \in {Cardinality(S), Cardinality(S) + 1}
  BY FS_AddElement
<1>3. Cardinality(S \cup {c}) <= k + n /\ k + n \in Nat
      /\ Cardinality(S \cup {c}) \in Nat
  BY <1>1, <1>2
<1>4. /\ IsFiniteSet(T) /\ Cardinality(T) <= Cardinality(S \cup {c})
      /\ Cardinality(T) \in Nat
  BY <1>1, FS_Subset, FS_CardinalityType
<1> QED
  BY <1>3, <1>4

\* A granted request sets aside at least the item of its code.
LEMMA OnReqPrepayReceivedBacked ==
    ASSUME IInv, CodesBacked,
           NEW d \in Drinks \cup {UnknownDrink}, NEW c \in AuthCodes,
           NEW n \in ItemNums, OnReqPrepayReceived(d, c, n)
    PROVE  CodesBacked'
<1>1. CASE ~CanReserve(d, n)
  BY <1>1 DEF OnReqPrepayReceived, CodesBacked, CodesFor
<1>2. CASE CanReserve(d, n)
  <2>1. d \in Drinks
    BY <1>2 DEF CanReserve, StockOf
  <2>2. n \in Nat /\ n >= 1
    BY ConstantsAssumption
  <2>3. reserved \in [Drinks -> Nat] /\ codes \in [AuthCodes -> CodeRecords]
    BY DEF IInv, StoresOK
  <2>4. /\ reserved' = [reserved EXCEPT ![d] = @ + n]
        /\ codes' = [codes EXCEPT ![c] = [status |-> "ACTIVE", drink |-> d]]
    BY <1>2 DEF OnReqPrepayReceived
  <2> SUFFICES ASSUME NEW e \in Drinks
               PROVE  /\ IsFiniteSet(CodesFor(e)')
                      /\ Cardinality(CodesFor(e)') <= reserved'[e]
    BY DEF CodesBacked
  <2>5. IsFiniteSet(CodesFor(e)) /\ Cardinality(CodesFor(e)) <= reserved[e]
    BY DEF CodesBacked
  <2>6. CASE e = d
    <3>1. CodesFor(e)' \subseteq CodesFor(e) \cup {c} /\ reserved'[e] = reserved[e] + n
      BY <2>3, <2>4, <2>6 DEF CodesFor
    <3> QED
      BY <2>2, <2>3, <2>5, <3>1, OneMoreCode
  <2>7. CASE e # d
    <3>1. CodesFor(e)' \subseteq CodesFor(e) /\ reserved'[e] = reserved[e]
      BY <2>3, <2>4, <2>7 DEF CodesFor
    <3> QED
      BY <2>3, <2>5, <3>1, FewerCodes
  <2> QED
    BY <2>6, <2>7
<1> QED
  BY <1>1, <1>2

\* A code that is used stays on record.
LEMMA FinishDispensingBacked ==
    ASSUME IInv, CodesBacked, FinishDispensing
    PROVE  CodesBacked'
<1>1. codes \in [AuthCodes -> CodeRecords] /\ reserved' = reserved
  BY DEF IInv, StoresOK, FinishDispensing
<1>2. \A d \in Drinks : CodesFor(d)' = CodesFor(d)
  BY <1>1 DEF FinishDispensing, MarkUsed, Usable, CodesFor, CodeRecords
<1> QED
  BY <1>1, <1>2 DEF CodesBacked

\* No other step takes items from those set aside.
LEMMA NextBacked == ASSUME IInv, CodesBacked, [Next]_vars PROVE CodesBacked'
<1>1. CASE SomeReqPrepay
  BY <1>1, OnReqPrepayReceivedBacked DEF SomeReqPrepay
<1>2. CASE FinishDispensing
  BY <1>2, FinishDispensingBacked
<1>3. CASE ~SomeReqPrepay /\ ~FinishDispensing
  <2>1. UNCHANGED <<codes, reserved>>
    BY <1>3, CodesChange
  <2> QED
    BY <2>1 DEF CodesBacked, CodesFor
<1> QED
  BY <1>1, <1>2, <1>3

\* Every code on record has an item: what is set aside is enough for the codes, and
\* what is sold and set aside is what has left the stock, but for one item.
THEOREM CodesAreGood == Spec => []CodesHaveItems
<1>1. Init => CodesBacked
  <2> SUFFICES ASSUME Init, NEW d \in Drinks
               PROVE  CodesFor(d) = {} /\ reserved[d] = 0
    BY FS_EmptySet DEF CodesBacked
  <2> QED
    BY DEF Init, CodesFor
<1>2. IInv /\ CodesBacked /\ [Next]_vars => CodesBacked'
  BY NextBacked
<1>3. IInv /\ CodesBacked /\ OversellsOnlyLastItem => CodesHaveItems
  <2> SUFFICES ASSUME IInv, CodesBacked, OversellsOnlyLastItem, NEW d \in Drinks
               PROVE  localSales[d] + Cardinality(CodesFor(d))
                        <= InitialStock[d] - stock[d] + (IF stock[d] = 0 THEN 1 ELSE 0)
    BY DEF CodesHaveItems
  <2>1. /\ stock[d] \in Nat /\ localSales[d] \in Nat
        /\ reserved[d] \in Nat /\ InitialStock[d] \in Nat
    BY CountsOfDrinks
  <2>2. Cardinality(CodesFor(d)) \in Nat /\ Cardinality(CodesFor(d)) <= reserved[d]
    BY FS_CardinalityType DEF CodesBacked
  <2>3. \/ stock[d] + localSales[d] + reserved[d] = InitialStock[d]
        \/ stock[d] = 0 /\ localSales[d] + reserved[d] = InitialStock[d] + 1
    BY DEF OversellsOnlyLastItem
  <2> QED
    BY <2>1, <2>2, <2>3
<1> QED
  BY <1>1, <1>2, <1>3, OversellingIsBounded, Invariance, PTL DEF Spec
=============================================================================
