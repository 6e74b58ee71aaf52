-------------------- MODULE UserProcessControllerProgress --------------------
(***************************************************************************)
(* What the liveness of UserProcessController rests on, as safety: when a  *)
(* wait can end in a locked mutex, what keeps a paid local sale on its way *)
(* to the customer, and what keeps the request to end the program.         *)
(***************************************************************************)
EXTENDS UserProcessControllerProofs, FiniteSetTheorems

USE DEF sharedVars, transactionVars, timerVars, saleVars, codeVars, networkVars,
        countVars

-----------------------------------------------------------------------------
(* The waits.                                                              *)

StockWaitLabels == {"run", "await_stock", "await_self_lock"}

\* Something will still end the wait for stock answers, or all of them are there.
StockWaitBacked ==
    \/ responseTimer = "AWAITING_STOCK_RESPONSES"
    \/ dueTimeouts["AWAITING_STOCK_RESPONSES"] > 0
    \/ availableOtherVms = Peers

\* The state of the wait is written once its timer is armed, and no answer to a
\* prepayment stops that timer; from then on nobody changes the state without raising
\* the flag.
StockWait ==
    /\ currentState = "AWAITING_STOCK_RESPONSES" /\ pc \notin Forgetful
         => pc \in StockWaitLabels /\ (Timely => StockWaitBacked)
    /\ Timely /\ pc = "bcast_await"
         => \/ responseTimer = "AWAITING_STOCK_RESPONSES"
            \/ availableOtherVms = Peers
    /\ pc \in {"bcast_begin", "bcast_send", "bcast_arm", "bcast_await"}
         => currentState # "ISSUING_AUTH_CODE"
    /\ pc = "await_stock" /\ ~cvDataReady
         => currentState = "AWAITING_STOCK_RESPONSES"
    /\ StockWaitHangsOnlyIfAllAnswered

\* As long as nothing moves the controller on, the time-out of the paid wait is armed
\* or due.
PaidWait ==
    /\ pc = "issue_wait" /\ currentState = "ISSUING_AUTH_CODE"
         => \/ responseTimer = "ISSUING_AUTH_CODE"
            \/ dueTimeouts["ISSUING_AUTH_CODE"] > 0
    /\ PaidWaitHangsOnlyIfOvertaken

\* A list that is as long as the table of machines has all of them.
LEMMA FullList ==
    ASSUME NEW S \in SUBSET Peers, Cardinality(S) >= Cardinality(Peers)
    PROVE  S = Peers
<1>1. IsFiniteSet(Peers) /\ IsFiniteSet(S)
  BY ConstantsAssumption, FS_Subset
<1>2. Cardinality(S) <= Cardinality(Peers) /\ (Cardinality(S) = Cardinality(Peers) => S = Peers)
  BY <1>1, FS_Subset
<1>3. Cardinality(S) \in Nat /\ Cardinality(Peers) \in Nat
  BY <1>1, FS_CardinalityType
<1> QED
  BY <1>2, <1>3

\* The handler of an answer stops the timer only with a full list, and then it also
\* changes the state and raises the flag.
LEMMA AnswerStopsTimer ==
    ASSUME IInv, NEW p \in Peers, NEW d \in Drinks, OnRespStockReceived(p, d)
    PROVE  /\ UNCHANGED <<pc, dueTimeouts>>
           /\ availableOtherVms = Peers => availableOtherVms' = Peers
           /\ \/ UNCHANGED <<responseTimer, currentState, cvDataReady>>
              \/ /\ availableOtherVms' = Peers
                 /\ currentState' = "DISPLAYING_OTHER_VM_OPTIONS"
                 /\ cvDataReady' = TRUE
<1>1. availableOtherVms \cup {p} \in SUBSET Peers
  BY DEF IInv, FieldsOK
<1>2. Counts(p, d) => p \notin availableOtherVms
  BY DEF Counts
<1> QED
  BY <1>1, <1>2, FullList DEF OnRespStockReceived

\* Every other handler that changes the state raises the flag, and leaves the timer
\* as it is unless the controller was waiting for the answer to a prepayment.
LEMMA OtherHandlers ==
    ASSUME IInv, Messages,
           \A p \in Peers, d \in Drinks : ~OnRespStockReceived(p, d)
    PROVE  /\ UNCHANGED <<pc, dueTimeouts, availableOtherVms>>
           /\ \/ UNCHANGED <<responseTimer, currentState, cvDataReady>>
              \/ /\ currentState' = "HANDLING_ERROR" /\ cvDataReady' = TRUE
                 /\ UNCHANGED responseTimer
              \/ /\ currentState = "ISSUING_AUTH_CODE" /\ cvDataReady' = TRUE
                 /\ currentState' \in {"DISPLAYING_AUTH_CODE_INFO", "HANDLING_ERROR"}
  BY DEF Messages, OnReqStockReceived, OnMalformedRespStock, OnReqPrepayReceived,
         OnMalformedReqPrepay, OnRespPrepayReceived, OnMalformedRespPrepay,
         AcceptPrepayAnswer, RaiseAndWake

\* Every step keeps the wait for stock answers backed.
LEMMA NextStockWait == ASSUME IInv, StockWait, [Next]_vars PROVE StockWait'
<1> USE DEF StockWait, StockWaitLabels, StockWaitBacked,
            StockWaitHangsOnlyIfAllAnswered, Forgetful
<1>1. CASE MainInternal
  <2>1. CASE RunLoop
    BY <2>1, EntryPointValues DEF RunLoop
  <2>2. CASE ChangeState
    BY <2>2, ChangesToValues DEF ChangeState
  <2>3. CASE Initialize \/ ResetTransaction \/ CheckStock \/ CommitSelection
            \/ BeginPayment \/ ConfirmPayment
    BY <2>3
       DEF Initialize, ResetTransaction, ResetCurrentTransaction, CheckStock,
           CommitSelection, BeginPayment, ConfirmPayment, IfPresent, RaiseAndWake
  <2>4. CASE ApproveLocal \/ ApprovePrepayment \/ DeclinePayment
            \/ BeginDispensing \/ FinishDispensing \/ BeginBroadcast
            \/ SendStockRequest
    BY <2>4
       DEF ApproveLocal, ApprovePrepayment, DeclinePayment, BeginDispensing,
           FinishDispensing, BeginBroadcast, SendStockRequest, IfPresent,
           RaiseAndWake
  <2>5. CASE ArmTimer
    BY <2>5 DEF ArmTimer, StartResponseTimer
  <2>6. CASE WakeUp
    BY <2>6 DEF WakeUp
  <2>7. CASE GiveUpWaiting
    BY <2>7 DEF GiveUpWaiting, WaitStates
  <2>8. CASE BeginOptions \/ ConfirmPrepayment \/ BeginIssuing
            \/ SendPrepaymentRequest \/ ShowAuthCode \/ TakeError
    BY <2>8
       DEF BeginOptions, ConfirmPrepayment, BeginIssuing, SendPrepaymentRequest,
           ShowAuthCode, TakeError, IfPresent, RaiseAndWake
  <2> QED
    BY <1>1, <2>1, <2>2, <2>3, <2>4, <2>5, <2>6, <2>7, <2>8 DEF MainInternal
<1>2. CASE Customer
  BY <1>2 DEF Customer, ChooseMenu, SelectDrink, EnterAuthCode
<1>3. CASE ExpireTimer
  BY <1>3 DEF ExpireTimer, IInv, TimerOK
<1>4. CASE \E w \in WaitStates : HandleTimeout(w)
  BY <1>4 DEF HandleTimeout, RaiseAndWake, WaitStates, IInv, TimerOK
<1>5. CASE \E p \in Peers, d \in Drinks : OnRespStockReceived(p, d)
  BY <1>5, AnswerStopsTimer DEF OnRespStockReceived, IoThread, MutexFree, SelfLocks
<1>6. CASE Messages /\ \A p \in Peers, d \in Drinks : ~OnRespStockReceived(p, d)
  BY <1>6, OtherHandlers
<1>7. CASE Stopped \/ UNCHANGED vars
  BY <1>7 DEF Stopped, vars
<1> QED
  BY <1>1, <1>2, <1>3, <1>4, <1>5, <1>6, <1>7 DEF Next, Timer

\* Every step keeps the paid wait backed.
LEMMA NextPaidWait == ASSUME IInv, PaidWait, [Next]_vars PROVE PaidWait'
<1> USE DEF PaidWait, PaidWaitHangsOnlyIfOvertaken
<1>1. CASE MainInternal
  <2>1. CASE RunLoop
    BY <2>1, EntryPointValues DEF RunLoop
  <2>2. CASE BeginIssuing
    BY <2>2 DEF BeginIssuing, RaiseAndWake
  <2>3. CASE ArmTimer
    BY <2>3 DEF ArmTimer, StartResponseTimer
  <2>4. CASE GiveUpWaiting
    BY <2>4 DEF GiveUpWaiting
  <2>5. CASE ~(RunLoop \/ BeginIssuing \/ ArmTimer \/ GiveUpWaiting)
    <3>1. pc' \notin {"issue_wait", "issue_self_lock"}
      BY <1>1, <2>5
         DEF MainInternal, Initialize, ChangeState, ResetTransaction, CheckStock,
             CommitSelection, BeginPayment, ConfirmPayment, ApproveLocal,
             ApprovePrepayment, DeclinePayment, BeginDispensing, FinishDispensing,
             BeginBroadcast, SendStockRequest, WakeUp, BeginOptions,
             ConfirmPrepayment, SendPrepaymentRequest, ShowAuthCode, TakeError,
             IfPresent
    <3> QED
      BY <3>1
  <2> QED
    BY <2>1, <2>2, <2>3, <2>4, <2>5
<1>2. CASE Customer
  BY <1>2 DEF Customer, ChooseMenu, SelectDrink, EnterAuthCode
<1>3. CASE ExpireTimer
  BY <1>3 DEF ExpireTimer, IInv, TimerOK
<1>4. CASE \E w \in WaitStates : HandleTimeout(w)
  BY <1>4
     DEF HandleTimeout, RaiseAndWake, WaitStates, IInv, TimerOK, IoThread,
         MutexFree, SelfLocks
<1>5. CASE \E p \in Peers, d \in Drinks : OnRespStockReceived(p, d)
  BY <1>5, AnswerStopsTimer
<1>6. CASE Messages /\ \A p \in Peers, d \in Drinks : ~OnRespStockReceived(p, d)
  BY <1>6, OtherHandlers
<1>7. CASE Stopped \/ UNCHANGED vars
  BY <1>7 DEF Stopped, vars
<1> QED
  BY <1>1, <1>2, <1>3, <1>4, <1>5, <1>6, <1>7 DEF Next, Timer

\* The wait for stock answers gives up in one case only, unless threads are slow.
THEOREM StockWaitHangs == Spec => []StockWaitHangsOnlyIfAllAnswered
<1>1. Init => StockWait
  BY DEF Init, StockWait, StockWaitHangsOnlyIfAllAnswered
<1>2. IInv /\ StockWait /\ [Next]_vars => StockWait'
  BY NextStockWait
<1>3. StockWait => StockWaitHangsOnlyIfAllAnswered
  BY DEF StockWait
<1> QED
  BY <1>1, <1>2, <1>3, Invariance, PTL DEF Spec

\* The paid wait gives up only with its time-out still queued, or after something
\* else has moved the controller on.
THEOREM PaidWaitHangs == Spec => []PaidWaitHangsOnlyIfOvertaken
<1>1. Init => PaidWait
  BY DEF Init, PaidWait, PaidWaitHangsOnlyIfOvertaken
<1>2. IInv /\ PaidWait /\ [Next]_vars => PaidWait'
  BY NextPaidWait
<1>3. PaidWait => PaidWaitHangsOnlyIfOvertaken
  BY DEF PaidWait
<1> QED
  BY <1>1, <1>2, <1>3, Invariance, PTL DEF Spec

-----------------------------------------------------------------------------
(* The course of a local sale, and of the end of the program.              *)

WellFormed == TRUE \notin Malformed

NothingInHand == pendingDrinkSelection = NoDrink /\ currentActiveOrder = NoOrder

IdleStates == {"AWAITING_DRINK_SELECTION", "AWAITING_AUTH_CODE_INPUT_PROMPT",
               "SYSTEM_HALTED_REQUEST"}

\* Between the reset of the menu and the next selection nothing is in hand, so that
\* no answer counts and the state stays.
Idle ==
    /\ pc = "menu_choice" => NothingInHand
    /\ pc = "run" /\ currentState \in IdleStates => NothingInHand
    /\ pc = "select"
         => NothingInHand /\ currentState = "AWAITING_DRINK_SELECTION"
    /\ pc = "code_input"
         => NothingInHand /\ currentState = "AWAITING_AUTH_CODE_INPUT_PROMPT"
    /\ currentState = "SYSTEM_HALTED_REQUEST"
         => pc \in {"run", "exited"} /\ NothingInHand
    /\ pc \in {"await_stock", "issue_begin", "issue_send", "issue_arm", "issue_wait"}
         => currentState \notin IdleStates \cup {"BROADCASTING_STOCK_REQUEST"}

\* The drink in hand is sold out and the other machines are, or will be, asked.
Asking ==
    \/ pc \in {"select_sold_out", "bcast_begin", "bcast_send"}
    \/ pc = "run" /\ currentState = "BROADCASTING_STOCK_REQUEST"

Unanswered(d) == \A p \in Peers : stockReplies[<<p, d>>] = 0

\* The other machines are asked for drinks that are sold out, for good; a local sale
\* starts with an item, so that nobody has been asked for its drink.
LocalSaleUnasked ==
    /\ \A d \in Drinks : Unanswered(d) \/ stock[d] = 0
    /\ Asking => stock[pendingDrinkSelection] = 0
    /\ Asking \/ pc \in {"select_check", "select_in_stock"}
         => currentActiveOrder = NoOrder
    /\ pc = "select_in_stock" => Unanswered(pendingDrinkSelection)
    /\ currentActiveOrder # NoOrder /\ ~isCurrentOrderPrepayment
         => \A d \in Drinks : d = pendingDrinkSelection => Unanswered(d)

OnCourse == WellFormed => Idle /\ LocalSaleUnasked /\ PaidSaleIsOnCourse

\* Well-formed messages and time-outs leave a state alone that no wait is in, unless
\* an answer about the drink in hand counts.
LEMMA HandlersLeaveState ==
    ASSUME IInv, WellFormed, Timer \/ Messages,
           currentState \notin WaitStates,
           \A d \in Drinks : d = pendingDrinkSelection => Unanswered(d)
    PROVE  UNCHANGED currentState
<1>1. CASE Timer
  BY <1>1 DEF Timer, ExpireTimer, HandleTimeout
<1>2. CASE \E p \in Peers, d \in Drinks : OnRespStockReceived(p, d)
  <2>1. PICK p \in Peers, d \in Drinks : OnRespStockReceived(p, d)
    BY <1>2
  <2>2. ~Counts(p, d)
    BY <2>1 DEF OnRespStockReceived, Counts, Unanswered, IInv, NetworkOK
  <2> QED
    BY <2>1, <2>2 DEF OnRespStockReceived
<1>3. CASE Messages /\ \A p \in Peers, d \in Drinks : ~OnRespStockReceived(p, d)
  BY <1>3, ConstantsAssumption
     DEF Messages, WellFormed, WaitStates, OnReqStockReceived, OnMalformedRespStock,
         OnReqPrepayReceived, OnMalformedReqPrepay, OnRespPrepayReceived,
         OnMalformedRespPrepay
<1> QED
  BY <1>1, <1>2, <1>3

\* What no handler touches, whatever message it is for.
LEMMA HandlersLeaveRest ==
    ASSUME Timer \/ Messages
    PROVE  UNCHANGED <<pc, transactionVars>>
  BY DEF Timer, Messages, ExpireTimer, HandleTimeout, OnReqStockReceived,
         OnRespStockReceived, OnMalformedRespStock, OnReqPrepayReceived,
         OnMalformedReqPrepay, OnRespPrepayReceived, OnMalformedRespPrepay

\* Handlers take items and answers, and never bring any.
LEMMA HandlersTake ==
    ASSUME IInv, Timer \/ Messages, NEW d \in Drinks
    PROVE  /\ stock[d] = 0 => stock'[d] = 0
           /\ Unanswered(d) => Unanswered(d)'
<1>1. CASE \E e \in Drinks \cup {UnknownDrink}, c \in AuthCodes, n \in ItemNums :
             OnReqPrepayReceived(e, c, n)
  BY <1>1, ConstantsAssumption
     DEF OnReqPrepayReceived, CanReserve, StockOf, DecreaseStock, Unanswered, IInv,
         StoresOK
<1>2. CASE \E p \in Peers, e \in Drinks : OnRespStockReceived(p, e)
  <2>1. PICK p \in Peers, e \in Drinks : OnRespStockReceived(p, e)
    BY <1>2
  <2>2. UNCHANGED stock
    BY <2>1 DEF OnRespStockReceived
  <2>3. ASSUME NEW q \in Peers, stockReplies[<<q, d>>] = 0
        PROVE  stockReplies'[<<q, d>>] = 0
    <3>1. <<q, d>> # <<p, e>>
      BY <2>1, <2>3 DEF OnRespStockReceived
    <3> QED
      BY <2>1, <2>3, <3>1 DEF OnRespStockReceived, IInv, NetworkOK
  <2> QED
    BY <2>2, <2>3 DEF Unanswered
<1>3. CASE UNCHANGED <<stock, stockReplies>>
  BY <1>3 DEF Unanswered
<1>4. \/ UNCHANGED <<stock, stockReplies>>
      \/ \E p \in Peers, e \in Drinks : OnRespStockReceived(p, e)
      \/ \E e \in Drinks \cup {UnknownDrink}, c \in AuthCodes, n \in ItemNums :
             OnReqPrepayReceived(e, c, n)
  BY DEF Timer, Messages, ExpireTimer, HandleTimeout, OnReqStockReceived,
         OnMalformedRespStock, OnMalformedReqPrepay, OnRespPrepayReceived,
         OnMalformedRespPrepay
<1> QED
  BY <1>1, <1>2, <1>3, <1>4

\* Nothing in hand, nothing that an answer could be about.
LEMMA NothingToAnswer ==
    NothingInHand => \A d \in Drinks : d = pendingDrinkSelection => Unanswered(d)
  BY ConstantsAssumption DEF NothingInHand

\* Every step keeps the idle states idle.
LEMMA NextIdle == ASSUME IInv, WellFormed, Idle, [Next]_vars PROVE Idle'
<1> USE DEF Idle, IdleStates, NothingInHand
<1>1. CASE MainInternal
  <2>1. CASE RunLoop
    BY <2>1, EntryPointValues DEF RunLoop
  <2>2. CASE ChangeState
    BY <2>2, ChangesToValues DEF ChangeState
  <2>3. CASE Initialize \/ ResetTransaction \/ CheckStock \/ CommitSelection
            \/ BeginPayment \/ ConfirmPayment \/ ApproveLocal
            \/ ApprovePrepayment \/ DeclinePayment
    BY <2>3
       DEF Initialize, ResetTransaction, ResetCurrentTransaction, CheckStock,
           CommitSelection, BeginPayment, ConfirmPayment, ApproveLocal,
           ApprovePrepayment, DeclinePayment, IfPresent, RaiseAndWake
  <2>4. CASE BeginDispensing \/ FinishDispensing \/ BeginBroadcast
            \/ SendStockRequest \/ ArmTimer \/ WakeUp \/ GiveUpWaiting
    BY <2>4
       DEF BeginDispensing, FinishDispensing, BeginBroadcast, SendStockRequest,
           ArmTimer, WakeUp, GiveUpWaiting, IfPresent, RaiseAndWake
  <2>5. CASE BeginOptions \/ ConfirmPrepayment \/ BeginIssuing
            \/ SendPrepaymentRequest \/ ShowAuthCode \/ TakeError
    BY <2>5
       DEF BeginOptions, ConfirmPrepayment, BeginIssuing, SendPrepaymentRequest,
           ShowAuthCode, TakeError, IfPresent, RaiseAndWake
  <2> QED
    BY <1>1, <2>1, <2>2, <2>3, <2>4, <2>5 DEF MainInternal
<1>2. CASE Customer
  BY <1>2 DEF Customer, ChooseMenu, SelectDrink, EnterAuthCode
<1>3. CASE Timer \/ Messages
  <2>1. UNCHANGED <<pc, transactionVars>>
    BY <1>3, HandlersLeaveRest
  <2>2. CASE NothingInHand /\ currentState \notin WaitStates
    <3>1. UNCHANGED currentState
      BY <1>3, <2>2, HandlersLeaveState, NothingToAnswer
    <3> QED
      BY <2>1, <3>1
  <2>3. CASE ~(NothingInHand /\ currentState \notin WaitStates)
    <3>1. currentState' \in IdleStates \cup {"BROADCASTING_STOCK_REQUEST"}
            => currentState' = currentState
      BY <1>3
         DEF Timer, Messages, ExpireTimer, HandleTimeout, OnReqStockReceived,
             OnRespStockReceived, OnMalformedRespStock, OnReqPrepayReceived,
             OnMalformedReqPrepay, OnRespPrepayReceived, OnMalformedRespPrepay,
             AcceptPrepayAnswer, RaiseAndWake
    <3> QED
      BY <2>1, <2>3, <3>1 DEF WaitStates
  <2> QED
    BY <2>2, <2>3
<1>4. CASE Stopped \/ UNCHANGED vars
  BY <1>4 DEF Stopped, vars
<1> QED
  BY <1>1, <1>2, <1>3, <1>4 DEF Next

\* The drink of an inquiry is one of the menu.
LEMMA AskedDrink ==
    ASSUME IInv, Asking \/ pc \in {"select_check", "select_in_stock"}
    PROVE  pendingDrinkSelection \in Drinks
  BY DEF Asking, IInv, FieldsOK, Carried, InformationPresent, StateCarries, Forgetful

\* A sale takes an item of a drink that has one.
LEMMA SoldOutStays ==
    ASSUME IInv, ApproveLocal, NEW d \in Drinks, stock[d] = 0
    PROVE  stock'[d] = 0
  BY DEF ApproveLocal, DecreaseStock, IInv, StoresOK

\* A request goes out for the drink in hand only.
LEMMA OthersStayUnanswered ==
    ASSUME IInv, SendStockRequest, NEW d \in Drinks, d # pendingDrinkSelection,
           Unanswered(d)
    PROVE  Unanswered(d)'
  BY DEF SendStockRequest, Unanswered, IInv, NetworkOK

\* Every step keeps the drinks of local sales unasked for.
LEMMA NextUnasked ==
    ASSUME IInv, WellFormed, Idle, LocalSaleUnasked, [Next]_vars
    PROVE  LocalSaleUnasked'
<1>1. CASE SendStockRequest
  <2>1. pendingDrinkSelection \in Drinks /\ Asking
    BY <1>1, AskedDrink DEF SendStockRequest, Asking
  <2>2. UNCHANGED <<stock, transactionVars, currentState>> /\ pc' = "bcast_arm"
    BY <1>1 DEF SendStockRequest
  <2> QED
    BY <1>1, <2>1, <2>2, OthersStayUnanswered DEF LocalSaleUnasked, Asking
<1>2. CASE ApproveLocal
  <2>1. UNCHANGED stockReplies /\ ~Asking' /\ pc' = "run"
    BY <1>2 DEF ApproveLocal, Asking
  <2>2. /\ currentActiveOrder # NoOrder /\ ~isCurrentOrderPrepayment
        /\ UNCHANGED <<pendingDrinkSelection, isCurrentOrderPrepayment>>
    BY <1>2
       DEF ApproveLocal, IInv, Carried, InformationPresent, HasPurchase
  <2> QED
    BY <1>2, <2>1, <2>2, SoldOutStays DEF LocalSaleUnasked, Unanswered
<1>3. CASE CheckStock
  <2>1. pendingDrinkSelection \in Drinks
    BY <1>3, AskedDrink DEF CheckStock
  <2> QED
    BY <1>3, <2>1
       DEF CheckStock, LocalSaleUnasked, Asking, Unanswered, IInv, StoresOK
<1>4. CASE CommitSelection
  BY <1>4 DEF CommitSelection, CreateOrder, LocalSaleUnasked, Asking, Unanswered
<1>5. CASE RunLoop
  BY <1>5, EntryPointValues DEF RunLoop, LocalSaleUnasked, Asking, Unanswered
<1>6. CASE ChangeState
  BY <1>6, ChangesToValues DEF ChangeState, LocalSaleUnasked, Asking, Unanswered
<1>7. CASE EnterAuthCode
  <2>1. UNCHANGED <<stock, stockReplies>>
    BY <1>7 DEF EnterAuthCode
  <2>2. /\ currentState # "HANDLING_ERROR"
        /\ \A c \in AuthCodes : Usable(c) => codes[c].drink \in Drinks
    BY <1>7 DEF EnterAuthCode, Idle, IInv, Carried, CodesKnown, Usable
  <2>3. ~Asking' /\ pc' = "run"
    BY <1>7, <2>2 DEF EnterAuthCode, Asking
  <2>4. UNCHANGED transactionVars \/ isCurrentOrderPrepayment'
    BY <1>7, <2>2 DEF EnterAuthCode
  <2> QED
    BY <2>1, <2>3, <2>4 DEF LocalSaleUnasked, Unanswered
<1>8. CASE SelectDrink
  BY <1>8
     DEF SelectDrink, Idle, NothingInHand, LocalSaleUnasked, Asking, Unanswered
<1>9. CASE WakeUp
  BY <1>9 DEF WakeUp, Idle, LocalSaleUnasked, Asking, Unanswered
<1>10. CASE Initialize \/ ResetTransaction \/ ChooseMenu \/ BeginPayment
             \/ ConfirmPayment \/ ApprovePrepayment \/ DeclinePayment
             \/ BeginDispensing \/ FinishDispensing \/ BeginBroadcast \/ ArmTimer
             \/ GiveUpWaiting
  <2>1. /\ UNCHANGED <<stock, stockReplies>>
        /\ pc' \notin {"select_check", "select_in_stock", "select_sold_out"}
    BY <1>10
       DEF Initialize, ResetTransaction, ChooseMenu, BeginPayment, ConfirmPayment,
           ApprovePrepayment, DeclinePayment, BeginDispensing, FinishDispensing,
           BeginBroadcast, ArmTimer, GiveUpWaiting, IfPresent
  <2>2. Asking' => /\ Asking
                   /\ UNCHANGED <<currentActiveOrder, pendingDrinkSelection>>
    BY <1>10
       DEF Asking, Initialize, ResetTransaction, ResetCurrentTransaction,
           ChooseMenu, BeginPayment, ConfirmPayment, ApprovePrepayment,
           DeclinePayment, BeginDispensing, FinishDispensing, BeginBroadcast,
           ArmTimer, GiveUpWaiting, IfPresent, RaiseAndWake
  <2>3. \/ /\ UNCHANGED <<isCurrentOrderPrepayment, pendingDrinkSelection>>
           /\ currentActiveOrder # NoOrder \/ UNCHANGED currentActiveOrder
        \/ currentActiveOrder' = NoOrder
    BY <1>10
       DEF Initialize, ResetTransaction, ResetCurrentTransaction, ChooseMenu,
           BeginPayment, ConfirmPayment, ApprovePrepayment, DeclinePayment,
           BeginDispensing, FinishDispensing, BeginBroadcast, ArmTimer,
           GiveUpWaiting, IInv, Carried, InformationPresent, HasPurchase
  <2> QED
    BY <2>1, <2>2, <2>3 DEF LocalSaleUnasked, Unanswered
<1>11. CASE BeginOptions \/ ConfirmPrepayment \/ BeginIssuing
             \/ SendPrepaymentRequest \/ ShowAuthCode \/ TakeError
  BY <1>11
     DEF LocalSaleUnasked, Asking, Unanswered, BeginOptions, ConfirmPrepayment,
         CreateOrder, BeginIssuing, SendPrepaymentRequest, ShowAuthCode, TakeError,
         IfPresent, RaiseAndWake
<1>12. CASE Timer \/ Messages
  <2>1. UNCHANGED <<pc, transactionVars>>
    BY <1>12, HandlersLeaveRest
  <2>2. Asking' => Asking
    BY <1>12, <2>1
       DEF Asking, Timer, Messages, ExpireTimer, HandleTimeout, OnReqStockReceived,
           OnRespStockReceived, OnMalformedRespStock, OnReqPrepayReceived,
           OnMalformedReqPrepay, OnRespPrepayReceived, OnMalformedRespPrepay,
           AcceptPrepayAnswer, RaiseAndWake
  <2>3. Asking \/ pc \in {"select_check", "select_in_stock"}
          => pendingDrinkSelection \in Drinks
    BY AskedDrink
  <2> QED
    BY <1>12, <2>1, <2>2, <2>3, HandlersTake DEF LocalSaleUnasked
<1>13. CASE Stopped \/ UNCHANGED vars
  BY <1>13 DEF Stopped, vars, LocalSaleUnasked, Asking, Unanswered
<1> QED
  BY <1>1, <1>2, <1>3, <1>4, <1>5, <1>6, <1>7, <1>8, <1>9, <1>10, <1>11, <1>12,
     <1>13
     DEF Next, MainInternal, Customer

\* An order that is PENDING or DECLINED is no approved one, and neither is none.
LEMMA ApprovedMeans ==
    ASSUME currentActiveOrder \in ApprovedOrders
    PROVE  currentActiveOrder # NoOrder /\ currentActiveOrder.payStatus = "APPROVED"
  BY OrderAssumption DEF ApprovedOrders

\* A step of the main thread that makes a paid local sale is the approval.
LEMMA NewPaidSale ==
    ASSUME IInv, Idle, MainInternal \/ Customer, ~PaidLocalSale, ~ApproveLocal
    PROVE  ~PaidLocalSale'
<1> USE DEF PaidLocalSale, ApprovedOrders
<1>1. CASE EnterAuthCode
  <2>1. /\ currentState # "HANDLING_ERROR"
        /\ \A c \in AuthCodes : Usable(c) => codes[c].drink \in Drinks
    BY <1>1 DEF EnterAuthCode, Idle, IInv, Carried, CodesKnown, Usable
  <2>2. UNCHANGED <<currentActiveOrder, isCurrentOrderPrepayment>>
          \/ isCurrentOrderPrepayment'
    BY <1>1, <2>1 DEF EnterAuthCode
  <2> QED
    BY <2>2
<1>2. CASE CommitSelection \/ ConfirmPrepayment
  BY <1>2 DEF CommitSelection, ConfirmPrepayment, CreateOrder
<1>3. CASE ApprovePrepayment
  BY <1>3 DEF ApprovePrepayment
<1>4. CASE DeclinePayment
  <2>1. currentActiveOrder \in Orders
    BY <1>4
       DEF DeclinePayment, IInv, FieldsOK, Carried, InformationPresent, HasPurchase
  <2>2. currentActiveOrder'.payStatus = "DECLINED"
    BY <1>4, <2>1 DEF DeclinePayment, Orders
  <2> QED
    BY <2>2
<1>5. CASE ResetTransaction
  BY <1>5, OrderAssumption DEF ResetTransaction, ResetCurrentTransaction
<1>6. CASE \/ Initialize \/ RunLoop \/ ChangeState \/ CheckStock \/ BeginPayment
           \/ ConfirmPayment \/ BeginDispensing \/ FinishDispensing \/ BeginBroadcast
           \/ SendStockRequest \/ ArmTimer \/ WakeUp \/ GiveUpWaiting \/ BeginOptions
           \/ BeginIssuing \/ SendPrepaymentRequest \/ ShowAuthCode \/ TakeError
           \/ ChooseMenu \/ SelectDrink
  BY <1>6
     DEF Initialize, RunLoop, ChangeState, CheckStock, BeginPayment, ConfirmPayment,
         BeginDispensing, FinishDispensing, BeginBroadcast, SendStockRequest,
         ArmTimer, WakeUp, GiveUpWaiting, BeginOptions, BeginIssuing,
         SendPrepaymentRequest, ShowAuthCode, TakeError, ChooseMenu, SelectDrink
<1> QED
  BY <1>1, <1>2, <1>3, <1>4, <1>5, <1>6 DEF MainInternal, Customer

\* Every step keeps a paid local sale on its course.
LEMMA NextPaidSale ==
    ASSUME IInv, WellFormed, Idle, LocalSaleUnasked, PaidSaleIsOnCourse, [Next]_vars
    PROVE  PaidSaleIsOnCourse'
<1> SUFFICES ASSUME PaidLocalSale' PROVE PaidSaleIsOnCourse'
  BY DEF PaidSaleIsOnCourse
<1>1. CASE ApproveLocal
  BY <1>1 DEF ApproveLocal, PaidSaleIsOnCourse
<1>2. CASE (MainInternal \/ Customer) /\ ~ApproveLocal
  <2>1. PaidLocalSale
    BY <1>2, NewPaidSale
  <2>2. \/ /\ currentState = "DISPENSING_DRINK"
           /\ pc \in {"run", "dispense_begin", "dispense_done", "dispense_end"}
        \/ /\ currentState = "TRANSACTION_COMPLETED"
           /\ pc \in {"run", "completed_reset"}
    BY <2>1 DEF PaidSaleIsOnCourse, WellFormed
  <2>3. CASE RunLoop
    BY <2>2, <2>3, EntryPointValues DEF RunLoop, PaidSaleIsOnCourse
  <2>4. CASE ChangeState
    BY <2>2, <2>4, ChangesToValues DEF ChangeState, PaidSaleIsOnCourse
  <2>5. CASE BeginDispensing
    BY <2>2, <2>5
       DEF BeginDispensing, IfPresent, IInv, Carried, InformationPresent,
           PaidSaleIsOnCourse
  <2>6. CASE FinishDispensing
    BY <2>2, <2>6 DEF FinishDispensing, PaidSaleIsOnCourse
  <2>7. ~ResetTransaction
    BY OrderAssumption
       DEF ResetTransaction, ResetCurrentTransaction, PaidLocalSale, ApprovedOrders
  <2>8. CASE ~(RunLoop \/ ChangeState \/ BeginDispensing \/ FinishDispensing)
    <3>1. pc \notin {"run", "dispense_begin", "dispense_done", "dispense_end",
                     "completed_reset"}
      BY <1>2, <2>7, <2>8
         DEF MainInternal, Customer, Initialize, CheckStock, CommitSelection,
             BeginPayment, ConfirmPayment, ApprovePrepayment, DeclinePayment,
             BeginBroadcast, SendStockRequest, ArmTimer, WakeUp, GiveUpWaiting,
             BeginOptions, ConfirmPrepayment, BeginIssuing, SendPrepaymentRequest,
             ShowAuthCode, TakeError, ChooseMenu, SelectDrink, EnterAuthCode
    <3> QED
      BY <2>2, <3>1
  <2> QED
    BY <2>3, <2>4, <2>5, <2>6, <2>8
<1>3. CASE Timer \/ Messages
  <2>1. UNCHANGED <<pc, transactionVars>> /\ PaidLocalSale
    BY <1>3, HandlersLeaveRest DEF PaidLocalSale
  <2>2. currentState \in {"DISPENSING_DRINK", "TRANSACTION_COMPLETED"}
    BY <2>1 DEF PaidSaleIsOnCourse, WellFormed
  <2>3. \A d \in Drinks : d = pendingDrinkSelection => Unanswered(d)
    BY <2>1, ApprovedMeans DEF LocalSaleUnasked, PaidLocalSale
  <2>4. UNCHANGED currentState
    BY <1>3, <2>2, <2>3, HandlersLeaveState DEF WaitStates
  <2> QED
    BY <2>1, <2>4 DEF PaidSaleIsOnCourse
<1>4. CASE Stopped \/ UNCHANGED vars
  BY <1>4 DEF Stopped, vars, PaidSaleIsOnCourse, PaidLocalSale
<1> QED
  BY <1>1, <1>2, <1>3, <1>4 DEF Next

\* With well-formed messages all three parts of OnCourse are kept together.
LEMMA NextOnCourse == ASSUME IInv, OnCourse, [Next]_vars PROVE OnCourse'
<1> SUFFICES ASSUME WellFormed' PROVE (Idle /\ LocalSaleUnasked /\ PaidSaleIsOnCourse)'
  BY DEF OnCourse
<1>1. WellFormed
  BY DEF WellFormed
<1>2. Idle /\ LocalSaleUnasked /\ PaidSaleIsOnCourse
  BY <1>1 DEF OnCourse
<1> QED
  BY <1>1, <1>2, NextIdle, NextUnasked, NextPaidSale

\* OnCourse holds in every reachable state.
LEMMA CourseKept == Spec => []OnCourse
<1>1. Init => OnCourse
  <2> SUFFICES ASSUME Init PROVE Idle /\ LocalSaleUnasked /\ PaidSaleIsOnCourse
    BY DEF OnCourse
  <2>1. Idle
    BY DEF Init, Idle, IdleStates
  <2>2. LocalSaleUnasked
    BY DEF Init, LocalSaleUnasked, Asking, Unanswered
  <2>3. PaidSaleIsOnCourse
    BY OrderAssumption DEF Init, PaidSaleIsOnCourse, PaidLocalSale, ApprovedOrders
  <2> QED
    BY <2>1, <2>2, <2>3
<1>2. IInv /\ OnCourse /\ [Next]_vars => OnCourse'
  BY NextOnCourse
<1> QED
  BY <1>1, <1>2, Invariance, PTL DEF Spec

\* No answer, however late, and no time-out diverts a local sale that is paid.
THEOREM PaidSaleOnCourse == Spec => []PaidSaleIsOnCourse
<1>1. OnCourse => PaidSaleIsOnCourse
  BY DEF OnCourse, PaidSaleIsOnCourse, WellFormed
<1> QED
  BY <1>1, CourseKept, PTL

\* Nothing overwrites the request to end the program before the loop reads it.
THEOREM HaltStays == Spec => HaltRequestStays
<1>1. ASSUME IInv, OnCourse, [Next]_vars, WellFormed,
             currentState = "SYSTEM_HALTED_REQUEST"
      PROVE  currentState' = "SYSTEM_HALTED_REQUEST"
  <2>1. pc \in {"run", "exited"} /\ NothingInHand
    BY <1>1 DEF OnCourse, Idle
  <2>2. CASE MainInternal \/ Customer
    <3>1. RunLoop
      BY <2>1, <2>2, ChangesToValues
         DEF MainInternal, Customer, Initialize, ChangeState, ResetTransaction,
             CheckStock, CommitSelection, BeginPayment, ConfirmPayment,
             ApproveLocal, ApprovePrepayment, DeclinePayment, BeginDispensing,
             FinishDispensing, BeginBroadcast, SendStockRequest, ArmTimer, WakeUp,
             GiveUpWaiting, BeginOptions, ConfirmPrepayment, BeginIssuing,
             SendPrepaymentRequest, ShowAuthCode, TakeError, ChooseMenu,
             SelectDrink, EnterAuthCode
    <3> QED
      BY <1>1, <3>1 DEF RunLoop
  <2>3. CASE Timer \/ Messages
    BY <1>1, <2>1, <2>3, HandlersLeaveState, NothingToAnswer DEF WaitStates
  <2>4. CASE Stopped \/ UNCHANGED vars
    BY <1>1, <2>4 DEF Stopped, vars
  <2> QED
    BY <1>1, <2>2, <2>3, <2>4 DEF Next
<1>2. IInv /\ OnCourse /\ [Next]_vars =>
        [ TRUE \notin Malformed /\ currentState = "SYSTEM_HALTED_REQUEST"
            => currentState' = "SYSTEM_HALTED_REQUEST" ]_vars
  BY <1>1 DEF WellFormed
<1> QED
  BY <1>2, Invariance, CourseKept, PTL DEF Spec, HaltRequestStays
=============================================================================
