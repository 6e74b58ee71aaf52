------------------------ MODULE UserProcessController ------------------------
(***************************************************************************)
(* One vending machine: the controller of src/service/                     *)
(* UserProcessController.cpp with the services it calls.                   *)
(*                                                                         *)
(* Two threads share the controller's fields.  The main thread runs the    *)
(* state machine of `currentState_' and blocks on the customer; the io     *)
(* thread runs the four message handlers and the time-out handler of the   *)
(* one response timer.  A section under `mtx_' that does not wait is one   *)
(* action; between two sections of the main thread the other thread may    *)
(* take any number of steps.  `pc' is the section the main thread runs     *)
(* next.  What a section reads without the mutex is an action of its own.  *)
(***************************************************************************)
EXTENDS Integers, FiniteSets

CONSTANTS
    Peers,           \* the other vending machines
    Drinks,          \* the drinks of the menu
    UnknownDrink,    \* stands for the codes of drinks that are not on the menu
    NoDrink,         \* pendingDrinkSelection_ without a value
    AuthCodes,       \* well-formed authentication codes
    NoCode,          \* the empty code
    NoPeer,          \* selectedTargetVmForPrepayment_ without a value
    NoOrder,         \* currentActiveOrder_ without a value
    InitialStock,    \* what setupGeneralInventory puts into the machine
    ItemNums,        \* the well-formed item_num of incoming REQ_PREPAY
    Malformed,       \* {TRUE, FALSE} or {FALSE}: may received messages be malformed
    Timely,          \* no thread falls behind by the seconds of a time-out
    MaxTransactions, \* bound: choices 1 and 2 the customer makes in the main menu
    MaxIncoming      \* bound: messages the other machines send unasked

ASSUME ConstantsAssumption ==
    /\ IsFiniteSet(Peers) /\ Peers # {} /\ NoPeer \notin Peers
    /\ UnknownDrink \notin Drinks /\ NoDrink \notin Drinks
    /\ UnknownDrink # NoDrink
    /\ NoCode \notin AuthCodes
    /\ InitialStock \in [Drinks -> 0..99]
    /\ ItemNums \subseteq 1..99
    /\ Malformed \subseteq BOOLEAN
    /\ Timely \in BOOLEAN
    /\ MaxTransactions \in Nat
    /\ MaxIncoming \in Nat

WaitStates == {"AWAITING_STOCK_RESPONSES", "ISSUING_AUTH_CODE"}

ControllerState == WaitStates \cup
    { "INITIALIZING", "SYSTEM_READY", "DISPLAYING_MAIN_MENU",
      "SYSTEM_HALTED_REQUEST", "AWAITING_DRINK_SELECTION",
      "AWAITING_PAYMENT_CONFIRMATION", "PROCESSING_PAYMENT",
      "DISPENSING_DRINK", "BROADCASTING_STOCK_REQUEST",
      "DISPLAYING_OTHER_VM_OPTIONS", "DISPLAYING_AUTH_CODE_INFO",
      "AWAITING_AUTH_CODE_INPUT_PROMPT", "TRANSACTION_COMPLETED",
      "HANDLING_ERROR" }

\* The section each state function starts with: the switch of processCurrentState.
EntryPoint ==
    [ SYSTEM_READY                    |-> "system_ready",
      DISPLAYING_MAIN_MENU            |-> "menu_reset",
      AWAITING_DRINK_SELECTION        |-> "select",
      BROADCASTING_STOCK_REQUEST      |-> "bcast_begin",
      AWAITING_STOCK_RESPONSES        |-> "await_stock",
      AWAITING_PAYMENT_CONFIRMATION   |-> "pay_begin",
      PROCESSING_PAYMENT              |-> "pay_process",
      ISSUING_AUTH_CODE               |-> "issue_begin",
      DISPENSING_DRINK                |-> "dispense_begin",
      DISPLAYING_OTHER_VM_OPTIONS     |-> "options_begin",
      DISPLAYING_AUTH_CODE_INFO       |-> "show_code",
      AWAITING_AUTH_CODE_INPUT_PROMPT |-> "code_input",
      TRANSACTION_COMPLETED           |-> "completed_reset",
      HANDLING_ERROR                  |-> "error_take" ]

\* State functions that end in a changeState(...) which reads nothing first.
ChangesTo ==
    [ init_ready      |-> "SYSTEM_READY",
      system_ready    |-> "DISPLAYING_MAIN_MENU",
      bcast_await     |-> "AWAITING_STOCK_RESPONSES",
      options_none    |-> "DISPLAYING_MAIN_MENU",
      show_done       |-> "TRANSACTION_COMPLETED",
      dispense_end    |-> "TRANSACTION_COMPLETED",
      completed_menu  |-> "DISPLAYING_MAIN_MENU",
      error_menu      |-> "DISPLAYING_MAIN_MENU" ]

\* The main thread locks a mutex it already holds: it never runs again.
SelfLocks == {"await_self_lock", "issue_self_lock", "redeem_self_lock"}
Stops     == SelfLocks \cup {"prompt_self_lock", "exited"}

Labels ==
    { EntryPoint[s] : s \in DOMAIN EntryPoint } \cup DOMAIN ChangesTo \cup Stops
    \cup { "init", "run", "menu_choice", "select_check", "select_in_stock",
           "select_sold_out", "bcast_send", "bcast_arm", "pay_prompt",
           "pay_settle", "dispense_done", "options_prompt", "issue_send",
           "issue_arm", "issue_wait" }

Orders ==
    [ drink     : Drinks \cup {UnknownDrink},
      certCode  : AuthCodes \cup {NoCode},
      payStatus : {"PENDING", "APPROVED", "DECLINED"} ]

ApprovedOrders == { o \in Orders : o.payStatus = "APPROVED" }

ASSUME OrderAssumption == NoOrder \notin Orders

VARIABLES
    pc,                    \* the next section of the main thread
    \* fields of the controller
    currentState, lastErrorInfo, cvDataReady, availableOtherVms,
    currentActiveOrder, isCurrentOrderPrepayment, pendingDrinkSelection,
    selectedTargetVm,
    responseTimer,         \* the state the armed timer watches, or "off"
    dueTimeouts,           \* expired time-outs whose handler is still queued
    \* stores of the machine
    stock,                 \* InventoryRepository
    codes,                 \* PrepayCodeRepository
    localSales,            \* OrderRepository: local orders saved as APPROVED
    \* the network, and what the other machines reserved for this one
    stockReplies, prepayReplies, held,
    \* history
    reserved,              \* items handed to other machines, by drink
    granted, redeemed,     \* reservations granted and drinks given out, by code
    requestSent,           \* REQ_PREPAY sent for currentActiveOrder
    transactions, incoming \* what the bounds count

transactionVars == <<currentActiveOrder, isCurrentOrderPrepayment,
                     pendingDrinkSelection, selectedTargetVm>>
sharedVars      == <<currentState, lastErrorInfo, cvDataReady, availableOtherVms>>
timerVars       == <<responseTimer, dueTimeouts>>
saleVars        == <<stock, localSales, reserved>>
codeVars        == <<codes, granted, redeemed>>
networkVars     == <<stockReplies, prepayReplies, held, requestSent>>
countVars       == <<transactions, incoming>>

vars == <<pc, sharedVars, transactionVars, timerVars, saleVars, codeVars,
          networkVars, countVars>>

-----------------------------------------------------------------------------
Init ==
    /\ pc = "init"
    /\ currentState = "INITIALIZING"
    /\ lastErrorInfo = FALSE /\ cvDataReady = FALSE /\ availableOtherVms = {}
    /\ currentActiveOrder = NoOrder /\ isCurrentOrderPrepayment = FALSE
    /\ pendingDrinkSelection = NoDrink /\ selectedTargetVm = NoPeer
    /\ responseTimer = "off" /\ dueTimeouts = [w \in WaitStates |-> 0]
    /\ stock = InitialStock /\ localSales = [d \in Drinks |-> 0]
    /\ reserved = [d \in Drinks |-> 0]
    /\ codes = [c \in AuthCodes |-> [status |-> "ABSENT", drink |-> NoDrink]]
    /\ granted = [c \in AuthCodes |-> 0] /\ redeemed = [c \in AuthCodes |-> 0]
    /\ stockReplies = [r \in Peers \X Drinks |-> 0]
    /\ prepayReplies = {} /\ held = {} /\ requestSent = FALSE
    /\ transactions = 0 /\ incoming = 0

-----------------------------------------------------------------------------
(* Services the sections call.                                             *)

\* A section that takes mtx_ can run: no thread keeps the mutex for ever.
MutexFree == pc \notin SelfLocks

\* Mutant: a drink that is not on the menu seems to be there.
StockOfAnyDrink(d) == IF d \in Drinks THEN stock[d] ELSE 1

\* InventoryService::checkDrinkAvailabilityAndPrice, isAvailable and currentStock.
StockOf(d) == IF d \in Drinks THEN stock[d] ELSE 0

\* Mutant: the stock is taken whether or not there is enough.
DecreaseStockUnchecked(d, n) == stock' = [stock EXCEPT ![d] = @ - n]

\* InventoryRepository::decreaseStockByAmount leaves the stock alone if it is short.
DecreaseStock(d, n) ==
    stock' = IF d \in Drinks /\ stock[d] >= n
             THEN [stock EXCEPT ![d] = @ - n] ELSE stock

\* Mutant: a code is usable as soon as it is known.
UsableIfKnown(c) == codes[c].status # "ABSENT"

\* PrepaymentService::getPrepaymentDetailsIfActive
Usable(c) == codes[c].status = "ACTIVE"

\* Mutant: the code stays as it is.
MarkNothing(c) == UNCHANGED codes

\* PrepaymentService::changeAuthCodeStatusToUsed
MarkUsed(c) ==
    codes' = IF Usable(c) THEN [codes EXCEPT ![c].status = "USED"] ELSE codes

\* Mutants: the state changes but no error is stored; the main thread is woken but
\* the state stays.
RaiseWithoutError ==
    currentState' = "HANDLING_ERROR" /\ cvDataReady' = TRUE /\ UNCHANGED lastErrorInfo
WakeWithoutState ==
    lastErrorInfo' = TRUE /\ cvDataReady' = TRUE /\ UNCHANGED currentState

\* processOccurredError, HANDLING_ERROR, and the flag the main thread waits for.
RaiseAndWake ==
    /\ lastErrorInfo' = TRUE
    /\ currentState' = "HANDLING_ERROR"
    /\ cvDataReady' = TRUE

\* OrderService::createOrder
CreateOrder(d) ==
    /\ currentActiveOrder' = [drink |-> d, certCode |-> NoCode, payStatus |-> "PENDING"]
    /\ requestSent' = FALSE

\* Mutant: the drink of the last transaction stays selected.
ResetAllButDrink ==
    /\ currentActiveOrder' = NoOrder /\ isCurrentOrderPrepayment' = FALSE
    /\ availableOtherVms' = {} /\ selectedTargetVm' = NoPeer
    /\ responseTimer' = "off" /\ cvDataReady' = FALSE
    /\ UNCHANGED <<currentState, lastErrorInfo, dueTimeouts, pendingDrinkSelection>>

\* resetCurrentTransactionState: a queued time-out handler outlives the cancel.
ResetCurrentTransaction ==
    /\ currentActiveOrder' = NoOrder
    /\ isCurrentOrderPrepayment' = FALSE
    /\ pendingDrinkSelection' = NoDrink
    /\ availableOtherVms' = {}
    /\ selectedTargetVm' = NoPeer
    /\ responseTimer' = "off"
    /\ cvDataReady' = FALSE
    /\ UNCHANGED <<currentState, lastErrorInfo, dueTimeouts>>

\* Mutant: the handler is always that of the stock inquiry.
StartStockTimer(w) ==
    /\ responseTimer' = "AWAITING_STOCK_RESPONSES"
    /\ UNCHANGED dueTimeouts

\* startResponseTimer: expires_after drops the wait that was armed before.
StartResponseTimer(w) ==
    /\ responseTimer' = w
    /\ UNCHANGED dueTimeouts

\* An order, a drink, and for a prepayment a target and a code, where needed.
HasPurchase == currentActiveOrder # NoOrder /\ pendingDrinkSelection # NoDrink
HasCode     == HasPurchase /\ selectedTargetVm # NoPeer
               /\ currentActiveOrder.certCode # NoCode

-----------------------------------------------------------------------------
(* The main thread.                                                        *)

\* initializeSystemAndRegisterMessageHandlers: from here on messages arrive.
Initialize ==
    /\ pc = "init"
    /\ pc' = "init_ready"
    /\ UNCHANGED <<sharedVars, transactionVars, timerVars, saleVars, codeVars,
                   networkVars, countVars>>

\* run and processCurrentState read the state in two sections.  Only this
\* thread ever writes SYSTEM_HALTED_REQUEST, so one read decides both.
RunLoop ==
    /\ pc = "run"
    /\ pc' = IF currentState \in DOMAIN EntryPoint
             THEN EntryPoint[currentState] ELSE "exited"
    /\ UNCHANGED <<sharedVars, transactionVars, timerVars, saleVars, codeVars,
                   networkVars, countVars>>

\* changeState overwrites whatever the io thread has written meanwhile.
ChangeState ==
    /\ pc \in DOMAIN ChangesTo
    /\ currentState' = ChangesTo[pc]
    /\ pc' = "run"
    /\ UNCHANGED <<lastErrorInfo, cvDataReady, availableOtherVms, transactionVars,
                   timerVars, saleVars, codeVars, networkVars, countVars>>

\* state_displayingMainMenu up to the blocking input, and
\* state_transactionCompletedReturnToMenu up to its changeState.
ResetTransaction ==
    /\ \/ pc = "menu_reset"      /\ pc' = "menu_choice"
       \/ pc = "completed_reset" /\ pc' = "completed_menu"
    /\ ResetCurrentTransaction
    /\ UNCHANGED <<saleVars, codeVars, networkVars, countVars>>

\* The customer answers; no time-out bounds this input.
ChooseMenu ==
    /\ pc = "menu_choice"
    /\ pc' = "run"
    /\ \/ /\ transactions < MaxTransactions
          /\ transactions' = transactions + 1
          /\ currentState' \in {"AWAITING_DRINK_SELECTION",
                                "AWAITING_AUTH_CODE_INPUT_PROMPT"}
       \/ /\ currentState' = "SYSTEM_HALTED_REQUEST"
          /\ UNCHANGED transactions
    /\ UNCHANGED <<lastErrorInfo, cvDataReady, availableOtherVms, transactionVars,
                   timerVars, saleVars, codeVars, networkVars, incoming>>

\* selectDrink and getDrinkDetails: an error the io thread raised during the
\* input ends the selection, an empty input goes back to the menu.
SelectDrink ==
    /\ pc = "select"
    /\ \/ /\ currentState' = "DISPLAYING_MAIN_MENU"
          /\ pc' = "run"
          /\ UNCHANGED pendingDrinkSelection
       \/ /\ currentState = "HANDLING_ERROR"
          /\ pc' = "run"
          /\ UNCHANGED <<currentState, pendingDrinkSelection>>
       \/ /\ currentState # "HANDLING_ERROR"
          /\ pendingDrinkSelection' \in Drinks
          /\ pc' = "select_check"
          /\ UNCHANGED currentState
    /\ UNCHANGED <<lastErrorInfo, cvDataReady, availableOtherVms, currentActiveOrder,
                   isCurrentOrderPrepayment, selectedTargetVm, timerVars, saleVars,
                   codeVars, networkVars, countVars>>

\* Mutant: >= for >.
CheckStockOffByOne ==
    /\ pc = "select_check"
    /\ pc' = IF stock[pendingDrinkSelection] >= 0
             THEN "select_in_stock" ELSE "select_sold_out"
    /\ UNCHANGED <<sharedVars, transactionVars, timerVars, saleVars, codeVars,
                   networkVars, countVars>>

\* The stock is read without mtx_ ...
CheckStock ==
    /\ pc = "select_check"
    /\ pc' = IF stock[pendingDrinkSelection] > 0
             THEN "select_in_stock" ELSE "select_sold_out"
    /\ UNCHANGED <<sharedVars, transactionVars, timerVars, saleVars, codeVars,
                   networkVars, countVars>>

\* ... and acted upon later, under it.
CommitSelection ==
    /\ \/ /\ pc = "select_in_stock"
          /\ CreateOrder(pendingDrinkSelection)
          /\ isCurrentOrderPrepayment' = FALSE
          /\ currentState' = "AWAITING_PAYMENT_CONFIRMATION"
       \/ /\ pc = "select_sold_out"
          /\ currentState' = "BROADCASTING_STOCK_REQUEST"
          /\ UNCHANGED <<currentActiveOrder, isCurrentOrderPrepayment, requestSent>>
    /\ pc' = "run"
    /\ UNCHANGED <<lastErrorInfo, cvDataReady, availableOtherVms,
                   pendingDrinkSelection, selectedTargetVm, timerVars, saleVars,
                   codeVars, stockReplies, prepayReplies, held, countVars>>

\* A section that first looks at the transaction: without it, an error.
IfPresent(info, next) ==
    IF info THEN pc' = next /\ UNCHANGED <<currentState, lastErrorInfo, cvDataReady>>
            ELSE pc' = "run" /\ RaiseAndWake

BeginPayment ==
    /\ \/ pc = "pay_begin"   /\ IfPresent(HasPurchase, "pay_prompt")
       \/ pc = "pay_process" /\ IfPresent(HasPurchase, "pay_settle")
    /\ UNCHANGED <<availableOtherVms, transactionVars, timerVars, saleVars, codeVars,
                   networkVars, countVars>>

\* confirmPayment: yes, no, or a time-out that locks the prompt's mutex twice.
ConfirmPayment ==
    /\ pc = "pay_prompt"
    /\ \/ /\ pc' = "run"
          /\ currentState' \in {"PROCESSING_PAYMENT", "DISPLAYING_MAIN_MENU"}
       \/ pc' = "prompt_self_lock" /\ UNCHANGED currentState
    /\ UNCHANGED <<lastErrorInfo, cvDataReady, availableOtherVms, transactionVars,
                   timerVars, saleVars, codeVars, networkVars, countVars>>

\* processOrderApproval of a local order: the decrement may fail, unnoticed.
ApproveLocal ==
    /\ pc = "pay_settle" /\ ~isCurrentOrderPrepayment
    /\ currentActiveOrder' = [currentActiveOrder EXCEPT !.payStatus = "APPROVED"]
    /\ LET d == currentActiveOrder.drink
       IN  localSales' = [localSales EXCEPT ![d] = @ + 1] /\ DecreaseStock(d, 1)
    /\ currentState' = "DISPENSING_DRINK"
    /\ pc' = "run"
    /\ UNCHANGED <<lastErrorInfo, cvDataReady, availableOtherVms,
                   isCurrentOrderPrepayment, pendingDrinkSelection, selectedTargetVm,
                   timerVars, reserved, codeVars, networkVars, countVars>>

\* processOrderApproval of a prepayment issues the authentication code.
ApprovePrepayment ==
    /\ pc = "pay_settle" /\ isCurrentOrderPrepayment
    /\ \E c \in AuthCodes :
         currentActiveOrder' = [currentActiveOrder EXCEPT !.payStatus = "APPROVED",
                                                          !.certCode  = c]
    /\ IF selectedTargetVm = NoPeer
       THEN currentState' = "HANDLING_ERROR" /\ lastErrorInfo' = TRUE
       ELSE currentState' = "ISSUING_AUTH_CODE" /\ UNCHANGED lastErrorInfo
    /\ pc' = "run"
    /\ UNCHANGED <<cvDataReady, availableOtherVms, isCurrentOrderPrepayment,
                   pendingDrinkSelection, selectedTargetVm, timerVars, saleVars,
                   codeVars, networkVars, countVars>>

DeclinePayment ==
    /\ pc = "pay_settle"
    /\ currentActiveOrder' = [currentActiveOrder EXCEPT !.payStatus = "DECLINED"]
    /\ currentState' = "DISPLAYING_MAIN_MENU"
    /\ pc' = "run"
    /\ UNCHANGED <<lastErrorInfo, cvDataReady, availableOtherVms,
                   isCurrentOrderPrepayment, pendingDrinkSelection, selectedTargetVm,
                   timerVars, saleVars, codeVars, networkVars, countVars>>

BeginDispensing ==
    /\ pc = "dispense_begin"
    /\ IfPresent(HasPurchase, "dispense_done")
    /\ UNCHANGED <<availableOtherVms, transactionVars, timerVars, saleVars, codeVars,
                   networkVars, countVars>>

\* The drink is out; a code is marked USED only now, and without mtx_.
FinishDispensing ==
    /\ pc = "dispense_done"
    /\ IF isCurrentOrderPrepayment
       THEN LET c == currentActiveOrder.certCode
            IN  redeemed' = [redeemed EXCEPT ![c] = @ + 1] /\ MarkUsed(c)
       ELSE UNCHANGED <<redeemed, codes>>
    /\ pc' = "dispense_end"
    /\ UNCHANGED <<sharedVars, transactionVars, timerVars, saleVars, granted,
                   networkVars, countVars>>

\* state_broadcastingStockRequest forgets the answers to earlier broadcasts.
BeginBroadcast ==
    /\ pc = "bcast_begin"
    /\ IF pendingDrinkSelection # NoDrink
       THEN /\ availableOtherVms' = {} /\ cvDataReady' = FALSE
            /\ pc' = "bcast_send"
            /\ UNCHANGED <<currentState, lastErrorInfo>>
       ELSE /\ currentState' = "HANDLING_ERROR" /\ lastErrorInfo' = TRUE
            /\ pc' = "run"
            /\ UNCHANGED <<cvDataReady, availableOtherVms>>
    /\ UNCHANGED <<transactionVars, timerVars, saleVars, codeVars, networkVars,
                   countVars>>

\* Any of the peers get the request and have the drink; MessageService keeps
\* what goes wrong with the others to itself.  No mutex is held.
SendStockRequest ==
    /\ pc = "bcast_send"
    /\ \E have \in SUBSET Peers :
         stockReplies' = [r \in Peers \X Drinks |->
             IF r \in have \X {pendingDrinkSelection} THEN stockReplies[r] + 1
                                                      ELSE stockReplies[r]]
    /\ pc' = "bcast_arm"
    /\ UNCHANGED <<sharedVars, transactionVars, timerVars, saleVars, codeVars,
                   prepayReplies, held, requestSent, countVars>>

\* startResponseTimer runs without mtx_, after the request has left.
ArmTimer ==
    /\ \/ /\ pc = "bcast_arm" /\ pc' = "bcast_await"
          /\ StartResponseTimer("AWAITING_STOCK_RESPONSES")
       \/ /\ pc = "issue_arm" /\ pc' = "issue_wait"
          /\ StartResponseTimer("ISSUING_AUTH_CODE")
    /\ UNCHANGED <<sharedVars, transactionVars, saleVars, codeVars, networkVars,
                   countVars>>

\* cv_.wait_for returns because of the flag, and clears it.
WakeUp ==
    /\ pc \in {"await_stock", "issue_wait"}
    /\ cvDataReady
    /\ cvDataReady' = FALSE
    /\ pc' = "run"
    /\ UNCHANGED <<currentState, lastErrorInfo, availableOtherVms, transactionVars,
                   timerVars, saleVars, codeVars, networkVars, countVars>>

\* cv_.wait_for gives up.  It was entered after the timer was armed and waits at
\* least as long, so the timer is no longer armed; if the io thread is timely, it
\* has also run the handler.  What the code does next locks mtx_ a second time:
\* in handleStockResponseTimeout, or with state_check_lock.
GiveUpWaiting ==
    /\ ~cvDataReady /\ responseTimer = "off"
    /\ Timely => \A w \in WaitStates : dueTimeouts[w] = 0
    /\ \/ pc = "await_stock" /\ pc' = "await_self_lock"
       \/ pc = "issue_wait"  /\ pc' = "issue_self_lock"
    /\ UNCHANGED <<sharedVars, transactionVars, timerVars, saleVars, codeVars,
                   networkVars, countVars>>

\* The nearest machine is some machine of the list (DistanceService).
BeginOptions ==
    /\ pc = "options_begin"
    /\ IF pendingDrinkSelection = NoDrink
       THEN /\ pc' = "run" /\ RaiseAndWake
            /\ UNCHANGED <<availableOtherVms, selectedTargetVm>>
       ELSE /\ IF availableOtherVms = {}
               THEN pc' = "options_none" /\ UNCHANGED selectedTargetVm
               ELSE pc' = "options_prompt" /\ selectedTargetVm' \in availableOtherVms
            /\ UNCHANGED sharedVars
    /\ UNCHANGED <<currentActiveOrder, isCurrentOrderPrepayment, pendingDrinkSelection,
                   timerVars, saleVars, codeVars, networkVars, countVars>>

\* confirmPrepayment: a new order, or back to the menu (no, or its time-out).
ConfirmPrepayment ==
    /\ pc = "options_prompt"
    /\ pc' = "run"
    /\ \/ /\ CreateOrder(pendingDrinkSelection)
          /\ isCurrentOrderPrepayment' = TRUE
          /\ currentState' = "AWAITING_PAYMENT_CONFIRMATION"
       \/ /\ currentState' = "DISPLAYING_MAIN_MENU"
          /\ UNCHANGED <<currentActiveOrder, isCurrentOrderPrepayment, requestSent>>
    /\ UNCHANGED <<lastErrorInfo, cvDataReady, availableOtherVms,
                   pendingDrinkSelection, selectedTargetVm, timerVars, saleVars,
                   codeVars, stockReplies, prepayReplies, held, countVars>>

\* Mutant: a flag that was set earlier is not cleared.
BeginIssuingKeepsFlag ==
    /\ pc = "issue_begin"
    /\ IF HasCode /\ isCurrentOrderPrepayment
       THEN pc' = "issue_send" /\ UNCHANGED <<currentState, lastErrorInfo, cvDataReady>>
       ELSE pc' = "issue_wait" /\ RaiseAndWake
    /\ UNCHANGED <<availableOtherVms, transactionVars, timerVars, saleVars, codeVars,
                   networkVars, countVars>>

\* state_issuingAuthCodeAndRequestingReservation; after an error it still waits.
BeginIssuing ==
    /\ pc = "issue_begin"
    /\ IF HasCode /\ isCurrentOrderPrepayment
       THEN /\ cvDataReady' = FALSE /\ pc' = "issue_send"
            /\ UNCHANGED <<currentState, lastErrorInfo>>
       ELSE pc' = "issue_wait" /\ RaiseAndWake
    /\ UNCHANGED <<availableOtherVms, transactionVars, timerVars, saleVars, codeVars,
                   networkVars, countVars>>

\* The target reserves the drink and answers T, or answers F, or never gets the
\* request.  Its answer may still get lost or take any time.
SendPrepaymentRequest ==
    /\ pc = "issue_send"
    /\ requestSent' = TRUE
    /\ LET c == currentActiveOrder.certCode
           answer(ok) == [src |-> selectedTargetVm, drink |-> currentActiveOrder.drink,
                          certCode |-> c, availability |-> ok]
       IN  \/ /\ held' = held \cup {<<selectedTargetVm, c>>}
              /\ prepayReplies' = prepayReplies \cup {answer(TRUE)}
           \/ /\ prepayReplies' = prepayReplies \cup {answer(FALSE)}
              /\ UNCHANGED held
           \/ UNCHANGED <<held, prepayReplies>>
    /\ pc' = "issue_arm"
    /\ UNCHANGED <<sharedVars, transactionVars, timerVars, saleVars, codeVars,
                   stockReplies, countVars>>

\* state_displayingAuthCodeInfo
ShowAuthCode ==
    /\ pc = "show_code"
    /\ IfPresent(HasCode, "show_done")
    /\ UNCHANGED <<availableOtherVms, transactionVars, timerVars, saleVars, codeVars,
                   networkVars, countVars>>

\* state_awaitingAuthCodeInputPrompt: after the input everything is under mtx_.
\* A code of a drink that is not on the menu makes getDrinkDetails lock mtx_.
EnterAuthCode ==
    /\ pc = "code_input"
    /\ \/ /\ currentState' = "DISPLAYING_MAIN_MENU"         \* empty input
          /\ pc' = "run"
          /\ UNCHANGED <<lastErrorInfo, transactionVars>>
       \/ /\ currentState' = "HANDLING_ERROR"               \* malformed, absent or used
          /\ lastErrorInfo' = TRUE
          /\ pc' = "run"
          /\ UNCHANGED transactionVars
       \/ \E c \in AuthCodes :
            /\ Usable(c)
            /\ currentActiveOrder' = [drink |-> codes[c].drink, certCode |-> c,
                                      payStatus |-> "APPROVED"]
            /\ IF codes[c].drink \notin Drinks
               THEN /\ pc' = "redeem_self_lock"
                    /\ UNCHANGED <<pendingDrinkSelection, isCurrentOrderPrepayment,
                                   currentState>>
               ELSE /\ pc' = "run"
                    /\ IF currentState = "HANDLING_ERROR"  \* raised during the input
                       THEN UNCHANGED <<pendingDrinkSelection,
                                        isCurrentOrderPrepayment, currentState>>
                       ELSE /\ pendingDrinkSelection' = codes[c].drink
                            /\ isCurrentOrderPrepayment' = TRUE
                            /\ currentState' = "DISPENSING_DRINK"
            /\ UNCHANGED <<lastErrorInfo, selectedTargetVm>>
    /\ UNCHANGED <<cvDataReady, availableOtherVms, timerVars, saleVars, codeVars,
                   networkVars, countVars>>

\* HANDLING_ERROR: take the error, show it; every level leads to the menu.
TakeError ==
    /\ pc = "error_take"
    /\ lastErrorInfo' = FALSE
    /\ pc' = "error_menu"
    /\ UNCHANGED <<currentState, cvDataReady, availableOtherVms, transactionVars,
                   timerVars, saleVars, codeVars, networkVars, countVars>>

-----------------------------------------------------------------------------
(* The io thread: each handler is one section under mtx_.                  *)

IoThread == pc \notin {"init", "exited"} /\ MutexFree

\* What another machine sends without being asked counts against the bound.
Unasked == incoming < MaxIncoming /\ incoming' = incoming + 1

\* UC17.  The answer to a well-formed request changes nothing here.
OnReqStockReceived ==
    /\ IoThread /\ Unasked
    /\ \E malformed \in Malformed :
         IF malformed THEN RaiseAndWake
                      ELSE UNCHANGED <<currentState, lastErrorInfo, cvDataReady>>
    /\ UNCHANGED <<pc, availableOtherVms, transactionVars, timerVars, saleVars,
                   codeVars, networkVars, transactions>>

\* Mutant: an answer counts whatever drink it is about.
CountsForAnyDrink(p, d) == p \notin availableOtherVms

\* The first answer of each machine counts, if it is about the drink in hand.
Counts(p, d) == pendingDrinkSelection = d /\ p \notin availableOtherVms

\* UC9.  Any answer in flight that counts is taken, in whatever state.
OnRespStockReceived(p, d) ==
    /\ IoThread
    /\ stockReplies[<<p, d>>] > 0
    /\ stockReplies' = [stockReplies EXCEPT ![<<p, d>>] = @ - 1]
    /\ IF Counts(p, d)
       THEN /\ availableOtherVms' = availableOtherVms \cup {p}
            /\ IF Cardinality(availableOtherVms') >= Cardinality(Peers)
               THEN /\ responseTimer' = "off"
                    /\ currentState' = "DISPLAYING_OTHER_VM_OPTIONS"
                    /\ cvDataReady' = TRUE
               ELSE UNCHANGED <<responseTimer, currentState, cvDataReady>>
       ELSE UNCHANGED <<availableOtherVms, responseTimer, currentState, cvDataReady>>
    /\ UNCHANGED <<pc, lastErrorInfo, dueTimeouts, transactionVars, saleVars, codeVars,
                   prepayReplies, held, requestSent, countVars>>

\* UC9 E1: a field is missing or not a number.
OnMalformedRespStock ==
    /\ IoThread /\ TRUE \in Malformed /\ Unasked
    /\ RaiseAndWake
    /\ UNCHANGED <<pc, availableOtherVms, transactionVars, timerVars, saleVars,
                   codeVars, networkVars, transactions>>

\* Mutant: the number of items asked for is not looked at.
CanReserveOne(d, n) == StockOf(d) > 0

\* What is left is enough for the items asked for.
CanReserve(d, n) == StockOf(d) > 0 /\ StockOf(d) >= n

\* UC15.  The check, the decrement and the record of the code are one section;
\* the code replaces whatever was stored under it.
OnReqPrepayReceived(d, c, n) ==
    /\ IoThread /\ Unasked
    /\ IF CanReserve(d, n)
       THEN /\ DecreaseStock(d, n)
            /\ reserved' = [reserved EXCEPT ![d] = @ + n]
            /\ codes' = [codes EXCEPT ![c] = [status |-> "ACTIVE", drink |-> d]]
            /\ granted' = [granted EXCEPT ![c] = @ + 1]
       ELSE UNCHANGED <<stock, reserved, codes, granted>>
    /\ UNCHANGED <<pc, sharedVars, transactionVars, timerVars, localSales, redeemed,
                   networkVars, transactions>>

\* UC15 with a missing field, or an item_num that is no number from 1 to 99.
OnMalformedReqPrepay ==
    /\ IoThread /\ TRUE \in Malformed /\ Unasked
    /\ RaiseAndWake
    /\ UNCHANGED <<pc, availableOtherVms, transactionVars, timerVars, saleVars,
                   codeVars, networkVars, transactions>>

\* UC16: what the controller does with an answer while it waits for one.
AcceptPrepayAnswer(newState) ==
    /\ responseTimer' = "off"
    /\ currentState' = newState
    /\ lastErrorInfo' = (lastErrorInfo \/ newState = "HANDLING_ERROR")
    /\ cvDataReady' = TRUE

\* The answer is matched by drink and sender; it names no code.
OnRespPrepayReceived(r) ==
    /\ IoThread
    /\ r \in prepayReplies
    /\ prepayReplies' = prepayReplies \ {r}
    /\ IF currentState # "ISSUING_AUTH_CODE"
       THEN UNCHANGED <<responseTimer, currentState, lastErrorInfo, cvDataReady>>
       ELSE AcceptPrepayAnswer(
              IF /\ HasCode /\ pendingDrinkSelection = r.drink
                 /\ selectedTargetVm = r.src /\ r.availability
              THEN "DISPLAYING_AUTH_CODE_INFO" ELSE "HANDLING_ERROR")
    /\ UNCHANGED <<pc, availableOtherVms, dueTimeouts, transactionVars, saleVars,
                   codeVars, stockReplies, held, requestSent, countVars>>

\* UC16 with a missing field.
OnMalformedRespPrepay ==
    /\ IoThread /\ TRUE \in Malformed /\ Unasked
    /\ currentState = "ISSUING_AUTH_CODE"
    /\ AcceptPrepayAnswer("HANDLING_ERROR")
    /\ UNCHANGED <<pc, availableOtherVms, dueTimeouts, transactionVars, saleVars,
                   codeVars, networkVars, transactions>>

\* The timer expires; its handler is queued, and a cancel comes too late.
\* A timely main thread enters its wait before the three seconds are over.
ExpireTimer ==
    /\ responseTimer # "off"
    /\ pc # "exited"
    /\ Timely => pc # "bcast_await"
    /\ dueTimeouts' = [dueTimeouts EXCEPT ![responseTimer] = @ + 1]
    /\ responseTimer' = "off"
    /\ UNCHANGED <<pc, sharedVars, transactionVars, saleVars, codeVars, networkVars,
                   countVars>>

\* handleTimeout acts if the controller is in the state the timer was armed for.
HandleTimeout(w) ==
    /\ IoThread
    /\ dueTimeouts[w] > 0
    /\ dueTimeouts' = [dueTimeouts EXCEPT ![w] = @ - 1]
    /\ IF currentState # w
       THEN UNCHANGED <<currentState, lastErrorInfo, cvDataReady>>
       ELSE IF w = "AWAITING_STOCK_RESPONSES" /\ availableOtherVms # {}
       THEN /\ currentState' = "DISPLAYING_OTHER_VM_OPTIONS"
            /\ cvDataReady' = TRUE
            /\ UNCHANGED lastErrorInfo
       ELSE RaiseAndWake
    /\ UNCHANGED <<pc, availableOtherVms, responseTimer, transactionVars, saleVars,
                   codeVars, networkVars, countVars>>

-----------------------------------------------------------------------------
\* Steps of the main thread that wait for nobody but, at most, a prompt with a
\* time-out.
MainInternal ==
    \/ Initialize \/ RunLoop \/ ChangeState \/ ResetTransaction
    \/ CheckStock \/ CommitSelection
    \/ BeginPayment \/ ConfirmPayment
    \/ ApproveLocal \/ ApprovePrepayment \/ DeclinePayment
    \/ BeginDispensing \/ FinishDispensing
    \/ BeginBroadcast \/ SendStockRequest \/ ArmTimer
    \/ WakeUp \/ GiveUpWaiting
    \/ BeginOptions \/ ConfirmPrepayment
    \/ BeginIssuing \/ SendPrepaymentRequest \/ ShowAuthCode
    \/ TakeError

\* Steps that wait for the customer, without limit.
Customer == ChooseMenu \/ SelectDrink \/ EnterAuthCode

Timer == ExpireTimer \/ \E w \in WaitStates : HandleTimeout(w)

Messages ==
    \/ OnReqStockReceived
    \/ \E p \in Peers, d \in Drinks : OnRespStockReceived(p, d)
    \/ OnMalformedRespStock
    \/ \E d \in Drinks \cup {UnknownDrink}, c \in AuthCodes, n \in ItemNums :
         OnReqPrepayReceived(d, c, n)
    \/ OnMalformedReqPrepay
    \/ \E r \in prepayReplies : OnRespPrepayReceived(r)
    \/ OnMalformedRespPrepay

\* The program has ended, or hangs.
Stopped == pc \in Stops /\ UNCHANGED vars

Next == MainInternal \/ Customer \/ Timer \/ Messages \/ Stopped

Spec == Init /\ [][Next]_vars

\* The threads are scheduled; customers and other machines owe nothing.
Fairness == WF_vars(MainInternal) /\ WF_vars(ExpireTimer)
            /\ \A w \in WaitStates : WF_vars(HandleTimeout(w))

FairSpec == Spec /\ Fairness

-----------------------------------------------------------------------------
(* Properties.                                                             *)

TypeOK ==
    /\ pc \in Labels
    /\ currentState \in ControllerState
    /\ lastErrorInfo \in BOOLEAN /\ cvDataReady \in BOOLEAN
    /\ availableOtherVms \in SUBSET Peers
    /\ currentActiveOrder \in Orders \cup {NoOrder}
    /\ isCurrentOrderPrepayment \in BOOLEAN
    /\ pendingDrinkSelection \in Drinks \cup {NoDrink}
    /\ selectedTargetVm \in Peers \cup {NoPeer}
    /\ responseTimer \in WaitStates \cup {"off"}
    /\ dueTimeouts \in [WaitStates -> Nat]
    /\ stock \in [Drinks -> 0..99]
    /\ localSales \in [Drinks -> Nat] /\ reserved \in [Drinks -> Nat]
    /\ codes \in [AuthCodes -> [status : {"ABSENT", "ACTIVE", "USED"},
                                drink  : Drinks \cup {UnknownDrink, NoDrink}]]
    /\ granted \in [AuthCodes -> Nat] /\ redeemed \in [AuthCodes -> Nat]
    /\ stockReplies \in [Peers \X Drinks -> Nat]
    /\ prepayReplies \in SUBSET [src : Peers, drink : Drinks \cup {UnknownDrink},
                                 certCode : AuthCodes, availability : BOOLEAN]
    /\ held \in SUBSET (Peers \X AuthCodes)
    /\ requestSent \in BOOLEAN
    /\ transactions \in 0..MaxTransactions /\ incoming \in 0..MaxIncoming

\* No section runs without the data it is about: the optional fields are engaged
\* where the code dereferences them (pendingDrinkSelection_->, *currentActiveOrder_)
\* and no "information missing" branch of a state function is ever taken, whatever
\* the io thread did to currentState_ in between.
InformationPresent ==
    /\ pc \in {"select_check", "select_in_stock", "select_sold_out", "bcast_begin",
               "bcast_send", "options_begin", "options_prompt"}
         => pendingDrinkSelection # NoDrink
    /\ pc \in {"pay_begin", "pay_prompt", "pay_process", "pay_settle",
               "dispense_begin", "dispense_done"} => HasPurchase
    /\ pc = "pay_settle" /\ isCurrentOrderPrepayment => selectedTargetVm # NoPeer
    /\ pc \in {"issue_begin", "issue_send", "issue_arm", "issue_wait",
               "show_code", "show_done"} => HasCode /\ isCurrentOrderPrepayment
    /\ pc = "options_begin" => availableOtherVms # {}

\* The stock is read when the drink is chosen and taken when it is paid, and a
\* REQ_PREPAY may take the last item in between; the failed decrement goes
\* unnoticed.  For each drink this happens at most once in the life of the
\* machine, with its last item: everything else is accounted for.
OversellsOnlyLastItem ==
    \A d \in Drinks :
        \/ stock[d] + localSales[d] + reserved[d] = InitialStock[d]
        \/ stock[d] = 0 /\ localSales[d] + reserved[d] = InitialStock[d] + 1

\* A drink leaves the machine only for an approved order of that drink, and for a
\* prepayment only while its code is ACTIVE: the code is checked some sections,
\* and handlers of the io thread, before the drink is out and the code marked.
DispensesOnlyPaidOrders ==
    pc \in {"dispense_begin", "dispense_done"} =>
        /\ currentActiveOrder.payStatus = "APPROVED"
        /\ currentActiveOrder.drink = pendingDrinkSelection
        /\ isCurrentOrderPrepayment =>
               codes[currentActiveOrder.certCode].status = "ACTIVE"

\* No reservation is redeemed twice, even if codes are reused: a code opens the
\* machine at most as often as it was granted, not counting what it still holds.
NoDoubleRedemption ==
    \A c \in AuthCodes :
        redeemed[c] + (IF codes[c].status = "ACTIVE" THEN 1 ELSE 0) <= granted[c]

\* The codes on record that are, or were, good for a drink.
CodesFor(d) == { c \in AuthCodes : codes[c].status # "ABSENT" /\ codes[c].drink = d }

\* Every code on record has an item behind it: of what has left the stock of a drink,
\* enough was set aside, however many items the requests asked for, to give one to
\* each code after all local sales, but for the one sale that may be short.
CodesHaveItems ==
    \A d \in Drinks :
        localSales[d] + Cardinality(CodesFor(d))
            <= InitialStock[d] - stock[d] + (IF stock[d] = 0 THEN 1 ELSE 0)

\* The main thread waits for the answer in a loop that sends the request; still
\* the target is asked at most once for each paid order, because the flag is
\* never set without a change of state.
AsksOncePerOrder == pc = "issue_send" => ~requestSent

\* getDrinkDetails locks mtx_ if it does not know the drink, and
\* state_awaitingAuthCodeInputPrompt calls it with mtx_ held: no stored code
\* makes it do so.
RedemptionNeverLocksTwice == pc # "redeem_self_lock"

\* The error screen has an error to show, although errors are raised by both
\* threads and the state is read in another section than the error.
ErrorScreenHasError == pc = "error_take" => lastErrorInfo

\* A wait that gives up hangs the machine.  The wait of a customer who has paid for
\* a prepayment does so only if the handler of its time-out is still in the queue,
\* or if something else had moved the controller on between the read of the state
\* and the section that clears the flag and sends the request (the message that
\* did so has raised the flag in vain, and the answer finds another state).
PaidWaitHangsOnlyIfOvertaken ==
    pc = "issue_self_lock" =>
        dueTimeouts["ISSUING_AUTH_CODE"] > 0 \/ currentState # "ISSUING_AUTH_CODE"

\* Without slow threads the wait for stock answers hangs in one case only: all
\* machines have offered the drink before the state of the wait was written.
StockWaitHangsOnlyIfAllAnswered ==
    Timely => (pc = "await_self_lock" => availableOtherVms = Peers)

\* A local customer has paid and the drink is in hand.
PaidLocalSale ==
    currentActiveOrder \in ApprovedOrders /\ ~isCurrentOrderPrepayment

\* From the approval until the drink is out, and on to the menu, no well-formed
\* message and no time-out takes the controller away from a local sale: an answer
\* that could is one about the drink on sale, and nobody was ever asked for it.
PaidSaleIsOnCourse ==
    TRUE \notin Malformed /\ PaidLocalSale =>
        \/ /\ currentState = "DISPENSING_DRINK"
           /\ pc \in {"run", "dispense_begin", "dispense_done", "dispense_end"}
        \/ /\ currentState = "TRANSACTION_COMPLETED"
           /\ pc \in {"run", "completed_reset"}

\* No well-formed message and no time-out overwrites the request to end the program.
HaltRequestStays ==
    [][ TRUE \notin Malformed /\ currentState = "SYSTEM_HALTED_REQUEST"
          => currentState' = "SYSTEM_HALTED_REQUEST" ]_vars

-----------------------------------------------------------------------------
(* Properties of the fair system.                                          *)

\* The states that wait for other machines are left, by an answer or by the
\* time-out, unless the main thread has locked itself up.
WaitStatesAreLeft ==
    \A w \in WaitStates :
        currentState = w ~> (currentState # w \/ pc \in SelfLocks)

\* A local customer who has paid gets the drink: no well-formed message, however
\* late, takes the controller away from a local sale.
LocalSaleIsDelivered ==
    ( /\ pc = "run" /\ currentState # "TRANSACTION_COMPLETED"
      /\ currentActiveOrder \in ApprovedOrders /\ ~isCurrentOrderPrepayment )
        ~> pc = "dispense_end"

\* Choice 3 of the menu ends the program: no well-formed message overwrites the
\* request before the loop reads it.
HaltIsHonoured == currentState = "SYSTEM_HALTED_REQUEST" ~> pc = "exited"

-----------------------------------------------------------------------------
(* What comments and documents say and the code does not do.               *)

\* A wait that gives up ends in the error screen or in the options, and the main
\* thread goes on.
WaitThatGivesUpGoesOn == pc \notin {"await_self_lock", "issue_self_lock"}

\* The customer is told to use the code at the target machine: the target holds a
\* drink under it.
ShownCodeIsHeld ==
    pc = "show_done" => <<selectedTargetVm, currentActiveOrder.certCode>> \in held

\* A paid local order reduces the stock of its drink by one.
EachSaleTakesAnItem ==
    [][ \A d \in Drinks :
          localSales'[d] = localSales[d] + 1 => stock'[d] = stock[d] - 1 ]_vars
=============================================================================
