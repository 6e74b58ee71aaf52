--------------------- MODULE UserProcessControllerProofs ---------------------
(***************************************************************************)
(* Proofs about UserProcessController, for every number of machines,       *)
(* drinks, codes and items.                                                *)
(***************************************************************************)
EXTENDS UserProcessController, TLAPS

PayStates == {"AWAITING_PAYMENT_CONFIRMATION", "PROCESSING_PAYMENT"}

PayLabels == {"pay_begin", "pay_prompt", "pay_process", "pay_settle"}

\* After these sections the main thread overwrites the state without reading it.
Forgetful == {"menu_choice", "completed_menu", "bcast_send", "bcast_arm",
              "bcast_await"}

PendingOrder == HasPurchase /\ currentActiveOrder.payStatus = "PENDING"

\* A state the main thread may still read has the data its state function needs,
\* whichever thread has written it.
StateCarries ==
    pc \notin Forgetful =>
        /\ currentState \in {"BROADCASTING_STOCK_REQUEST", "AWAITING_STOCK_RESPONSES"}
             => pendingDrinkSelection # NoDrink
        /\ currentState = "DISPLAYING_OTHER_VM_OPTIONS"
             => pendingDrinkSelection # NoDrink /\ availableOtherVms # {}
        /\ currentState \in PayStates
             => PendingOrder /\ (isCurrentOrderPrepayment => selectedTargetVm # NoPeer)
        /\ currentState \in {"ISSUING_AUTH_CODE", "DISPLAYING_AUTH_CODE_INFO"}
             => HasCode /\ isCurrentOrderPrepayment
        /\ currentState = "DISPENSING_DRINK" => HasPurchase

\* What the sections leave to the sections after them, beyond InformationPresent.
LabelCarries ==
    /\ pc \in {"bcast_arm", "bcast_await"} => pendingDrinkSelection # NoDrink
    /\ pc = "options_prompt" => selectedTargetVm # NoPeer
    /\ pc \in PayLabels =>
         PendingOrder /\ (isCurrentOrderPrepayment => selectedTargetVm # NoPeer)

\* Only drinks of the menu are ever reserved.
CodesKnown ==
    /\ \A c \in AuthCodes : codes[c].status # "ABSENT" => codes[c].drink \in Drinks
    /\ pc # "redeem_self_lock"

Carried == InformationPresent /\ StateCarries /\ LabelCarries /\ CodesKnown

\* The parts of TypeOK, for actions that change many variables.
FieldsOK ==
    /\ pc \in Labels
    /\ currentState \in ControllerState
    /\ lastErrorInfo \in BOOLEAN /\ cvDataReady \in BOOLEAN
    /\ availableOtherVms \in SUBSET Peers
    /\ currentActiveOrder \in Orders \cup {NoOrder}
    /\ isCurrentOrderPrepayment \in BOOLEAN
    /\ pendingDrinkSelection \in Drinks \cup {NoDrink}
    /\ selectedTargetVm \in Peers \cup {NoPeer}

TimerOK ==
    /\ responseTimer \in WaitStates \cup {"off"}
    /\ dueTimeouts \in [WaitStates -> Nat]

CodeRecords == [status : {"ABSENT", "ACTIVE", "USED"},
                drink  : Drinks \cup {UnknownDrink, NoDrink}]

StoresOK ==
    /\ stock \in [Drinks -> 0..99]
    /\ localSales \in [Drinks -> Nat] /\ reserved \in [Drinks -> Nat]
    /\ codes \in [AuthCodes -> CodeRecords]
    /\ granted \in [AuthCodes -> Nat] /\ redeemed \in [AuthCodes -> Nat]

NetworkOK ==
    /\ stockReplies \in [Peers \X Drinks -> Nat]
    /\ prepayReplies \in SUBSET [src : Peers, drink : Drinks \cup {UnknownDrink},
                                 certCode : AuthCodes, availability : BOOLEAN]
    /\ held \in SUBSET (Peers \X AuthCodes)
    /\ requestSent \in BOOLEAN
    /\ transactions \in 0..MaxTransactions /\ incoming \in 0..MaxIncoming

\* The inductive invariant: what the sections and states carry, and the types.
IInv == FieldsOK /\ TimerOK /\ StoresOK /\ NetworkOK /\ Carried

USE DEF sharedVars, transactionVars, timerVars, saleVars, codeVars, networkVars,
        countVars

\* The parts of TypeOK are all of it.
LEMMA TypeParts == TypeOK <=> FieldsOK /\ TimerOK /\ StoresOK /\ NetworkOK
  BY DEF TypeOK, FieldsOK, TimerOK, StoresOK, NetworkOK, CodeRecords

\* The fields of the record EntryPoint, one by one.
LEMMA EntryPointValues ==
    /\ DOMAIN EntryPoint =
         { "SYSTEM_READY", "DISPLAYING_MAIN_MENU", "AWAITING_DRINK_SELECTION",
           "BROADCASTING_STOCK_REQUEST", "AWAITING_STOCK_RESPONSES",
           "AWAITING_PAYMENT_CONFIRMATION", "PROCESSING_PAYMENT",
           "ISSUING_AUTH_CODE", "DISPENSING_DRINK", "DISPLAYING_OTHER_VM_OPTIONS",
           "DISPLAYING_AUTH_CODE_INFO", "AWAITING_AUTH_CODE_INPUT_PROMPT",
           "TRANSACTION_COMPLETED", "HANDLING_ERROR" }
    /\ EntryPoint["SYSTEM_READY"] = "system_ready"
    /\ EntryPoint["DISPLAYING_MAIN_MENU"] = "menu_reset"
    /\ EntryPoint["AWAITING_DRINK_SELECTION"] = "select"
    /\ EntryPoint["BROADCASTING_STOCK_REQUEST"] = "bcast_begin"
    /\ EntryPoint["AWAITING_STOCK_RESPONSES"] = "await_stock"
    /\ EntryPoint["AWAITING_PAYMENT_CONFIRMATION"] = "pay_begin"
    /\ EntryPoint["PROCESSING_PAYMENT"] = "pay_process"
    /\ EntryPoint["ISSUING_AUTH_CODE"] = "issue_begin"
    /\ EntryPoint["DISPENSING_DRINK"] = "dispense_begin"
    /\ EntryPoint["DISPLAYING_OTHER_VM_OPTIONS"] = "options_begin"
    /\ EntryPoint["DISPLAYING_AUTH_CODE_INFO"] = "show_code"
    /\ EntryPoint["AWAITING_AUTH_CODE_INPUT_PROMPT"] = "code_input"
    /\ EntryPoint["TRANSACTION_COMPLETED"] = "completed_reset"
    /\ EntryPoint["HANDLING_ERROR"] = "error_take"
  BY DEF EntryPoint

\* The fields of the record ChangesTo, one by one.
LEMMA ChangesToValues ==
    /\ DOMAIN ChangesTo =
         { "init_ready", "system_ready", "bcast_await", "options_none", "show_done",
           "dispense_end", "completed_menu", "error_menu" }
    /\ ChangesTo["init_ready"]     = "SYSTEM_READY"
    /\ ChangesTo["system_ready"]   = "DISPLAYING_MAIN_MENU"
    /\ ChangesTo["bcast_await"]    = "AWAITING_STOCK_RESPONSES"
    /\ ChangesTo["options_none"]   = "DISPLAYING_MAIN_MENU"
    /\ ChangesTo["show_done"]      = "TRANSACTION_COMPLETED"
    /\ ChangesTo["dispense_end"]   = "TRANSACTION_COMPLETED"
    /\ ChangesTo["completed_menu"] = "DISPLAYING_MAIN_MENU"
    /\ ChangesTo["error_menu"]     = "DISPLAYING_MAIN_MENU"
  BY DEF ChangesTo

\* The labels, one by one.
LEMMA LabelsValues ==
    { "system_ready", "menu_reset", "select", "bcast_begin", "await_stock",
      "pay_begin", "pay_process", "issue_begin", "dispense_begin", "options_begin",
      "show_code", "code_input", "completed_reset", "error_take", "init_ready",
      "bcast_await", "options_none", "show_done", "dispense_end", "completed_menu",
      "error_menu", "await_self_lock", "issue_self_lock", "redeem_self_lock",
      "prompt_self_lock", "exited", "init", "run", "menu_choice", "select_check",
      "select_in_stock", "select_sold_out", "bcast_send", "bcast_arm", "pay_prompt",
      "pay_settle", "dispense_done", "options_prompt", "issue_send", "issue_arm",
      "issue_wait" } \subseteq Labels
<1>1. \A s \in DOMAIN EntryPoint : EntryPoint[s] \in Labels
  BY DEF Labels
<1>2. DOMAIN ChangesTo \cup Stops \subseteq Labels
  BY DEF Labels
<1>3. { "init", "run", "menu_choice", "select_check", "select_in_stock",
        "select_sold_out", "bcast_send", "bcast_arm", "pay_prompt", "pay_settle",
        "dispense_done", "options_prompt", "issue_send", "issue_arm", "issue_wait" }
        \subseteq Labels
  BY DEF Labels
<1> QED
  BY <1>1, <1>2, <1>3, EntryPointValues, ChangesToValues DEF Stops, SelfLocks

\* The states, one by one.
LEMMA StateValues ==
    { "INITIALIZING", "SYSTEM_READY", "DISPLAYING_MAIN_MENU",
      "SYSTEM_HALTED_REQUEST", "AWAITING_DRINK_SELECTION",
      "AWAITING_PAYMENT_CONFIRMATION", "PROCESSING_PAYMENT", "DISPENSING_DRINK",
      "BROADCASTING_STOCK_REQUEST", "AWAITING_STOCK_RESPONSES", "ISSUING_AUTH_CODE",
      "DISPLAYING_OTHER_VM_OPTIONS", "DISPLAYING_AUTH_CODE_INFO",
      "AWAITING_AUTH_CODE_INPUT_PROMPT", "TRANSACTION_COMPLETED",
      "HANDLING_ERROR" } \subseteq ControllerState
<1>1. WaitStates \subseteq ControllerState
  BY DEF ControllerState
<1>2. { "INITIALIZING", "SYSTEM_READY", "DISPLAYING_MAIN_MENU",
        "SYSTEM_HALTED_REQUEST", "AWAITING_DRINK_SELECTION",
        "AWAITING_PAYMENT_CONFIRMATION", "PROCESSING_PAYMENT", "DISPENSING_DRINK",
        "BROADCASTING_STOCK_REQUEST", "DISPLAYING_OTHER_VM_OPTIONS",
        "DISPLAYING_AUTH_CODE_INFO", "AWAITING_AUTH_CODE_INPUT_PROMPT",
        "TRANSACTION_COMPLETED", "HANDLING_ERROR" } \subseteq ControllerState
  BY DEF ControllerState
<1> QED
  BY <1>1, <1>2 DEF WaitStates

\* Counting up keeps a function of naturals, at whatever argument.
LEMMA AddOne ==
    ASSUME NEW S, NEW f \in [S -> Nat], NEW x
    PROVE  [f EXCEPT ![x] = @ + 1] \in [S -> Nat]
<1> DEFINE g == [f EXCEPT ![x] = @ + 1]
<1>1. ASSUME NEW y \in S PROVE g[y] \in Nat
  BY <1>1
<1>2. g \in [S -> Nat]
  <2>1. g = [y \in S |-> g[y]]
    OBVIOUS
  <2> HIDE DEF g
  <2> QED
    BY <2>1, <1>1
<1> QED
  BY <1>2

\* Taking at most what is there keeps the stock within 0..99.
LEMMA TakeItems ==
    ASSUME NEW S, NEW f \in [S -> 0..99], NEW x \in S, NEW n \in 0..f[x]
    PROVE  [f EXCEPT ![x] = @ - n] \in [S -> 0..99]
  OBVIOUS

\* Marking any code USED keeps the type of the code store.
LEMMA MarkingKeepsType ==
    ASSUME codes \in [AuthCodes -> CodeRecords], NEW c
    PROVE  [codes EXCEPT ![c].status = "USED"] \in [AuthCodes -> CodeRecords]
<1> DEFINE g == [codes EXCEPT ![c].status = "USED"]
<1>1. \A x \in AuthCodes : g[x] \in CodeRecords
  BY DEF CodeRecords
<1>2. g \in [AuthCodes -> CodeRecords]
  <2>1. g = [x \in AuthCodes |-> g[x]]
    OBVIOUS
  <2> HIDE DEF g
  <2> QED
    BY <2>1, <1>1
<1> QED
  BY <1>2

\* The invariant holds when the program starts.
LEMMA InitIInv == ASSUME Init PROVE IInv
<1>1. FieldsOK
  BY LabelsValues, StateValues DEF Init, FieldsOK
<1>2. TimerOK
  BY DEF Init, TimerOK
<1>3. StoresOK
  BY ConstantsAssumption DEF Init, StoresOK, CodeRecords
<1>4. NetworkOK
  <2>1. stockReplies \in [Peers \X Drinks -> Nat]
    BY DEF Init
  <2>2. transactions \in 0..MaxTransactions /\ incoming \in 0..MaxIncoming
    BY ConstantsAssumption DEF Init
  <2> QED
    BY <2>1, <2>2 DEF Init, NetworkOK
<1>5. Carried
  BY DEF Init, Carried, InformationPresent, StateCarries, LabelCarries, CodesKnown,
         PayStates, PayLabels
<1> QED
  BY <1>1, <1>2, <1>3, <1>4, <1>5 DEF IInv

\* From here on, one lemma for each action: it keeps the invariant.
LEMMA InitializeIInv ==
    ASSUME IInv, Initialize
    PROVE  IInv'
<1>1. FieldsOK'
  BY LabelsValues, StateValues DEF IInv, FieldsOK, Initialize
<1>2. TimerOK' /\ StoresOK' /\ NetworkOK'
  BY DEF IInv, TimerOK, StoresOK, NetworkOK, Initialize
<1>3. Carried'
  BY DEF IInv, FieldsOK, StoresOK, Initialize, Carried, InformationPresent,
         StateCarries, LabelCarries, CodesKnown, PayStates, PayLabels, PendingOrder,
         HasPurchase, HasCode, Forgetful
<1> QED
  BY <1>1, <1>2, <1>3 DEF IInv

\* The section of a state finds what StateCarries says of the state.
LEMMA RunLoopIInv ==
    ASSUME IInv, RunLoop
    PROVE  IInv'
<1>1. FieldsOK'
  BY LabelsValues, EntryPointValues DEF IInv, FieldsOK, RunLoop
<1>2. TimerOK' /\ StoresOK' /\ NetworkOK'
  BY DEF IInv, TimerOK, StoresOK, NetworkOK, RunLoop
<1>3. Carried'
  BY EntryPointValues
     DEF IInv, FieldsOK, StoresOK, RunLoop, Carried, InformationPresent,
         StateCarries, LabelCarries, CodesKnown, PayStates, PayLabels, PendingOrder,
         HasPurchase, HasCode, Forgetful, Orders
<1> QED
  BY <1>1, <1>2, <1>3 DEF IInv

\* None of the states that are written blindly needs data.
LEMMA ChangeStateIInv ==
    ASSUME IInv, ChangeState
    PROVE  IInv'
<1>1. FieldsOK'
  BY StateValues, ChangesToValues, LabelsValues DEF IInv, FieldsOK, ChangeState
<1>2. TimerOK' /\ StoresOK' /\ NetworkOK'
  BY DEF IInv, TimerOK, StoresOK, NetworkOK, ChangeState
<1>3. Carried'
  BY ChangesToValues
     DEF IInv, FieldsOK, StoresOK, ChangeState, Carried, InformationPresent,
         StateCarries, LabelCarries, CodesKnown, PayStates, PayLabels, PendingOrder,
         HasPurchase, HasCode, Forgetful, Orders
<1> QED
  BY <1>1, <1>2, <1>3 DEF IInv

\* The data goes, but the state that may have needed it is overwritten next.
LEMMA ResetTransactionIInv ==
    ASSUME IInv, ResetTransaction
    PROVE  IInv'
<1>1. FieldsOK'
  BY LabelsValues, StateValues
     DEF IInv, FieldsOK, ResetTransaction, ResetCurrentTransaction
<1>2. TimerOK'
  BY DEF IInv, TimerOK, ResetTransaction, ResetCurrentTransaction, FieldsOK
<1>3. StoresOK' /\ NetworkOK'
  BY DEF IInv, StoresOK, NetworkOK, ResetTransaction, ResetCurrentTransaction
<1>4. Carried'
  BY DEF IInv, FieldsOK, StoresOK, ResetTransaction, ResetCurrentTransaction,
         Carried, InformationPresent, StateCarries, LabelCarries, CodesKnown,
         PayStates, PayLabels, PendingOrder, HasPurchase, HasCode, Forgetful
<1> QED
  BY <1>1, <1>2, <1>3, <1>4 DEF IInv

\* The drink is known to be selected.
LEMMA CheckStockIInv ==
    ASSUME IInv, CheckStock
    PROVE  IInv'
<1>1. FieldsOK'
  BY LabelsValues, StateValues DEF IInv, FieldsOK, CheckStock
<1>2. TimerOK' /\ StoresOK' /\ NetworkOK'
  BY DEF IInv, TimerOK, StoresOK, NetworkOK, CheckStock
<1>3. Carried'
  BY DEF IInv, FieldsOK, StoresOK, CheckStock, Carried, InformationPresent,
         StateCarries, LabelCarries, CodesKnown, PayStates, PayLabels, PendingOrder,
         HasPurchase, HasCode, Forgetful
<1> QED
  BY <1>1, <1>2, <1>3 DEF IInv

\* A new order is pending, for the drink in hand.
LEMMA CommitSelectionIInv ==
    ASSUME IInv, CommitSelection
    PROVE  IInv'
<1>1. FieldsOK'
  <2>1. pendingDrinkSelection \in Drinks
    BY DEF IInv, FieldsOK, Carried, InformationPresent, CommitSelection
  <2>2. currentActiveOrder' \in Orders \cup {NoOrder}
    <3>1. CASE pc = "select_in_stock"
      BY <2>1, <3>1 DEF CommitSelection, CreateOrder, Orders
    <3>2. CASE pc = "select_sold_out"
      BY <3>2 DEF IInv, FieldsOK, CommitSelection
    <3> QED
      BY <3>1, <3>2 DEF CommitSelection
  <2> QED
    BY <2>1, <2>2, LabelsValues, StateValues DEF IInv, FieldsOK, CommitSelection
<1>2. NetworkOK'
  BY DEF IInv, NetworkOK, CommitSelection, CreateOrder
<1>3. TimerOK' /\ StoresOK'
  BY DEF IInv, TimerOK, StoresOK, CommitSelection, CreateOrder
<1>4. Carried'
  BY OrderAssumption
     DEF IInv, FieldsOK, StoresOK, CommitSelection, CreateOrder, Carried,
         InformationPresent, StateCarries, LabelCarries, CodesKnown, PayStates,
         PayLabels, PendingOrder, HasPurchase, HasCode, Forgetful, Orders
<1> QED
  BY <1>1, <1>2, <1>3, <1>4 DEF IInv

\* The information is never missing.
LEMMA BeginPaymentIInv ==
    ASSUME IInv, BeginPayment
    PROVE  IInv'
<1>1. FieldsOK'
  BY LabelsValues, StateValues
     DEF IInv, FieldsOK, BeginPayment, IfPresent, RaiseAndWake
<1>2. TimerOK' /\ StoresOK' /\ NetworkOK'
  BY DEF IInv, TimerOK, StoresOK, NetworkOK, BeginPayment, IfPresent, RaiseAndWake
<1>3. Carried'
  BY DEF IInv, FieldsOK, StoresOK, BeginPayment, IfPresent, RaiseAndWake, Carried,
         InformationPresent, StateCarries, LabelCarries, CodesKnown, PayStates,
         PayLabels, PendingOrder, HasPurchase, HasCode, Forgetful
<1> QED
  BY <1>1, <1>2, <1>3 DEF IInv

\* PROCESSING_PAYMENT finds the pending order of the prompt.
LEMMA ConfirmPaymentIInv ==
    ASSUME IInv, ConfirmPayment
    PROVE  IInv'
<1>1. FieldsOK'
  BY LabelsValues, StateValues DEF IInv, FieldsOK, ConfirmPayment
<1>2. TimerOK' /\ StoresOK' /\ NetworkOK'
  BY DEF IInv, TimerOK, StoresOK, NetworkOK, ConfirmPayment
<1>3. Carried'
  BY DEF IInv, FieldsOK, StoresOK, ConfirmPayment, Carried, InformationPresent,
         StateCarries, LabelCarries, CodesKnown, PayStates, PayLabels, PendingOrder,
         HasPurchase, HasCode, Forgetful
<1> QED
  BY <1>1, <1>2, <1>3 DEF IInv

\* The order stays; its drink is taken from a stock that has it, or is not taken.
LEMMA ApproveLocalIInv ==
    ASSUME IInv, ApproveLocal
    PROVE  IInv'
<1>1. FieldsOK'
  BY LabelsValues, StateValues
     DEF IInv, FieldsOK, ApproveLocal, DecreaseStock, Carried, InformationPresent,
         HasPurchase, Orders
<1>2. StoresOK'
  <2>1. localSales' \in [Drinks -> Nat]
    BY AddOne DEF IInv, StoresOK, ApproveLocal
  <2>2. stock' \in [Drinks -> 0..99]
    BY TakeItems DEF IInv, StoresOK, ApproveLocal, DecreaseStock
  <2> QED
    BY <2>1, <2>2 DEF IInv, StoresOK, ApproveLocal
<1>3. TimerOK' /\ NetworkOK'
  BY DEF IInv, TimerOK, NetworkOK, ApproveLocal, DecreaseStock
<1>4. Carried'
  BY OrderAssumption
     DEF IInv, FieldsOK, StoresOK, ApproveLocal, DecreaseStock, Carried,
         InformationPresent, StateCarries, LabelCarries, CodesKnown, PayStates,
         PayLabels, PendingOrder, HasPurchase, HasCode, Forgetful, Orders
<1> QED
  BY <1>1, <1>2, <1>3, <1>4 DEF IInv

\* A prepayment has its target from the prompt before, so ISSUING_AUTH_CODE has all
\* it needs.
LEMMA ApprovePrepaymentIInv ==
    ASSUME IInv, ApprovePrepayment
    PROVE  IInv'
<1>1. FieldsOK'
  BY LabelsValues, StateValues
     DEF IInv, FieldsOK, ApprovePrepayment, Carried, InformationPresent,
         HasPurchase, Orders
<1>2. TimerOK' /\ StoresOK' /\ NetworkOK'
  BY DEF IInv, TimerOK, StoresOK, NetworkOK, ApprovePrepayment
<1>3. Carried'
  <2>1. HasPurchase' /\ (selectedTargetVm # NoPeer => HasCode')
    BY ConstantsAssumption, OrderAssumption
       DEF IInv, FieldsOK, ApprovePrepayment, HasPurchase, HasCode, Carried,
           InformationPresent, Orders
  <2> QED
    BY <2>1
       DEF IInv, ApprovePrepayment, Carried, InformationPresent, StateCarries,
           LabelCarries, CodesKnown, PayStates, PayLabels, Forgetful
<1> QED
  BY <1>1, <1>2, <1>3 DEF IInv

\* The main menu needs no data.
LEMMA DeclinePaymentIInv ==
    ASSUME IInv, DeclinePayment
    PROVE  IInv'
<1>1. FieldsOK'
  BY LabelsValues, StateValues
     DEF IInv, FieldsOK, DeclinePayment, Carried, InformationPresent, HasPurchase,
         Orders
<1>2. TimerOK' /\ StoresOK' /\ NetworkOK'
  BY DEF IInv, TimerOK, StoresOK, NetworkOK, DeclinePayment
<1>3. Carried'
  BY OrderAssumption
     DEF IInv, FieldsOK, StoresOK, DeclinePayment, Carried, InformationPresent,
         StateCarries, LabelCarries, CodesKnown, PayStates, PayLabels, PendingOrder,
         HasPurchase, HasCode, Forgetful, Orders
<1> QED
  BY <1>1, <1>2, <1>3 DEF IInv

\* The information is never missing.
LEMMA BeginDispensingIInv ==
    ASSUME IInv, BeginDispensing
    PROVE  IInv'
<1>1. FieldsOK'
  BY LabelsValues, StateValues
     DEF IInv, FieldsOK, BeginDispensing, IfPresent, RaiseAndWake
<1>2. TimerOK' /\ StoresOK' /\ NetworkOK'
  BY DEF IInv, TimerOK, StoresOK, NetworkOK, BeginDispensing, IfPresent,
         RaiseAndWake
<1>3. Carried'
  BY DEF IInv, FieldsOK, StoresOK, BeginDispensing, IfPresent, RaiseAndWake,
         Carried, InformationPresent, StateCarries, LabelCarries, CodesKnown,
         PayStates, PayLabels, PendingOrder, HasPurchase, HasCode, Forgetful
<1> QED
  BY <1>1, <1>2, <1>3 DEF IInv

\* Used codes keep their drinks.
LEMMA FinishDispensingIInv ==
    ASSUME IInv, FinishDispensing
    PROVE  IInv'
<1>1. FieldsOK'
  BY LabelsValues, StateValues DEF IInv, FieldsOK, FinishDispensing, MarkUsed
<1>2. StoresOK'
  <2>1. redeemed' \in [AuthCodes -> Nat]
    BY AddOne DEF IInv, StoresOK, FinishDispensing
  <2>2. codes' \in [AuthCodes -> CodeRecords]
    BY MarkingKeepsType DEF IInv, StoresOK, FinishDispensing, MarkUsed, CodeRecords
  <2> QED
    BY <2>1, <2>2 DEF IInv, StoresOK, FinishDispensing, CodeRecords
<1>3. TimerOK' /\ NetworkOK'
  BY DEF IInv, TimerOK, NetworkOK, FinishDispensing, MarkUsed
<1>4. Carried'
  <2>1. CodesKnown'
    BY DEF IInv, StoresOK, CodeRecords, FinishDispensing, MarkUsed, Usable, Carried,
           CodesKnown
  <2> QED
    BY <2>1
       DEF IInv, FinishDispensing, Carried, InformationPresent, StateCarries,
           LabelCarries, PayStates, PayLabels, Forgetful, HasPurchase, HasCode,
           PendingOrder
<1> QED
  BY <1>1, <1>2, <1>3, <1>4 DEF IInv

\* The answers go; the state is overwritten once the timer is armed.
LEMMA BeginBroadcastIInv ==
    ASSUME IInv, BeginBroadcast
    PROVE  IInv'
<1>1. FieldsOK'
  BY LabelsValues, StateValues DEF IInv, FieldsOK, BeginBroadcast
<1>2. TimerOK' /\ StoresOK' /\ NetworkOK'
  BY DEF IInv, TimerOK, StoresOK, NetworkOK, BeginBroadcast
<1>3. Carried'
  BY DEF IInv, FieldsOK, StoresOK, BeginBroadcast, Carried, InformationPresent,
         StateCarries, LabelCarries, CodesKnown, PayStates, PayLabels, PendingOrder,
         HasPurchase, HasCode, Forgetful
<1> QED
  BY <1>1, <1>2, <1>3 DEF IInv

\* Sending changes the network only.
LEMMA SendStockRequestIInv ==
    ASSUME IInv, SendStockRequest
    PROVE  IInv'
<1>1. FieldsOK'
  BY LabelsValues, StateValues DEF IInv, FieldsOK, SendStockRequest
<1>2. NetworkOK'
  BY DEF IInv, NetworkOK, SendStockRequest
<1>3. TimerOK' /\ StoresOK'
  BY DEF IInv, TimerOK, StoresOK, SendStockRequest
<1>4. Carried'
  BY DEF IInv, FieldsOK, StoresOK, SendStockRequest, Carried, InformationPresent,
         StateCarries, LabelCarries, CodesKnown, PayStates, PayLabels, PendingOrder,
         HasPurchase, HasCode, Forgetful
<1> QED
  BY <1>1, <1>2, <1>3, <1>4 DEF IInv

\* Arming changes the timer only.
LEMMA ArmTimerIInv ==
    ASSUME IInv, ArmTimer
    PROVE  IInv'
<1>1. FieldsOK'
  BY LabelsValues, StateValues DEF IInv, FieldsOK, ArmTimer, StartResponseTimer
<1>2. TimerOK'
  BY DEF IInv, TimerOK, ArmTimer, StartResponseTimer, WaitStates
<1>3. StoresOK' /\ NetworkOK'
  BY DEF IInv, StoresOK, NetworkOK, ArmTimer, StartResponseTimer
<1>4. Carried'
  BY DEF IInv, FieldsOK, StoresOK, ArmTimer, StartResponseTimer, Carried,
         InformationPresent, StateCarries, LabelCarries, CodesKnown, PayStates,
         PayLabels, PendingOrder, HasPurchase, HasCode, Forgetful
<1> QED
  BY <1>1, <1>2, <1>3, <1>4 DEF IInv

\* Waking up leaves the state as it was found.
LEMMA WakeUpIInv ==
    ASSUME IInv, WakeUp
    PROVE  IInv'
<1>1. FieldsOK'
  BY LabelsValues, StateValues DEF IInv, FieldsOK, WakeUp
<1>2. TimerOK' /\ StoresOK' /\ NetworkOK'
  BY DEF IInv, TimerOK, StoresOK, NetworkOK, WakeUp
<1>3. Carried'
  BY DEF IInv, FieldsOK, StoresOK, WakeUp, Carried, InformationPresent,
         StateCarries, LabelCarries, CodesKnown, PayStates, PayLabels, PendingOrder,
         HasPurchase, HasCode, Forgetful
<1> QED
  BY <1>1, <1>2, <1>3 DEF IInv

\* The thread that hangs carries nothing.
LEMMA GiveUpWaitingIInv ==
    ASSUME IInv, GiveUpWaiting
    PROVE  IInv'
<1>1. FieldsOK'
  BY LabelsValues, StateValues DEF IInv, FieldsOK, GiveUpWaiting
<1>2. TimerOK' /\ StoresOK' /\ NetworkOK'
  BY DEF IInv, TimerOK, StoresOK, NetworkOK, GiveUpWaiting
<1>3. Carried'
  BY DEF IInv, FieldsOK, StoresOK, GiveUpWaiting, Carried, InformationPresent,
         StateCarries, LabelCarries, CodesKnown, PayStates, PayLabels, PendingOrder,
         HasPurchase, HasCode, Forgetful
<1> QED
  BY <1>1, <1>2, <1>3 DEF IInv

\* The target is one of the machines that answered.
LEMMA BeginOptionsIInv ==
    ASSUME IInv, BeginOptions
    PROVE  IInv'
<1>1. FieldsOK'
  BY LabelsValues, StateValues DEF IInv, FieldsOK, BeginOptions, RaiseAndWake
<1>2. TimerOK' /\ StoresOK' /\ NetworkOK'
  BY DEF IInv, TimerOK, StoresOK, NetworkOK, BeginOptions, RaiseAndWake
<1>3. Carried'
  BY ConstantsAssumption
     DEF IInv, FieldsOK, StoresOK, BeginOptions, RaiseAndWake, Carried,
         InformationPresent, StateCarries, LabelCarries, CodesKnown, PayStates,
         PayLabels, PendingOrder, HasPurchase, HasCode, Forgetful, Orders
<1> QED
  BY <1>1, <1>2, <1>3 DEF IInv

\* A new order is pending, with the target chosen before.
LEMMA ConfirmPrepaymentIInv ==
    ASSUME IInv, ConfirmPrepayment
    PROVE  IInv'
<1>1. FieldsOK'
  <2>1. pendingDrinkSelection \in Drinks
    BY DEF IInv, FieldsOK, Carried, InformationPresent, ConfirmPrepayment
  <2>2. currentActiveOrder' \in Orders \cup {NoOrder}
    BY <2>1 DEF IInv, FieldsOK, ConfirmPrepayment, CreateOrder, Orders
  <2> QED
    BY <2>1, <2>2, LabelsValues, StateValues DEF IInv, FieldsOK, ConfirmPrepayment
<1>2. NetworkOK'
  BY DEF IInv, NetworkOK, ConfirmPrepayment, CreateOrder
<1>3. TimerOK' /\ StoresOK'
  BY DEF IInv, TimerOK, StoresOK, ConfirmPrepayment, CreateOrder
<1>4. Carried'
  BY OrderAssumption
     DEF IInv, FieldsOK, StoresOK, ConfirmPrepayment, CreateOrder, Carried,
         InformationPresent, StateCarries, LabelCarries, CodesKnown, PayStates,
         PayLabels, PendingOrder, HasPurchase, HasCode, Forgetful, Orders
<1> QED
  BY <1>1, <1>2, <1>3, <1>4 DEF IInv

\* The information is never missing.
LEMMA BeginIssuingIInv ==
    ASSUME IInv, BeginIssuing
    PROVE  IInv'
<1>1. FieldsOK'
  BY LabelsValues, StateValues DEF IInv, FieldsOK, BeginIssuing, RaiseAndWake
<1>2. TimerOK' /\ StoresOK' /\ NetworkOK'
  BY DEF IInv, TimerOK, StoresOK, NetworkOK, BeginIssuing, RaiseAndWake
<1>3. Carried'
  BY DEF IInv, FieldsOK, StoresOK, BeginIssuing, RaiseAndWake, Carried,
         InformationPresent, StateCarries, LabelCarries, CodesKnown, PayStates,
         PayLabels, PendingOrder, HasPurchase, HasCode, Forgetful
<1> QED
  BY <1>1, <1>2, <1>3 DEF IInv

\* What is sent, and held, is about the order and the target in hand.
LEMMA SendPrepaymentRequestIInv ==
    ASSUME IInv, SendPrepaymentRequest
    PROVE  IInv'
<1>1. FieldsOK'
  BY LabelsValues, StateValues DEF IInv, FieldsOK, SendPrepaymentRequest
<1>2. NetworkOK'
  <2>1. /\ selectedTargetVm \in Peers /\ currentActiveOrder \in Orders
        /\ currentActiveOrder.certCode \in AuthCodes
    BY OrderAssumption
       DEF IInv, FieldsOK, SendPrepaymentRequest, Carried, InformationPresent,
           HasPurchase, HasCode, Orders
  <2>2. held' \in SUBSET (Peers \X AuthCodes)
    BY <2>1 DEF IInv, NetworkOK, SendPrepaymentRequest
  <2>3. \A ok \in BOOLEAN :
          [src |-> selectedTargetVm, drink |-> currentActiveOrder.drink,
           certCode |-> currentActiveOrder.certCode, availability |-> ok]
             \in [src : Peers, drink : Drinks \cup {UnknownDrink},
                  certCode : AuthCodes, availability : BOOLEAN]
    BY <2>1 DEF Orders
  <2>4. prepayReplies' \in SUBSET [src : Peers, drink : Drinks \cup {UnknownDrink},
                                   certCode : AuthCodes, availability : BOOLEAN]
    BY <2>3 DEF IInv, NetworkOK, SendPrepaymentRequest
  <2> QED
    BY <2>2, <2>4 DEF IInv, NetworkOK, SendPrepaymentRequest
<1>3. TimerOK' /\ StoresOK'
  BY DEF IInv, TimerOK, StoresOK, SendPrepaymentRequest
<1>4. Carried'
  BY DEF IInv, FieldsOK, StoresOK, SendPrepaymentRequest, Carried,
         InformationPresent, StateCarries, LabelCarries, CodesKnown, PayStates,
         PayLabels, PendingOrder, HasPurchase, HasCode, Forgetful
<1> QED
  BY <1>1, <1>2, <1>3, <1>4 DEF IInv

\* The information is never missing.
LEMMA ShowAuthCodeIInv ==
    ASSUME IInv, ShowAuthCode
    PROVE  IInv'
<1>1. FieldsOK'
  BY LabelsValues, StateValues
     DEF IInv, FieldsOK, ShowAuthCode, IfPresent, RaiseAndWake
<1>2. TimerOK' /\ StoresOK' /\ NetworkOK'
  BY DEF IInv, TimerOK, StoresOK, NetworkOK, ShowAuthCode, IfPresent, RaiseAndWake
<1>3. Carried'
  BY DEF IInv, FieldsOK, StoresOK, ShowAuthCode, IfPresent, RaiseAndWake, Carried,
         InformationPresent, StateCarries, LabelCarries, CodesKnown, PayStates,
         PayLabels, PendingOrder, HasPurchase, HasCode, Forgetful
<1> QED
  BY <1>1, <1>2, <1>3 DEF IInv

\* HANDLING_ERROR needs no data.
LEMMA TakeErrorIInv ==
    ASSUME IInv, TakeError
    PROVE  IInv'
<1>1. FieldsOK'
  BY LabelsValues, StateValues DEF IInv, FieldsOK, TakeError
<1>2. TimerOK' /\ StoresOK' /\ NetworkOK'
  BY DEF IInv, TimerOK, StoresOK, NetworkOK, TakeError
<1>3. Carried'
  BY DEF IInv, FieldsOK, StoresOK, TakeError, Carried, InformationPresent,
         StateCarries, LabelCarries, CodesKnown, PayStates, PayLabels, PendingOrder,
         HasPurchase, HasCode, Forgetful
<1> QED
  BY <1>1, <1>2, <1>3 DEF IInv

\* The states behind the menu need no data.
LEMMA ChooseMenuIInv ==
    ASSUME IInv, ChooseMenu
    PROVE  IInv'
<1>1. FieldsOK'
  BY LabelsValues, StateValues DEF IInv, FieldsOK, ChooseMenu
<1>2. NetworkOK'
  BY ConstantsAssumption DEF IInv, NetworkOK, ChooseMenu
<1>3. TimerOK' /\ StoresOK'
  BY DEF IInv, TimerOK, StoresOK, ChooseMenu
<1>4. Carried'
  BY DEF IInv, FieldsOK, StoresOK, ChooseMenu, Carried, InformationPresent,
         StateCarries, LabelCarries, CodesKnown, PayStates, PayLabels, PendingOrder,
         HasPurchase, HasCode, Forgetful
<1> QED
  BY <1>1, <1>2, <1>3, <1>4 DEF IInv

\* Selecting a drink takes no data away.
LEMMA SelectDrinkIInv ==
    ASSUME IInv, SelectDrink
    PROVE  IInv'
<1>1. FieldsOK'
  BY LabelsValues, StateValues DEF IInv, FieldsOK, SelectDrink
<1>2. TimerOK' /\ StoresOK' /\ NetworkOK'
  BY DEF IInv, TimerOK, StoresOK, NetworkOK, SelectDrink
<1>3. Carried'
  BY ConstantsAssumption
     DEF IInv, FieldsOK, StoresOK, SelectDrink, Carried, InformationPresent,
         StateCarries, LabelCarries, CodesKnown, PayStates, PayLabels, PendingOrder,
         HasPurchase, HasCode, Forgetful, Orders
<1> QED
  BY <1>1, <1>2, <1>3 DEF IInv

\* A stored code is for a drink of the menu, so the order it makes is complete.
LEMMA EnterAuthCodeIInv ==
    ASSUME IInv, EnterAuthCode
    PROVE  IInv'
<1>1. FieldsOK'
  <2>1. \A c \in AuthCodes : Usable(c) => codes[c].drink \in Drinks
    BY DEF IInv, Carried, CodesKnown, Usable
  <2>2. currentActiveOrder' \in Orders \cup {NoOrder}
    BY <2>1 DEF IInv, FieldsOK, EnterAuthCode, Orders
  <2>3. /\ pendingDrinkSelection' \in Drinks \cup {NoDrink}
        /\ isCurrentOrderPrepayment' \in BOOLEAN
    BY <2>1 DEF IInv, FieldsOK, EnterAuthCode
  <2>4. /\ pc' \in Labels /\ currentState' \in ControllerState
        /\ lastErrorInfo' \in BOOLEAN /\ selectedTargetVm' \in Peers \cup {NoPeer}
    BY LabelsValues, StateValues DEF IInv, FieldsOK, EnterAuthCode
  <2> QED
    BY <2>2, <2>3, <2>4 DEF IInv, FieldsOK, EnterAuthCode
<1>2. TimerOK' /\ StoresOK' /\ NetworkOK'
  BY DEF IInv, TimerOK, StoresOK, NetworkOK, EnterAuthCode, Usable
<1>3. Carried'
  BY OrderAssumption, ConstantsAssumption
     DEF IInv, FieldsOK, StoresOK, EnterAuthCode, Usable, Carried,
         InformationPresent, StateCarries, LabelCarries, CodesKnown, PayStates,
         PayLabels, PendingOrder, HasPurchase, HasCode, Forgetful, Orders
<1> QED
  BY <1>1, <1>2, <1>3 DEF IInv

\* Expiry moves the timer to the queue.
LEMMA ExpireTimerIInv ==
    ASSUME IInv, ExpireTimer
    PROVE  IInv'
<1>1. TimerOK'
  BY DEF IInv, TimerOK, ExpireTimer
<1>2. FieldsOK' /\ StoresOK' /\ NetworkOK'
  BY DEF IInv, FieldsOK, StoresOK, NetworkOK, ExpireTimer
<1>3. Carried'
  BY DEF IInv, FieldsOK, StoresOK, ExpireTimer, Carried, InformationPresent,
         StateCarries, LabelCarries, CodesKnown, PayStates, PayLabels, PendingOrder,
         HasPurchase, HasCode, Forgetful
<1> QED
  BY <1>1, <1>2, <1>3 DEF IInv

\* HANDLING_ERROR, which a malformed request leads to, needs no data.
LEMMA OnReqStockReceivedIInv ==
    ASSUME IInv, OnReqStockReceived
    PROVE  IInv'
<1>1. FieldsOK'
  BY LabelsValues, StateValues
     DEF IInv, FieldsOK, OnReqStockReceived, Unasked, RaiseAndWake
<1>2. NetworkOK'
  BY ConstantsAssumption
     DEF IInv, NetworkOK, OnReqStockReceived, Unasked, RaiseAndWake
<1>3. TimerOK' /\ StoresOK'
  BY DEF IInv, TimerOK, StoresOK, OnReqStockReceived, Unasked, RaiseAndWake
<1>4. Carried'
  BY DEF IInv, FieldsOK, StoresOK, OnReqStockReceived, Unasked, RaiseAndWake,
         Carried, InformationPresent, StateCarries, LabelCarries, CodesKnown,
         PayStates, PayLabels, PendingOrder, HasPurchase, HasCode, Forgetful
<1> QED
  BY <1>1, <1>2, <1>3, <1>4 DEF IInv

\* Likewise for a malformed answer,
LEMMA OnMalformedRespStockIInv ==
    ASSUME IInv, OnMalformedRespStock
    PROVE  IInv'
<1>1. FieldsOK'
  BY LabelsValues, StateValues
     DEF IInv, FieldsOK, OnMalformedRespStock, Unasked, RaiseAndWake
<1>2. NetworkOK'
  BY ConstantsAssumption
     DEF IInv, NetworkOK, OnMalformedRespStock, Unasked, RaiseAndWake
<1>3. TimerOK' /\ StoresOK'
  BY DEF IInv, TimerOK, StoresOK, OnMalformedRespStock, Unasked, RaiseAndWake
<1>4. Carried'
  BY DEF IInv, FieldsOK, StoresOK, OnMalformedRespStock, Unasked, RaiseAndWake,
         Carried, InformationPresent, StateCarries, LabelCarries, CodesKnown,
         PayStates, PayLabels, PendingOrder, HasPurchase, HasCode, Forgetful
<1> QED
  BY <1>1, <1>2, <1>3, <1>4 DEF IInv

\* a malformed REQ_PREPAY,
LEMMA OnMalformedReqPrepayIInv ==
    ASSUME IInv, OnMalformedReqPrepay
    PROVE  IInv'
<1>1. FieldsOK'
  BY LabelsValues, StateValues
     DEF IInv, FieldsOK, OnMalformedReqPrepay, Unasked, RaiseAndWake
<1>2. NetworkOK'
  BY ConstantsAssumption
     DEF IInv, NetworkOK, OnMalformedReqPrepay, Unasked, RaiseAndWake
<1>3. TimerOK' /\ StoresOK'
  BY DEF IInv, TimerOK, StoresOK, OnMalformedReqPrepay, Unasked, RaiseAndWake
<1>4. Carried'
  BY DEF IInv, FieldsOK, StoresOK, OnMalformedReqPrepay, Unasked, RaiseAndWake,
         Carried, InformationPresent, StateCarries, LabelCarries, CodesKnown,
         PayStates, PayLabels, PendingOrder, HasPurchase, HasCode, Forgetful
<1> QED
  BY <1>1, <1>2, <1>3, <1>4 DEF IInv

\* and a malformed RESP_PREPAY.
LEMMA OnMalformedRespPrepayIInv ==
    ASSUME IInv, OnMalformedRespPrepay
    PROVE  IInv'
<1>1. FieldsOK'
  BY LabelsValues, StateValues
     DEF IInv, FieldsOK, OnMalformedRespPrepay, Unasked, AcceptPrepayAnswer
<1>2. TimerOK'
  BY DEF IInv, TimerOK, OnMalformedRespPrepay, Unasked, AcceptPrepayAnswer
<1>3. NetworkOK'
  BY ConstantsAssumption
     DEF IInv, NetworkOK, OnMalformedRespPrepay, Unasked, AcceptPrepayAnswer
<1>4. StoresOK'
  BY DEF IInv, StoresOK, OnMalformedRespPrepay, Unasked, AcceptPrepayAnswer
<1>5. Carried'
  BY DEF IInv, FieldsOK, StoresOK, OnMalformedRespPrepay, Unasked,
         AcceptPrepayAnswer, Carried, InformationPresent, StateCarries,
         LabelCarries, CodesKnown, PayStates, PayLabels, PendingOrder, HasPurchase,
         HasCode, Forgetful
<1> QED
  BY <1>1, <1>2, <1>3, <1>4, <1>5 DEF IInv

\* The options are shown only if a machine has answered; a drink was broadcast.
LEMMA HandleTimeoutIInv ==
    ASSUME IInv, NEW w \in WaitStates, HandleTimeout(w)
    PROVE  IInv'
<1>1. FieldsOK'
  BY LabelsValues, StateValues DEF IInv, FieldsOK, HandleTimeout, RaiseAndWake
<1>2. TimerOK'
  BY DEF IInv, TimerOK, HandleTimeout, RaiseAndWake
<1>3. StoresOK' /\ NetworkOK'
  BY DEF IInv, StoresOK, NetworkOK, HandleTimeout, RaiseAndWake
<1>4. Carried'
  BY DEF IInv, FieldsOK, StoresOK, HandleTimeout, RaiseAndWake, Carried,
         InformationPresent, StateCarries, LabelCarries, CodesKnown, PayStates,
         PayLabels, PendingOrder, HasPurchase, HasCode, Forgetful
<1> QED
  BY <1>1, <1>2, <1>3, <1>4 DEF IInv

\* An answer counts only for the drink in hand, so there is one, and leaves a machine
\* to choose.
LEMMA OnRespStockReceivedIInv ==
    ASSUME IInv, NEW p \in Peers, NEW d \in Drinks, OnRespStockReceived(p, d)
    PROVE  IInv'
<1>1. FieldsOK'
  BY LabelsValues, StateValues DEF IInv, FieldsOK, OnRespStockReceived, Counts
<1>2. TimerOK'
  BY DEF IInv, TimerOK, OnRespStockReceived, Counts
<1>3. NetworkOK'
  BY DEF IInv, NetworkOK, OnRespStockReceived, Counts
<1>4. StoresOK'
  BY DEF IInv, StoresOK, OnRespStockReceived, Counts
<1>5. Carried'
  <2>1. availableOtherVms # {} => availableOtherVms' # {}
    BY DEF OnRespStockReceived
  <2>2. \/ UNCHANGED currentState
        \/ /\ currentState' = "DISPLAYING_OTHER_VM_OPTIONS"
           /\ pendingDrinkSelection # NoDrink /\ availableOtherVms' # {}
    BY ConstantsAssumption DEF OnRespStockReceived, Counts
  <2> QED
    BY <2>1, <2>2
       DEF IInv, OnRespStockReceived, Carried, InformationPresent, StateCarries,
           LabelCarries, CodesKnown, PayStates, PayLabels, Forgetful, HasPurchase,
           HasCode, PendingOrder
<1> QED
  BY <1>1, <1>2, <1>3, <1>4, <1>5 DEF IInv

\* Only a drink in stock, hence of the menu, gets a code.
LEMMA OnReqPrepayReceivedIInv ==
    ASSUME IInv, NEW d \in Drinks \cup {UnknownDrink}, NEW c \in AuthCodes,
           NEW n \in ItemNums, OnReqPrepayReceived(d, c, n)
    PROVE  IInv'
<1>1. StoresOK'
  <2>1. n \in Nat /\ stock \in [Drinks -> 0..99]
    BY ConstantsAssumption DEF IInv, StoresOK
  <2>2. stock' \in [Drinks -> 0..99]
    <3>1. CASE stock' = stock
      BY <2>1, <3>1
    <3>2. CASE d \in Drinks /\ stock[d] >= n /\ stock' = [stock EXCEPT ![d] = @ - n]
      <4>1. n \in 0..stock[d]
        BY <2>1, <3>2
      <4> QED
        BY <4>1, <2>1, <3>2, TakeItems
    <3> QED
      BY <3>1, <3>2 DEF OnReqPrepayReceived, DecreaseStock
  <2>3. reserved' \in [Drinks -> Nat] /\ granted' \in [AuthCodes -> Nat]
    BY <2>1 DEF IInv, StoresOK, OnReqPrepayReceived
  <2>4. codes' \in [AuthCodes -> CodeRecords]
    BY DEF IInv, StoresOK, OnReqPrepayReceived, CodeRecords
  <2> QED
    BY <2>2, <2>3, <2>4 DEF IInv, StoresOK, OnReqPrepayReceived, CodeRecords
<1>2. NetworkOK'
  BY ConstantsAssumption
     DEF IInv, NetworkOK, OnReqPrepayReceived, Unasked, CanReserve, StockOf,
         DecreaseStock
<1>3. FieldsOK' /\ TimerOK'
  BY DEF IInv, FieldsOK, TimerOK, OnReqPrepayReceived, Unasked, CanReserve,
         StockOf, DecreaseStock
<1>4. Carried'
  BY ConstantsAssumption
     DEF IInv, FieldsOK, StoresOK, OnReqPrepayReceived, Unasked, CanReserve, StockOf,
         DecreaseStock, Carried, InformationPresent, StateCarries, LabelCarries,
         CodesKnown, PayStates, PayLabels, PendingOrder, HasPurchase, HasCode,
         Forgetful, Orders
<1> QED
  BY <1>1, <1>2, <1>3, <1>4 DEF IInv

\* DISPLAYING_AUTH_CODE_INFO follows on ISSUING_AUTH_CODE and needs the same.
LEMMA OnRespPrepayReceivedIInv ==
    ASSUME IInv, NEW r \in prepayReplies, OnRespPrepayReceived(r)
    PROVE  IInv'
<1>1. FieldsOK'
  BY LabelsValues, StateValues
     DEF IInv, FieldsOK, OnRespPrepayReceived, AcceptPrepayAnswer
<1>2. TimerOK'
  BY DEF IInv, TimerOK, OnRespPrepayReceived, AcceptPrepayAnswer
<1>3. NetworkOK'
  BY DEF IInv, NetworkOK, OnRespPrepayReceived, AcceptPrepayAnswer
<1>4. StoresOK'
  BY DEF IInv, StoresOK, OnRespPrepayReceived, AcceptPrepayAnswer
<1>5. Carried'
  BY DEF IInv, FieldsOK, StoresOK, OnRespPrepayReceived, AcceptPrepayAnswer,
         Carried, InformationPresent, StateCarries, LabelCarries, CodesKnown,
         PayStates, PayLabels, PendingOrder, HasPurchase, HasCode, Forgetful
<1> QED
  BY <1>1, <1>2, <1>3, <1>4, <1>5 DEF IInv

\* A step that changes nothing keeps the invariant.
LEMMA StutterIInv ==
    ASSUME IInv, UNCHANGED vars
    PROVE  IInv'
<1>1. FieldsOK' /\ TimerOK' /\ StoresOK' /\ NetworkOK'
  BY DEF IInv, FieldsOK, TimerOK, StoresOK, NetworkOK, vars
<1>2. Carried'
  BY DEF IInv, vars, Carried, InformationPresent, StateCarries, LabelCarries,
         CodesKnown, PayStates, PayLabels, PendingOrder, HasPurchase, HasCode,
         Forgetful
<1> QED
  BY <1>1, <1>2 DEF IInv

\* Every step of either thread keeps the invariant.
LEMMA NextIInv ==
    ASSUME IInv, [Next]_vars
    PROVE  IInv'
<1>1. CASE MainInternal
  BY <1>1, InitializeIInv, RunLoopIInv, ChangeStateIInv, ResetTransactionIInv,
     CheckStockIInv, CommitSelectionIInv, BeginPaymentIInv, ConfirmPaymentIInv,
     ApproveLocalIInv, ApprovePrepaymentIInv, DeclinePaymentIInv,
     BeginDispensingIInv, FinishDispensingIInv, BeginBroadcastIInv,
     SendStockRequestIInv, ArmTimerIInv, WakeUpIInv, GiveUpWaitingIInv,
     BeginOptionsIInv, ConfirmPrepaymentIInv, BeginIssuingIInv,
     SendPrepaymentRequestIInv, ShowAuthCodeIInv, TakeErrorIInv
     DEF MainInternal
<1>2. CASE Customer
  BY <1>2, ChooseMenuIInv, SelectDrinkIInv, EnterAuthCodeIInv DEF Customer
<1>3. CASE Timer
  BY <1>3, ExpireTimerIInv, HandleTimeoutIInv DEF Timer
<1>4. CASE Messages
  BY <1>4, OnReqStockReceivedIInv, OnRespStockReceivedIInv,
     OnMalformedRespStockIInv, OnReqPrepayReceivedIInv, OnMalformedReqPrepayIInv,
     OnRespPrepayReceivedIInv, OnMalformedRespPrepayIInv
     DEF Messages
<1>5. CASE Stopped \/ UNCHANGED vars
  BY <1>5, StutterIInv DEF Stopped
<1> QED
  BY <1>1, <1>2, <1>3, <1>4, <1>5 DEF Next

\* Whatever the threads do and in whatever order, TypeOK and Carried hold together.
THEOREM Invariance == Spec => []IInv
<1>1. Init => IInv
  BY InitIInv
<1>2. IInv /\ [Next]_vars => IInv'
  BY NextIInv
<1> QED
  BY <1>1, <1>2, PTL DEF Spec

\* The fields of the controller, its stores and the network keep their types,
\* for every number of machines, drinks, codes and items.
THEOREM TypeCorrect == Spec => []TypeOK
<1>1. IInv => TypeOK
  BY TypeParts DEF IInv
<1> QED
  BY <1>1, Invariance, PTL

\* No section of the main thread runs without the data it is about.
THEOREM InformationIsPresent == Spec => []InformationPresent
<1>1. IInv => InformationPresent
  BY DEF IInv, Carried
<1> QED
  BY <1>1, Invariance, PTL

\* No stored code makes the redemption lock mtx_ twice.
THEOREM NoSelfLockInRedemption == Spec => []RedemptionNeverLocksTwice
<1>1. IInv => RedemptionNeverLocksTwice
  BY DEF IInv, Carried, CodesKnown, RedemptionNeverLocksTwice
<1> QED
  BY <1>1, Invariance, PTL
=============================================================================
