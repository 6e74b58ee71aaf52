# Verification of the vending machine controller

This directory holds the TLA+ specifications of the vending machine program in
`src/` (a distributed vending machine: each process is one machine that sells its
own drinks, asks the other machines over TCP for drinks it has sold out, and hands
out drinks that were prepaid elsewhere), the configurations that model-check them
with TLC, and proofs that TLAPS checks. Paths below are relative to the root of the
repository, where the program's own sources are `src/src/` and `src/include/`.

## 1. The system

### 1.1 Components

| component | source | state | operations |
|---|---|---|---|
| controller | `src/src/service/UserProcessController.cpp` | `currentState_`, the optional fields of the transaction in hand (`currentActiveOrder_`, `pendingDrinkSelection_`, `selectedTargetVmForPrepayment_`, `isCurrentOrderPrepayment_`, `availableOtherVmsForDrink_`), `last_error_info_`, the flag `cv_data_ready_`, one `response_timer_` | `run` / `processCurrentState`, twelve `state_...` functions, four message handlers, two time-out handlers |
| order service and repository | `OrderService.cpp`, `OrderRepository.cpp` | a vector of order records | create, approve, decline, save |
| prepayment service and code repository | `PrepaymentService.cpp`, `prepayCodeRepository.cpp`, `prepaymentCode.h` | a map from authentication codes to records that are ACTIVE or USED | generate, record an incoming reservation, look up if ACTIVE, mark USED |
| inventory service and repository | `InventoryService.cpp`, `inventoryRepository.cpp`, `inventory.h` | a map from drink codes to 0..99 items | look up, decrease by one or more |
| message service and transport | `MessageService.cpp`, `MessageSender.cpp`, `MessageReceiver.cpp`, `MessageSerializer.cpp` | endpoints; one handler per message type | broadcast, unicast, accept, read, dispatch |
| reservation protocol | the handlers of all machines together | a drink set aside at one machine, a paid order and a code at another | REQ_STOCK / RESP_STOCK, REQ_PREPAY / RESP_PREPAY |
| console prompts | `UserInterface.cpp` | stdin; per timed prompt a thread, a mutex, a condition variable | menu, drink, yes/no with a time-out, code |
| distance service | `DistanceService.cpp` | none | nearest machine with stock, ties by number |
| error service | `ErrorService.cpp` | none | error kind to text and level |
| drink catalogue, address list | `DrinkRepository.cpp`, `OvmAddressRepository.cpp` | constant tables | look up |
| payment simulator | `PaymentCallbackReceiver.hpp` | none | approve or refuse after a delay |
| program start and end | `main.cpp` | initial stock, addresses, the io thread | set up, join |

`PROJECT.json` repeats the list with the status of each.

### 1.2 How they interact

A process has two threads. The *main thread* executes `UserProcessController::run`:
it reads `currentState_`, runs the state's function, which blocks on the console and
calls the services, and starts over. The *io thread* executes the message handlers
(`on...Received`, posted by `initializeSystemAndRegisterMessageHandlers`) and the
handler of the response timer. They share the controller's fields, under the one
mutex `mtx_`, and the repositories, which have no mutex of their own: a handler
reads and writes them with `mtx_` held, the main thread partly without. In
`AWAITING_STOCK_RESPONSES` and `ISSUING_AUTH_CODE_AND_REQUESTING_RESERVATION` the
main thread waits on `cv_` for `cv_data_ready_`.

Machines talk through one-way messages on fresh TCP connections. `MessageService`
swallows whatever goes wrong with sending. Nothing is retried or acknowledged.

### 1.3 What is hard

* The handlers write `currentState_` whatever the main thread is doing, and the main
  thread overwrites it without looking (`changeState`). Which state runs next, and
  whether the data it needs is there, depends on the order of sections of both.
* Data is checked in one section and used in a later one (stock, order, code).
* Answers carry neither a transaction nor a code, and can be late; a time-out handler
  already queued when the timer is cancelled still runs.
* The wait states combine a condition variable, a timer and a flag that handlers set
  in other states as well; the code after a `wait_for` that gives up locks a mutex
  that is held.
* Requests and answers get lost after the customer has paid.
* Two prompts read the console in a thread of their own and race a time-out; one of
  them leaves the thread behind, with references to locals that are gone.
* The repositories identify an order by a code that is drawn at random, at several
  machines, and that most orders do not have.

Each of these is a row of `hazards` in `PROJECT.json`, at the line where it bites and
with the properties that would catch it.

### 1.4 What makes each component correct

* controller: a state never runs without its data; a paid customer is served; waits
  end; errors are shown; the request is sent once; shutdown works.
* orders and inventory: items sold or set aside are items that were there.
* codes: a reservation is redeemed at most once, and only by its code.
* protocol: a paid code is held at the target, and a held drink was paid.
* prompts: every prompt comes back; input goes to the prompt it was meant for.
* distance: the nearest machine with stock, the lowest number among equals.
* transport: each reachable machine gets each message once.

## 2. Modules

| module | content |
|---|---|
| `UserProcessController` | one machine: the controller of both threads with the services it calls; the other machines and the customer as its environment; properties |
| `MCUserProcessController` | values of the constants for TLC |
| `UserProcessControllerProofs` | the inductive invariant: types, and what states and sections carry |
| `UserProcessControllerSafety` | the safety invariants, each from a strengthening relative to the first one |
| `UserProcessControllerProgress` | what the waits, a paid local sale and the halt request never run into: the safety halves of the liveness properties |
| `Repositories` | the records of orders and codes of one machine, driven by the order and the prepayment service |
| `CodeLifeCycle` | abstract: a code is granted, then used once; implemented by `Repositories` |
| `MCRepositories` | symmetries for TLC |
| `RepositoriesProofs` | its invariant, its action property, and the refinement |
| `ConfirmPrompt` | the prompts, the threads that read the console for them, and their time-outs |
| `ConfirmPromptProofs` | its types, what a prompt leaves behind when it comes back, where a Y can be, and who waits for whom |
| `StockInquiry` | the search for a machine that has the drink: broadcast, receivers, machines that stop and start, choice of the nearest |
| `InquiryExchange` | abstract: a machine is asked once at most, answers once at most, and is heard once at most; implemented by `StockInquiry` |
| `MCStockInquiry` | a table of two machines for TLC |
| `StockInquiryProofs` | its inductive invariant, its safety properties, and the refinement |
| `ReservationProtocol` | several machines that sell, reserve at each other and redeem |
| `ReservationLedger` | abstract: where the items of each machine are; implemented by `ReservationProtocol` |
| `MCReservationProtocol` | three machines for TLC |
| `ReservationProtocolProofs` | its inductive invariant and safety properties |
| `ReservationAccounts` | every item is accounted for, and the refinement |

### 2.1 `UserProcessController`

**Granularity.** A section of code under `mtx_` that does not wait is one action: the
other thread can neither see nor disturb it half done. What a section does without
the mutex and the other thread can observe is an action of its own (`CheckStock`,
`SendStockRequest`, `ArmTimer`, `SendPrepaymentRequest`, `FinishDispensing`). `pc` is
the section the main thread runs next:

| `pc` | code |
|---|---|
| `init`, `init_ready` | `run` before the loop |
| `run` | `run`'s loop head and the `switch` of `processCurrentState`, which read the state one after the other: a handler that writes between the two reads has the effect of writing before the first, because only the main thread writes `SYSTEM_HALTED_REQUEST` |
| `menu_...`, `completed_...` | the main menu and the return to it |
| `select`, `select_...` | `state_awaitingDrinkSelection`: input, check of the stock, commitment |
| `pay_...` | confirmation, and approval or refusal, of the payment |
| `dispense_...` | `state_dispensingDrink`: presence check, the drink is out and the code marked, change of state |
| `bcast_...` | `state_broadcastingStockRequest`: reset, send, start of the timer, change of state |
| `await_stock` | the wait for stock answers |
| `options_...` | `state_displayingOtherVmOptions` |
| `issue_...` | the prepayment request: reset, send, start of the timer, wait |
| `show_...`, `code_input`, `error_...` | the remaining state functions |
| `await_self_lock`, `issue_self_lock`, `redeem_self_lock` | the main thread locks `mtx_` while it holds it |
| `prompt_self_lock` | `confirmPayment` locks its own mutex while it holds it; `mtx_` is free, so handlers go on |
| `exited` | the loop has ended, the io context is stopped |

Locking a `std::mutex` twice is undefined; with the libraries the program is built
with the thread waits for itself, and this is what the model does.

**Shared state.** The variables have the names of the fields without the trailing
underscore; `selectedTargetVm` and `lastErrorInfo` are shortened. `lastErrorInfo` is
whether an error is stored: no level or kind changes what happens next.
`availableOtherVms` is the set of the machines in the list, which the code keeps free
of duplicates. `ISSUING_AUTH_CODE` is
`ISSUING_AUTH_CODE_AND_REQUESTING_RESERVATION`.

**The timer.** `responseTimer` is the state the pending wait watches (`StartResponseTimer`
replaces it, as `expires_after` cancels the wait before); `ExpireTimer` queues the
handler, which from then on cannot be cancelled; `HandleTimeout(w)` runs it in whatever
state the controller is then. Durations are left out: an expiry is possible as soon as
the timer runs. Two facts about them are kept. `wait_for` of the main thread starts
after the timer was started and lasts at least as long, so it gives up only when the
timer is no longer armed (`GiveUpWaiting`). And the constant `Timely` says that no
thread falls behind by seconds: a queued handler runs before the wait gives up, and
the main thread reaches its wait before the timer expires. The theorems are with and
without it. `controller_codes` and `controller_liveness` have `Timely = FALSE`, which has
more behaviours; the others have `Timely = TRUE`: the findings, because a slow thread
could explain them, and `controller_races`, because `StockWaitHangsOnlyIfAllAnswered`
supposes it.

**The network.** `stockReplies` counts RESP_STOCK messages in flight by sender and
drink, `prepayReplies` is the set of RESP_PREPAY messages in flight with, as a history,
the code of the request they answer, which the message does not carry. A request
reaches any subset of the machines; an answer is taken after any time, in any order,
or never (there is no fairness on messages), so loss and delay need no action.
Equal RESP_PREPAY messages are one element of the set: two with the same code come
from one request. `held` is what other machines set aside. What other machines send
unasked is REQ_STOCK (a well-formed one changes nothing at its receiver),
REQ_PREPAY with any drink, code and number, and malformed messages of each kind when
`Malformed` says so; `MaxIncoming` bounds them.

**The stores.** `DecreaseStock` leaves the stock alone if it does not suffice and
tells nobody, as `InventoryService::decreaseStock` drops the result. A code record is
its status and drink; saving replaces it. Of the order repository only what the
inventory must match is kept, the number of approved local sales (`localSales`).
`reserved`, `granted`, `redeemed`, `requestSent` and `held` are history variables: no
guard reads them.

**Which code can be issued.** `generateAuthCodeString` draws five characters at random and
does not look whether they are in use; `ApprovePrepayment` takes any code, so also one
used before, and `OnReqPrepayReceived` any code a machine may have drawn. A code that
the customer's own machine issues is not stored there, as in the code.

### 2.2 Bounds

`MaxTransactions` (how often the customer picks 1 or 2 in the main menu) and
`MaxIncoming` (unasked messages) bound the otherwise unbounded runs, as guards of
`ChooseMenu` and `Unasked`; nothing else is cut off. Exit from the menu is always possible,
so no run deadlocks: a program that has ended or hangs takes `Stopped`.

### 2.3 `Repositories` and `CodeLifeCycle`

`UserProcessController` keeps of the stores what the controller decides by. This module keeps
what is stored: `orders` is the vector of `OrderRepository`, `codes` the map of
`PrepayCodeRepository` (a code that is not a key is `ABSENT`). Of the controller there is the
order in hand (`current`) and the code being redeemed (`redeeming`): the calls come in the
order the controller makes them, an order is settled at most once and only while it is in
hand, a code is redeemed when no order is. Everything else of the controller is left open, so any
number of reservations of other machines may come in between. `Save` is
`OrderRepository::save`: it replaces the first record that has the order's code, if the order
has one. Both codes that this machine draws (`ApprovePrepayment`) and codes that arrive
(`RecordIncomingPrepayment`) are arbitrary, so that they may coincide; a code that is
redeemed may be replaced before it is marked. `MaxSaves` bounds the records (`RoomToSave`).

What the module makes plain and its properties do not forbid: settling an order adds a
record and the PENDING one stays, although `OrderService.cpp:52` speaks of an update;
`updateStatus` marks an ACTIVE code and falls through to `return false`
(`prepayCodeRepository.cpp:42`), so that each redemption that worked is reported as an
error; and the code of a prepayment is stored at the target only, where the test of UC05
(`src/tests/UC05.cpp:116`) looks for it where it was issued.

`CodeLifeCycle` is what the header of `PrepayCodeRepository` promises: `Grant` (save), `Use`
(ACTIVE to USED, never otherwise). The refinement forgets all but the status of each code.

### 2.4 `ConfirmPrompt`

`calls` is the sequence of the prompts shown so far, in an order the controller produces
(`MayFollow`): besides the ways of a sale, the menu may follow every prompt, by way of the
error screen, and the prepayment prompt every prompt after which a drink is in hand, by way
of a late RESP_STOCK (`UserProcessController.cpp:726`). Each has the locals of its call (`mtx`, `ready`, `userInput`), what its reader
does (`reader`: reading, has read, has stored, has ended; at the prompts without a time-out the
reader is the main thread) and its `result`. `main` is what the main thread does.

The locked section of the input thread is one action, as are taking the lock and looking at
`ready` in `wait_for`; reading, storing, ending, waking, joining and giving up are steps that
interleave. A wake-up without notification finds the same predicate, so `notify_one` changes
nothing but the time. `timed_out` of `confirmPayment` is not a field: the only assignment
comes after the second lock, where the thread hangs (`main = "hung"`).

*Lines.* A line is empty, `Y`, or `entry`, one character that a prompt without a time-out takes;
several readers of `std::cin` compete for each line, and one may get the character and
another the end of it (`ReadLine`), so a reader can hold `other`: characters of two lines.
A menu entry that goes to the thread of an expired prepayment prompt is swallowed; the
run `prompts` contains it, and no property forbids it.

*Undefined behaviour.* After its time-out `confirmPrepayment` detaches its thread and returns;
the thread then locks and writes locals that are gone. It is modelled by the outcomes the
build can produce: nothing is seen of it, the program crashes (`StoreNowhere`), or the
locals belong to the same prompt again, which the controller calls from the same place
(`StoreElsewhere`). What else a write to dead stack memory may spoil is out of reach. With
`StoreElsewhere` the thread left behind can answer the prepayment prompt of a later sale,
and block it: it sets `ready`, and the main thread, holding `mtx`, joins the thread that
needs it. `AnsweredPromptReturns` therefore speaks of runs where no thread was left behind.

*Bounds.* `MaxCalls` prompts and `MaxLines` lines. Six prompts show the prepayment prompt,
expired, then the menu, the drink and the prompt again, and five lines answer all but the
expired one, while the thread left behind takes any of them. Where a late answer leads from
the expired prompt straight to the next one, lines are left for that thread as well.

### 2.5 `StockInquiry`

What `UserProcessController` takes for granted of an inquiry, that any subset of the machines
gets the request, is the subject here. The modules divide the work: the races of one
machine's two threads are there, sender, receivers and the choice of a target here, and
the main thread of `Me` is coarser (it arms the timer and begins to wait in one step).

*Sender.* `nextEndpoint` is the position of the loop of `MessageSender::send` in the table of
`main.cpp`; `SendToNext` is one turn. A machine that is not `up` makes `connect` throw; the
loop is over and `sendStockRequestBroadcast` swallows the exception, so the wait begins as if
all had been asked.

*Receiver.* A connection is in `connections` until the acceptor takes it (`Accept`, which arms the
acceptor again, `accepting`), and in `sockets` until its line is read. Each connection
carries one line, as `sendOne` writes one. Lines of different connections are read in any
order. Reading and the handler are one step: `onMessageReceived` posts the handler, and posting
keeps the order of the reads.

*Other machines* stop (what they have received is gone), start (with their initial stock) and
sell the last item of a drink, at any time. `steady` are those that have run since the
inquiry began: a machine that restarts in between may rightly have been missed.

*The handler against the main thread.* `WriteOptions` is the one race kept: a RESP_STOCK that
completes the list while a state function runs either finds its state still there or is
overwritten by it. Which of the two is possible in which state is taken from
`UserProcessController`.

*Nearest machine.* `Precedes` is the comparison of `findNearestAvailableVendingMachine`, with its
fall-back to text when an id has no number; squares of distances are compared, which
order as the distances do. `Front` is what `std::sort` may put first. With ids of both kinds the
comparison can be cyclic; then it is any of the nearest machines.

*What it implements.* `InquiryExchange` knows nothing of connections, threads or machines that
stop: for each inquiry and machine there is a stage, `open`, `asked`, `answered` or `over`.
`ExchangeOf` reads it off the network: an answer is under way, a request is, neither is and the
request was written, or neither is and it was not. `Ask` is a turn of the loop, `Answer` and
`Receive` are the two handlers, `Lose` is a machine that stops with requests it has not answered, or an
inquiry that begins and passes over whom the one before has not asked. Accepting a connection moves
nothing. A message that is sent twice, kept after it was read, or answered twice would go
back a stage, which `InquiryExchange` forbids. It permits the loss of a request at any time;
`NothingIsLost` says that only a machine that stops loses one.

### 2.6 `ReservationProtocol` and `ReservationLedger`

All machines run the same program: each sells its own drinks, reserves drinks elsewhere for
customers who have paid, sets aside drinks for others, and hands them out for codes. Handlers
and state functions are one action each: what the threads of one machine can
do to each other is in `UserProcessController`, and what is left of it between machines is kept
as actions of its own. `TimeOut` is a wait that ends for any reason, including a handler queued
by an earlier wait; `BackToOptions` is a late RESP_STOCK that completes the list and drops the
order in hand; a late RESP_PREPAY is an ordinary one. `HANDLING_ERROR` only leads back to the
menu and is merged with it.

Messages stay in `net` until they are handled: no fairness makes them arrive, so a lost
message is one that is never handled, and a late one is handled in a later transaction. Equal
messages cannot arise, because each carries, as a history, the purchase that caused it
(`purchase`); no guard reads it. `purchases`, `granted`, `redeemed`, `sold` and `settledBy` are
histories, too; `order` and `codes` hold the number of the purchase instead of the order's
fields, which are those of `purchases[order]`. A code that is drawn twice for one target is
recorded over the first one (`OnReqPrepayReceived`), whose item nobody can then fetch.

`ReservationLedger` knows only the items: in stock, set aside, given out. `SetAside` and `Sell`
need one in stock, `HandOver` one set aside. `SellShort` is the one deviation of the code, a local
sale after a reservation took the last item: it happens only when the accounts are even, so at
most once per machine and drink.

## 3. Runs

| run | instance | shows |
|---|---|---|
| `controller_races` | 2 other machines, one drink with 1 item and one sold out, 1 code, 2 transactions, 2 unasked messages, malformed ones too, timely | `TypeOK`; `InformationPresent`; `OversellsOnlyLastItem`; `AsksOncePerOrder`; `ErrorScreenHasError`; `PaidWaitHangsOnlyIfOvertaken`; `StockWaitHangsOnlyIfAllAnswered` |
| `controller_codes` | 1 other machine, 1 drink with 3 items, 2 codes, reservations of 1 or 2 items, 3 transactions, 3 unasked messages | `DispensesOnlyPaidOrders`; `NoDoubleRedemption`; `CodesHaveItems`; `RedemptionNeverLocksTwice` |
| `controller_liveness` | 1 other machine, 2 drinks, 2 transactions, 1 unasked message, fair | `PaidSaleIsOnCourse`; `HaltRequestStays`; `WaitStatesAreLeft`; `LocalSaleIsDelivered`; `HaltIsHonoured` |
| `controller_hang` | 1 other machine, a sold-out drink, no unasked message, timely | `WaitThatGivesUpGoesOn` violated |
| `controller_stale_answer` | 1 other machine, 2 codes, 2 transactions, timely | `ShownCodeIsHeld` violated |
| `controller_oversell` | 1 item, 1 incoming reservation, timely | `EachSaleTakesAnItem` violated |
| `stores` | 1 other machine, 2 drinks, 2 codes, 4 records | `TypeOK`; `OneRecordPerCode`; `CodesAreOnRecord`; `HistoryIsKept`; `FollowsLifeCycle` |
| `prompts` | 6 prompts, 5 lines, fair | `TypeOK`; `EachYesConfirmsOnce`; `AnswersLeaveNoThread`; `AnswersInTimeCount`; `JoinWaitsForNoLock`; `WaitsEnd`; `AnsweredPromptReturns` |
| `prompts_hang` | 6 prompts, 6 lines | `PaymentPromptReturns` violated |
| `inquiry` | 2 other machines, each at one of 2 distances, ids whose text orders the other way round, 2 drinks, 2 inquiries, 1 stop, start or last sale, fair | `TypeOK`; `UnaskedIsExcused`; `NearestIsOffered`; `EarlyEndHeardFromAll`; `NothingIsLost`; `SentIsHandled`; `FollowsExchange` |
| `inquiry_unreachable` | the same, without fairness | `RunningMachineIsAsked` violated |
| `reservation` | 3 machines, of which A and C buy elsewhere and C has 2 items; 1 drink, 2 codes, 3 prepayments | `TypeOK`; `RedemptionIsPaid`; `OnlyAbandonedAnswersMislead`; `ShownHasItsOwnItem`; `FollowsLedger` |

Why the bounds suffice for what the runs are after: every race is between the main
thread in one transaction and leftovers of the one before (a late answer, a queued
time-out handler, a stored error, a flag), so two transactions are needed and show it;
the list of other machines is incomplete, complete or overtaken by a time-out with two
of them; one item and one reservation are enough to compete for the last one, and three
items with reservations of one or two reach an exact, a partial and a failed decrement;
a code can be granted, redeemed, granted again and redeemed again within three
transactions and three messages. Of the inquiries, the second one can meet answers to the first, for another
drink or the same, and one stop or start is enough to break the broadcast, to lose a request or
an answer, or to let a machine come back with stock. Of the reservations, three
purchases are the chain that matters: the first is given up, its answer confirms the
second, and the second's answer the third; two codes are enough to draw one twice, and
two items to be sold, set aside and handed over in any order. The theorems of section 4
remove the bounds where they are listed.

Symmetry: other machines in `controller_races`, codes in `controller_codes` and `reservation`. They
are model values that the specification treats alike; the runs with liveness use none.

### 3.1 Fairness

`Fairness` is weak fairness of `MainInternal` (steps of the main thread that wait for
nobody but, at most, a prompt with a time-out), of `ExpireTimer` and of
`HandleTimeout(w)`: the operating system schedules both threads, a timer that runs
expires, the io context runs what is queued. A main thread that waits for the flag is
not enabled, and one that holds `mtx_` for ever disables the handlers (`MutexFree`).
`MainInternal` is one fair action although it contains choices: the main thread is one
thread. Nothing is assumed of customers at prompts without a time-out, of other
machines, or of messages. With malformed messages the two properties on paid sales and
on the halt request do not hold (the handler's `HANDLING_ERROR` replaces any state),
so the liveness run is with `Malformed = {FALSE}` and their names say "well-formed".

`WaitStatesAreLeft` has the self-locks of `controller_hang` as an outcome; it says that they
are the only way for a wait not to end.

`FairSpec` of `ConfirmPrompt` is weak fairness of the main thread's steps, which include
the end of the time, of the input threads, and of reading a line that has been typed. Nobody
has to type. `CHECK_DEADLOCK FALSE` there: the program waits for the console, hangs or has
crashed. In `Repositories` the return to the menu (`Forget`) is always possible.

`FairSpec` of `StockInquiry` is weak fairness of the main thread of `Me`, of the time-out, and of
the io thread of each machine: it accepts and reads again and again. Machines that
stop or start, and customers, are not fair; `StayAtMenu` is the customer who chooses nothing.

### 3.2 Findings

What the code does and its own comments deny; each is a violation run.

1. *A wait that gives up hangs the machine* (`controller_hang`). The code after
   `wait_for` locks `mtx_` again. No thread needs to be late: the last RESP_STOCK may be
   handled between the start of the timer and the change to `AWAITING_STOCK_RESPONSES`.
   If no thread is late, this is the only way for the wait for stock answers
   (`StockWaitHangsOnlyIfAllAnswered`). The wait of a paid prepayment has one more: an
   answer to an earlier request is handled after the loop has read the state and before the
   section that clears the flag (`UserProcessController.cpp:583`), so that the flag it raised
   is lost and the answer to the request finds another state
   (`PaidWaitHangsOnlyIfOvertaken`, which also allows a time-out still queued).
2. *A late RESP_PREPAY confirms the wrong code* (`controller_stale_answer`): answers
   name no code. `OnlyAbandonedAnswersMislead` bounds the damage.
3. *A local sale without an item* (`controller_oversell`): the stock is checked
   before the payment and taken after it. `OversellsOnlyLastItem` bounds the damage.
4. *The payment prompt hangs at its time-out* (`prompts_hang`): a second lock again.
5. *A broadcast reaches only the machines before the first that is down*
   (`inquiry_unreachable`). `UnaskedIsExcused` bounds the damage.

Three more behaviours are in the models without a run of their own, because no sentence of the
sources denies them plainly enough: an error that a handler stores is lost when
`changeState` overwrites `HANDLING_ERROR`; a late RESP_STOCK ends the wait of a paid prepayment,
whose answer is then ignored; the thread of an expired prepayment prompt takes a menu entry.

## 4. Proofs

All theorems are about `Spec` for every value of the constants that satisfies
`ConstantsAssumption` (finitely many other machines, at least one; stocks, and numbers
of items in a request, within 0..99, as `Inventory` and `onReqPrepayReceived`
enforce) and `OrderAssumption` (`NoOrder` is no order).

**`Invariance`**: `IInv` is inductive. `TypeOK` and `InformationPresent` are not: that
`pc = "pay_begin"` finds an order depends on what held when `currentState` was written,
perhaps by the io thread, perhaps long before. `StateCarries` adds, for each value of
`currentState`, the data that its function needs, *unless* the main thread is past the
last read of the state and about to overwrite it (`Forgetful`: there the fields are
being reset while a handler may write a state that nothing backs). `LabelCarries` adds
what a section leaves to the next ones, `CodesKnown` that only drinks of the menu
are ever reserved. The handlers keep `StateCarries` because `Counts` demands the drink
in hand before it changes the state, and the RESP_PREPAY handler demands the code. One
lemma per action; conclusions `TypeCorrect`, `InformationIsPresent`,
`NoSelfLockInRedemption`.

`UserProcessControllerSafety` proves the other invariants relative to `IInv`:

* `OversellingIsBounded` from `Accounts`: a local sale begins with an item in stock, which
  rules out that its drink has been oversold before (`OpenSalesBalanced`), and reservations
  only take what is there; so the one failed decrement finds the accounts balanced.
* `OneRequestPerOrder` from `AskingOnce`: after the request has been sent, the flag is
  set only together with a state other than `ISSUING_AUTH_CODE`, so the loop cannot
  come back to it with the same order.
* `ErrorIsShown` from `ErrorStored`: `HANDLING_ERROR` is never written without an error, and only the
  error screen takes it.
* `OnlyPaidIsDispensed` from `Delivery`: only the main thread makes a code USED, and a
  handler that replaces a code makes it ACTIVE.
* `NoReservationTwice`: from `DispensesOnlyPaidOrders`; redemption and marking are in
  one section.
* `CodesAreGood` proves `CodesHaveItems` from `CodesBacked` (of each drink at least as many items are
  set aside as there are codes for it: a request that is granted takes one item or more and
  adds one code or replaces one) and `OversellingIsBounded`. What the invariant does not say
  is that a code has all the items that were set aside for it: it has one, whatever
  `item_num` said.

`UserProcessControllerProgress` proves what liveness rests on, again relative to `IInv`. TLC shows
that waits end and paid sales are delivered on small instances; these theorems say, for all
instances, that nothing leads away from there:

* `StockWaitHangs` from `StockWait`: after the timer of an inquiry has been started, the wait has a
  timer that runs, or a handler in the queue, or the flag, or its state is no longer the one that
  waits, unless all machines had offered the drink before. A timely thread gives up only when
  the first two are gone.
* `PaidWaitHangs` from `PaidWait`: the same for the wait of a paid prepayment; what takes the
  state away after the request is sent raises the flag.
* `PaidSaleOnCourse` from `OnCourse`: a well-formed message that changes the state is an answer
  about the drink in hand, or finds the state of a wait. `LocalSaleUnasked` rules out the
  first: the other machines are asked only for drinks that are sold out here, stock never
  comes back, and a local sale starts with an item, so that no answer about its drink is under way.
* `HaltStays` from `Idle`: after the menu has reset the transaction no answer counts.

`RepositoriesProofs` proves, for every set of machines, drinks and codes and any number of
records (`RepositoriesAssumption`: this machine is not among the others, the empty code is no
code; `RecordAssumption`: `NoOrder` is no record):

* `Invariance`, an inductive invariant: types, `OneRecordPerCode`, `CodesAreOnRecord`, and that an
  order with a code is an approved one. The last part is what makes `CodesAreOnRecord`
  inductive: `save` may replace the record of an accepted code by this machine's own
  order with the same code, and that order is approved too.
* `HistoryStays`: `save` replaces only a record with the code of the new one, and both are approved.
* `ImplementsLifeCycle`: each step maps to `Grant`, `Use` or a stutter of `CodeLifeCycle`.

`ConfirmPromptProofs` proves `TypeCorrect`, `NoThreadIsLeft` and `NoAnswerIsLost`, for any
number of prompts and lines. The invariant adds that the prompt the main thread is in has no
result yet (`InsideAPrompt`): only then can a thread, its own or one left behind, store into it.
`SafeStep` names what a step must not do, and each action is shown to be one.
`NoYesCountsTwice` proves `EachYesConfirmsOnce` from `YesAccounts`: the Ys in lines that wait,
with readers, and stored are together at most the Ys typed, and a confirmation is a Y that is
stored. Lines are numbered as they were typed, so that reading one renumbers none; every
action is shown to move a Y, to drop it, or to leave it, never to copy it.
`NoDeadlockOfJoin` proves `JoinWaitsForNoLock`, the safety half of `AnsweredPromptReturns`, from
`ReadyMeansStored`: as long as no thread has been left behind, `ready` is set by the prompt's own thread
and by nothing else, which has then stored and released the lock. `CarefulStep` names what
a step must keep for that.

`ReservationProtocolProofs` and `ReservationAccounts` are about any machines, drinks, codes and
stocks (`ProtocolAssumption`). `Invariance` proves the inductive `Inv`: types; what each machine
has in hand (`MachineOK`: which phases have a drink, a target, an order, and that an order in a
waiting phase was bought by this machine, from this target, is its latest, and is not settled); what is on
its way (`NetOK`: at most one message per purchase; a request belongs to a purchase that is not granted,
a positive answer to a granted one, and neither has settled anything yet); what is recorded (`CodesOK`: a code to a purchase
that is granted, not redeemed, and was made with this code at this machine); and
that what is redeemed was granted. From it:

* `OnlyPaidIsRedeemed` and `ShownCodesHaveItems`. That no two shown codes rest on one item follows
  from `NetOK`: an answer leaves the network when it settles a purchase, and another answer
  that names the same purchase never existed.
* `OnlyLateAnswersMislead`: an answer to `g` that settles a later `p` finds `g` given up, because
  the order in hand is the machine's latest, or settled by the answer to another purchase, and
  then an earlier one was given up by the invariant itself.
* `AccountsBalance`: of each drink of each machine, stock, items set aside and items given out
  add up to the initial stock, but for at most one short sale (`Balanced`).
* `ImplementsLedger`: each step maps to a step of `ReservationLedger` or a stutter; the numbers
  of items set aside and handed over are cardinalities of sets of purchases.

`StockInquiryProofs` is about any table without repetitions, any coordinates and any number of
inquiries, stops and starts (`InquiryAssumption`). Its invariant `Inv` has, besides the types: messages are
under way only to machines they are for (`Addressed`), an inquiry has a drink (`InHand`),
`Covered`, `HeardIsListed`, and that a message exists once (`OneEach`: nothing is written to a machine that
the loop has still to reach, and request and answer of an inquiry are not under way at the same time).
From it:

* `OnlyFailuresHideMachines` from `Covered`: `UnaskedIsExcused` for the part of the table behind the
  loop. When the loop breaks off, the machine it stands at is down, therefore not steady, and
  everything after it is excused.
* `EarlyEndIsComplete` from `HeardIsListed`: as many machines were heard of as the list is
  long, so a list as long as the table leaves no machine out.
* `NearestGetsTheOffer` assumes that ids have numbers, which all of `main.cpp`'s table have. Then
  `Precedes` is transitive, and in a finite set the least of the sets "machines before `m`"
  belongs to a machine that none precedes (`SomeoneIsFirst`), so `Front` never falls back.
* `NothingGetsLost` proves `NothingIsLost`, the safety half of `SentIsHandled`: `Flows` says of each
  action which messages it takes from the network and which it brings.
* `ImplementsExchange`: each step maps to a step of `InquiryExchange` or a stutter. `StagesOf` says
  the stage of each inquiry and machine is, and one lemma per action which stages it moves; `OneEach` is
  what makes a turn of the loop an `Ask`, a read request an `Answer`, and a read answer a `Receive`.
* `NothingComesAgain`, from the refinement: once a request is lost or its answer handled, no message
  of that inquiry is under way with that machine again.

Only model-checked are the liveness properties, because the prover handles neither fairness nor
`ENABLED`: `WaitStatesAreLeft`, `LocalSaleIsDelivered`, `HaltIsHonoured`, `WaitsEnd`,
`AnsweredPromptReturns` and `SentIsHandled`; and the violated properties, where a
counterexample is the point. Every invariant of the passing runs is proved.

## 5. Not modelled

* Text, layout and sleeps; levels of errors (none the program produces stops it).
* In `UserProcessController`, the contents of outgoing answers: they matter at the receiver,
  where the environment sends any. `StockInquiry` and `ReservationProtocol` have them.
* The JSON text of messages, and lines that are not a message.
* The data race on `response_timer_`, which the main thread starts without `mtx_` while
  handlers cancel it: start and cancel are atomic here, in either order. A cancel that misses the
  wait being started is the order cancel before start; that the race may spoil the timer in
  other ways is left out. The same holds for the repositories where the main thread uses
  them without `mtx_`.
* Exceptions that cannot occur in the program (empty catalogue, failing repositories).
* An input stream at its end (the prompts without a time-out then loop).
* `OrderRepository::updateStatus` and `findOrderByCertCode`, which nothing but tests calls.
* `OvmAddressRepository`, which nothing in the program uses, and the command line.

## 6. Plan

Done, in the order of importance:

1. `UserProcessController` with its proofs, safety first, then what its progress rests on.
2. `Repositories` and `CodeLifeCycle` with their proofs.
3. `ConfirmPrompt` with its proofs.
4. `ReservationProtocol` and `ReservationLedger` with their proofs. They replace the environment
   assumptions of section 2.1 (what peers hold, which codes they send) by what machines do.
5. `StockInquiry`: the broadcast, the receivers, and the nearest machine, with its proofs and the
   refinement of `InquiryExchange`.

What is left is listed in section 5. Larger than the rest would be the end of the console's
input in `ConfirmPrompt` and the functions of `OrderRepository` that only tests call.
