---------------------------- MODULE StockInquiry ----------------------------
(***************************************************************************)
(* The search for a machine that has a sold-out drink: the machine Me      *)
(* sends REQ_STOCK to every other machine, one TCP connection after the    *)
(* other (MessageSender), their receivers accept, read, and post a handler *)
(* (MessageReceiver, MessageService), the answers come back the same way,  *)
(* and the nearest machine that has the drink is offered (DistanceService).*)
(* The other machines may be down, and may sell their last item meanwhile. *)
(* The main thread of Me is coarser here than in UserProcessController: it *)
(* starts the timer and begins to wait in one step.                        *)
(***************************************************************************)
EXTENDS Integers, Sequences, FiniteSets

CONSTANTS
    Me,             \* the machine that asks
    Table,          \* the other machines, in the order of main's table
    Drinks,
    NoDrink,
    NoMachine,
    MyLocation,     \* coordinates of Me
    Locations,      \* coordinates other machines may be started with
    IdNumber,       \* what follows the T of its id, or NoNumber
    IdText,         \* the rank of its id as a string
    NoNumber,
    InitialDrinks,  \* of which drinks it has an item when it starts
    MaxInquiries,   \* bound on the number of inquiries
    MaxEvents       \* bound on stops, starts and last sales of the others

Others == {Table[i] : i \in DOMAIN Table}
Machines == Others \cup {Me}

ASSUME InquiryAssumption ==
    /\ Table \in Seq(Others)
    /\ \A i, j \in DOMAIN Table : Table[i] = Table[j] => i = j
    /\ Me \notin Others
    /\ NoMachine \notin Machines
    /\ NoDrink \notin Drinks
    /\ MyLocation \in Int \X Int
    /\ Locations \subseteq Int \X Int
    /\ IdNumber \in [Others -> Int \cup {NoNumber}]
    /\ IdText \in [Others -> Int]
    /\ NoNumber \notin Int
    /\ InitialDrinks \in [Others -> SUBSET Drinks]
    /\ MaxInquiries \in Nat
    /\ MaxEvents \in Nat

VARIABLES
    location,       \* where the other machines are; they tell it in RESP_STOCK
    up,             \* the other machines whose program runs
    inStock,        \* the drinks another machine has an item of
    connections,    \* established, not yet accepted, in order; one message each
    sockets,        \* accepted connections that wait for their line
    accepting,      \* machines whose acceptor waits for a connection
    state,          \* currentState_ of Me
    pendingDrink,   \* pendingDrinkSelection_
    nextEndpoint,   \* position of the broadcast loop in endpoints_
    availableOtherVms,
    timerArmed,
    target,         \* selectedTargetVmForPrepayment_
    inquiry,        \* history: how many inquiries have begun
    asked,          \* history: machines the present request was written to
    steady,         \* history: machines that have run since the inquiry began
    heard,          \* history: machines whose offer of the drink was handled
    events          \* history: stops, starts and last sales so far

network == <<connections, sockets, accepting>>
controller == <<state, pendingDrink, availableOtherVms, timerArmed, target>>
history == <<inquiry, asked, heard>>
others == <<location, up, inStock, steady, events>>
vars == <<others, network, controller, nextEndpoint, history>>

-----------------------------------------------------------------------------
(* DistanceService *)

\* Squares of distances order as the distances do.
Distance(m) ==
    LET dx == MyLocation[1] - location[m][1]
        dy == MyLocation[2] - location[m][2]
    IN  dx * dx + dy * dy

Parses(m) == IdNumber[m] # NoNumber

\* Mutant of Precedes: ids are compared as text.
PrecedesByText(a, b) ==
    Distance(a) < Distance(b) \/ (Distance(a) = Distance(b) /\ IdText[a] < IdText[b])

\* The comparison of findNearestAvailableVendingMachine: by distance, then by
\* the number in the id; by the id's text if one of the two has no number.
Precedes(a, b) ==
    \/ Distance(a) < Distance(b)
    \/ /\ Distance(a) = Distance(b)
       /\ \/ Parses(a) /\ Parses(b) /\ IdNumber[a] < IdNumber[b]
          \/ ~(Parses(a) /\ Parses(b)) /\ IdText[a] < IdText[b]

\* The machines that may come first after std::sort. Ids of both kinds can make
\* the comparison cyclic; then it is any of the nearest ones.
Front(S) ==
    LET first == {m \in S : \A n \in S : ~Precedes(n, m)}
    IN  IF first # {} THEN first
        ELSE {m \in S : \A n \in S : Distance(m) <= Distance(n)}

-----------------------------------------------------------------------------
(* Sender and receiver *)

Request(d) == [type |-> "REQ_STOCK", src |-> Me, drink |-> d, inquiry |-> inquiry]

\* item_num is the stock; the model tells apart whether there is any.
Response(m, q) == [type |-> "RESP_STOCK", src |-> m, drink |-> q.drink,
                   hasStock |-> q.drink \in inStock[m], inquiry |-> q.inquiry]

\* sendOne to a machine that runs: connect and write succeed.
Connect(m, msg) == connections' = [connections EXCEPT ![m] = Append(@, msg)]

\* Mutant of Accept: doAccept is not called again.
AcceptOnce(m) ==
    /\ m \in accepting
    /\ connections[m] # <<>>
    /\ sockets' = [sockets EXCEPT ![m] = @ \cup {Head(connections[m])}]
    /\ connections' = [connections EXCEPT ![m] = Tail(@)]
    /\ accepting' = accepting \ {m}
    /\ UNCHANGED <<controller, nextEndpoint, history, others>>

\* doAccept: the connection is read from, and the acceptor waits again.
Accept(m) ==
    /\ m \in accepting
    /\ connections[m] # <<>>
    /\ sockets' = [sockets EXCEPT ![m] = @ \cup {Head(connections[m])}]
    /\ connections' = [connections EXCEPT ![m] = Tail(@)]
    /\ UNCHANGED <<accepting, controller, nextEndpoint, history,
                   others>>

\* doRead: one of the lines that have come is read, its connection has no other.
\* onMessageReceived posts the handler of its type; posting keeps the order of
\* the reads, so that reading and handling are one step here.
Read(m, msg) ==
    /\ msg \in sockets[m]
    /\ sockets' = [sockets EXCEPT ![m] = @ \ {msg}]

\* Mutant of OnReqStockReceived: a machine that has none of the drink is silent.
AnswerIfInStock(m, q) ==
    /\ IF q.drink \in inStock[m] THEN Connect(Me, Response(m, q))
       ELSE UNCHANGED connections
    /\ UNCHANGED <<accepting, controller, nextEndpoint, history, others>>

\* Another machine answers with its stock. Me runs.
OnReqStockReceived(m, q) ==
    /\ Connect(Me, Response(m, q))
    /\ UNCHANGED <<accepting, controller, nextEndpoint, history, others>>

Listed(m) == \E i \in DOMAIN availableOtherVms : availableOtherVms[i] = m

\* Mutant of Counts: alreadyReceived is not looked at.
CountsAgain(msg) == msg.drink = pendingDrink /\ msg.hasStock

\* Whether an answer adds its sender to the list.
Counts(msg) == msg.drink = pendingDrink /\ msg.hasStock /\ ~Listed(msg.src)

\* The next state function is the options'. A state function that has begun
\* writes its own next state over it: always the broadcast, never the wait.
WriteOptions ==
    \/ /\ state # "BROADCASTING_STOCK_REQUEST"
       /\ state' = "DISPLAYING_OTHER_VM_OPTIONS"
       /\ target' = NoMachine
    \/ /\ state # "AWAITING_STOCK_RESPONSES"
       /\ UNCHANGED <<state, target>>

\* An offer of the pending drink by a new machine goes to the list; when the
\* list is as long as the table, the timer is cancelled and a wait is over.
OnRespStockReceived(msg) ==
    /\ LET complete == Len(availableOtherVms) + 1 >= Len(Table)
       IN  IF Counts(msg)
           THEN /\ availableOtherVms' = Append(availableOtherVms, msg.src)
                /\ timerArmed' = (timerArmed /\ ~complete)
                /\ IF complete THEN WriteOptions ELSE UNCHANGED <<state, target>>
           ELSE UNCHANGED <<availableOtherVms, timerArmed, state, target>>
    /\ heard' = IF msg.drink = pendingDrink /\ msg.hasStock
                THEN heard \cup {msg.src} ELSE heard
    /\ UNCHANGED <<connections, accepting, others, pendingDrink, nextEndpoint,
                   inquiry, asked>>

Handle(m, msg) ==
    /\ Read(m, msg)
    /\ \/ msg.type = "REQ_STOCK" /\ OnReqStockReceived(m, msg)
       \/ msg.type = "RESP_STOCK" /\ OnRespStockReceived(msg)

IoThread(m) == Accept(m) \/ \E msg \in sockets[m] : Handle(m, msg)

-----------------------------------------------------------------------------
(* The main thread of Me *)

\* Mutant of BeginInquiry: the loop begins at the second endpoint.
BeginAtSecond(d) ==
    /\ state = "DISPLAYING_MAIN_MENU"
    /\ inquiry < MaxInquiries
    /\ state' = "BROADCASTING_STOCK_REQUEST"
    /\ pendingDrink' = d
    /\ availableOtherVms' = <<>>
    /\ nextEndpoint' = 2
    /\ inquiry' = inquiry + 1
    /\ asked' = {}
    /\ heard' = {}
    /\ steady' = up
    /\ UNCHANGED <<location, up, inStock, events, network, timerArmed, target>>

\* The menu resets the transaction; a drink is selected that is sold out here,
\* and state_broadcastingStockRequest begins.
BeginInquiry(d) ==
    /\ state = "DISPLAYING_MAIN_MENU"
    /\ inquiry < MaxInquiries
    /\ state' = "BROADCASTING_STOCK_REQUEST"
    /\ pendingDrink' = d
    /\ availableOtherVms' = <<>>
    /\ nextEndpoint' = 1
    /\ inquiry' = inquiry + 1
    /\ asked' = {}
    /\ heard' = {}
    /\ steady' = up
    /\ UNCHANGED <<location, up, inStock, events, network, timerArmed, target>>

\* Mutant of SendToNext: a failed turn goes on counting behind the end.
SendPastEnd ==
    /\ state = "BROADCASTING_STOCK_REQUEST"
    /\ nextEndpoint <= Len(Table)
    /\ LET m == Table[nextEndpoint]
       IN  IF m \in up
           THEN /\ Connect(m, Request(pendingDrink))
                /\ nextEndpoint' = nextEndpoint + 1
                /\ asked' = asked \cup {m}
           ELSE /\ nextEndpoint' = Len(Table) + 2
                /\ UNCHANGED <<connections, asked>>
    /\ UNCHANGED <<others, sockets, accepting, controller, inquiry, heard>>

\* Mutant of SendToNext: after a machine that is down the broadcast starts over.
SendAllAgain ==
    /\ state = "BROADCASTING_STOCK_REQUEST"
    /\ nextEndpoint <= Len(Table)
    /\ LET m == Table[nextEndpoint]
       IN  IF m \in up
           THEN /\ Connect(m, Request(pendingDrink))
                /\ nextEndpoint' = nextEndpoint + 1
                /\ asked' = asked \cup {m}
           ELSE /\ nextEndpoint' = 1
                /\ UNCHANGED <<connections, asked>>
    /\ UNCHANGED <<others, sockets, accepting, controller, inquiry, heard>>

\* One turn of the loop in MessageSender::send. A machine that is down makes
\* connect throw, and sendStockRequestBroadcast swallows the exception.
SendToNext ==
    /\ state = "BROADCASTING_STOCK_REQUEST"
    /\ nextEndpoint <= Len(Table)
    /\ LET m == Table[nextEndpoint]
       IN  IF m \in up
           THEN /\ Connect(m, Request(pendingDrink))
                /\ nextEndpoint' = nextEndpoint + 1
                /\ asked' = asked \cup {m}
           ELSE /\ nextEndpoint' = Len(Table) + 1
                /\ UNCHANGED <<connections, asked>>
    /\ UNCHANGED <<others, sockets, accepting, controller, inquiry, heard>>

AwaitResponses ==
    /\ state = "BROADCASTING_STOCK_REQUEST"
    /\ nextEndpoint > Len(Table)
    /\ timerArmed' = TRUE
    /\ state' = "AWAITING_STOCK_RESPONSES"
    /\ UNCHANGED <<others, network, nextEndpoint, pendingDrink,
                   availableOtherVms, target, history>>

\* The time-out: with what has been offered, or with an error.
HandleTimeout ==
    /\ timerArmed
    /\ timerArmed' = FALSE
    /\ state' = IF state # "AWAITING_STOCK_RESPONSES" THEN state
                ELSE IF availableOtherVms = <<>> THEN "HANDLING_ERROR"
                ELSE "DISPLAYING_OTHER_VM_OPTIONS"
    /\ UNCHANGED <<others, network, nextEndpoint, pendingDrink,
                   availableOtherVms, target, history>>

\* state_displayingOtherVmOptions up to the question to the customer.
OfferNearest ==
    /\ state = "DISPLAYING_OTHER_VM_OPTIONS"
    /\ target = NoMachine
    /\ target' \in Front({availableOtherVms[i] : i \in DOMAIN availableOtherVms})
    /\ UNCHANGED <<others, network, nextEndpoint, state, pendingDrink,
                   availableOtherVms, timerArmed, history>>

\* The error is shown, or the offer answered and what follows done; the menu
\* resets the transaction.
ReturnToMenu ==
    /\ \/ state = "HANDLING_ERROR"
       \/ state = "DISPLAYING_OTHER_VM_OPTIONS" /\ target # NoMachine
    /\ state' = "DISPLAYING_MAIN_MENU"
    /\ pendingDrink' = NoDrink
    /\ availableOtherVms' = <<>>
    /\ target' = NoMachine
    /\ timerArmed' = FALSE
    /\ heard' = {}
    /\ UNCHANGED <<others, network, nextEndpoint, inquiry, asked>>

\* The customer need not choose anything.
StayAtMenu == state = "DISPLAYING_MAIN_MENU" /\ UNCHANGED vars

MainThread == SendToNext \/ AwaitResponses \/ OfferNearest

-----------------------------------------------------------------------------
(* The other machines *)

Event == events < MaxEvents /\ events' = events + 1

\* The program of another machine ends or dies: what it has received is gone.
Stop(m) ==
    /\ m \in up
    /\ up' = up \ {m}
    /\ steady' = steady \ {m}
    /\ connections' = [connections EXCEPT ![m] = <<>>]
    /\ sockets' = [sockets EXCEPT ![m] = {}]
    /\ accepting' = accepting \ {m}
    /\ UNCHANGED <<location, inStock, controller, nextEndpoint, history>>
    /\ Event

\* It is started: its stock is set up anew, and it receives.
Start(m) ==
    /\ m \in Others \ up
    /\ up' = up \cup {m}
    /\ inStock' = [inStock EXCEPT ![m] = InitialDrinks[m]]
    /\ accepting' = accepting \cup {m}
    /\ UNCHANGED <<location, connections, sockets, controller, nextEndpoint,
                   history, steady>>
    /\ Event

\* Its last item of a drink is sold.
SellLast(m, d) ==
    /\ m \in up
    /\ d \in inStock[m]
    /\ inStock' = [inStock EXCEPT ![m] = @ \ {d}]
    /\ UNCHANGED <<location, up, network, controller, nextEndpoint, history,
                   steady>>
    /\ Event

Init ==
    /\ location \in [Others -> Locations]
    /\ up \in SUBSET Others
    /\ inStock = InitialDrinks
    /\ connections = [m \in Machines |-> <<>>]
    /\ sockets = [m \in Machines |-> {}]
    /\ accepting = up \cup {Me}
    /\ state = "DISPLAYING_MAIN_MENU"
    /\ pendingDrink = NoDrink
    /\ nextEndpoint = 1
    /\ availableOtherVms = <<>>
    /\ timerArmed = FALSE
    /\ target = NoMachine
    /\ inquiry = 0
    /\ asked = {}
    /\ steady = {}
    /\ heard = {}
    /\ events = 0

Next ==
    \/ \E d \in Drinks : BeginInquiry(d)
    \/ MainThread
    \/ HandleTimeout
    \/ ReturnToMenu
    \/ StayAtMenu
    \/ \E m \in Machines : IoThread(m)
    \/ \E m \in Others : Stop(m) \/ Start(m)
    \/ \E m \in Others, d \in Drinks : SellLast(m, d)

Spec == Init /\ [][Next]_vars

\* Both threads of a machine that runs are scheduled; a timer expires.
Fairness ==
    /\ WF_vars(MainThread)
    /\ WF_vars(HandleTimeout)
    /\ \A m \in Machines : WF_vars(IoThread(m))

FairSpec == Spec /\ Fairness

-----------------------------------------------------------------------------
(* Properties *)

Messages ==
    [type : {"REQ_STOCK"}, src : {Me}, drink : Drinks, inquiry : 1..MaxInquiries]
    \cup [type : {"RESP_STOCK"}, src : Others, drink : Drinks,
          hasStock : BOOLEAN, inquiry : 1..MaxInquiries]

\* Types.
TypeOK ==
    /\ location \in [Others -> Locations]
    /\ up \subseteq Others
    /\ inStock \in [Others -> SUBSET Drinks]
    /\ connections \in [Machines -> Seq(Messages)]
    /\ sockets \in [Machines -> SUBSET Messages]
    /\ accepting \subseteq Machines
    /\ state \in {"DISPLAYING_MAIN_MENU", "BROADCASTING_STOCK_REQUEST",
                  "AWAITING_STOCK_RESPONSES", "DISPLAYING_OTHER_VM_OPTIONS",
                  "HANDLING_ERROR"}
    /\ pendingDrink \in Drinks \cup {NoDrink}
    /\ nextEndpoint \in 1..Len(Table) + 1
    /\ availableOtherVms \in Seq(Others)
    /\ timerArmed \in BOOLEAN
    /\ target \in Others \cup {NoMachine}
    /\ inquiry \in 0..MaxInquiries
    /\ asked \subseteq Others
    /\ steady \subseteq Others
    /\ heard \subseteq Others
    /\ events \in 0..MaxEvents

Sent == state \notin {"DISPLAYING_MAIN_MENU", "BROADCASTING_STOCK_REQUEST"}

\* A machine that has run throughout the inquiry gets the request unless one
\* before it in the table was down: the damage of the exception that ends the
\* broadcast loop (MessageSender.cpp:17) is limited to the rest of the table.
UnaskedIsExcused ==
    Sent => \A i \in DOMAIN Table :
                (\A j \in 1..i : Table[j] \in steady) => Table[i] \in asked

\* Every machine that has run throughout the inquiry gets the request. The code
\* breaks this: the loop ends at the first machine that is down.
RunningMachineIsAsked == Sent => steady \subseteq asked

\* The customer is sent to a machine that offered the drink in this wait, none
\* of those that did is nearer, and none as near has a lower number: nothing is
\* lost between the handler, the list, its copy and the sort.
NearestIsOffered ==
    [][\A t \in Others : (target # t /\ target' = t) =>
          /\ t \in heard
          /\ \A m \in heard :
                /\ Distance(t) <= Distance(m)
                /\ Distance(t) = Distance(m) /\ Parses(t) /\ Parses(m)
                      => IdNumber[t] <= IdNumber[m]]_vars

\* A wait that ends before its timer has offers of all other machines: neither a
\* machine that answers twice, to this inquiry and late to another one, nor a
\* sold-out one completes the list (UserProcessController.cpp:718-728).
EarlyEndHeardFromAll ==
    [][(/\ state = "AWAITING_STOCK_RESPONSES"
        /\ state' = "DISPLAYING_OTHER_VM_OPTIONS"
        /\ availableOtherVms # availableOtherVms') => heard' = Others]_vars

\* Whatever a machine has been sent is handled, unless the machine stops: again
\* and again no connection waits. The receiver accepts again after every
\* connection and serves all of them (MessageReceiver.cpp:23-53).
SentIsHandled ==
    []<>(\A m \in Machines : connections[m] = <<>> /\ sockets[m] = {})

-----------------------------------------------------------------------------
(* What sender and receiver implement *)

\* A message of inquiry k from n is queued or read from at m.
UnderWay(n, m, k) ==
    \/ \E msg \in sockets[m] : msg.src = n /\ msg.inquiry = k
    \/ \E i \in DOMAIN connections[m] :
          connections[m][i].src = n /\ connections[m][i].inquiry = k

\* A request leaves the network only with its answer, or with the machine that
\* stops; an answer only when it is handled, an offer of the drink in hand then
\* being on the list. Every request is answered, whatever the stock
\* (UserProcessController.cpp:694-699), and what comes in beside it is not disturbed.
NothingIsLost ==
    [][\A m \in Others, k \in 1..MaxInquiries :
          /\ UnderWay(Me, m, k) /\ m \in up' =>
                UnderWay(Me, m, k)' \/ UnderWay(m, Me, k)'
          /\ UnderWay(m, Me, k) =>
                \/ UnderWay(m, Me, k)'
                \/ \E msg \in sockets[Me] \ sockets'[Me] :
                      /\ msg.src = m /\ msg.inquiry = k
                      /\ msg.drink = pendingDrink /\ msg.hasStock
                            => Listed(m)']_vars

\* The request to m was written.
Begun(k, m) == k < inquiry \/ (k = inquiry /\ m \in asked)

Stage(k, m) ==
    IF UnderWay(m, Me, k) THEN "answered"
    ELSE IF UnderWay(Me, m, k) THEN "asked"
    ELSE IF Begun(k, m) THEN "over" ELSE "open"

ExchangeOf == [k \in 1..MaxInquiries |-> [m \in Others |-> Stage(k, m)]]

Exchange == INSTANCE InquiryExchange WITH
    Machines <- Others, Inquiries <- 1..MaxInquiries, exchange <- ExchangeOf

\* Each request and each answer is sent, delivered and handled at most once, across
\* two threads, a connection per message and machines that stop and start.
FollowsExchange == Exchange!Spec
=============================================================================
