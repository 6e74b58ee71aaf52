------------------------- MODULE StockInquiryProofs -------------------------
(***************************************************************************)
(* Proofs about StockInquiry, for any table of machines, any drinks and    *)
(* coordinates, and any number of inquiries, stops and starts.             *)
(***************************************************************************)
EXTENDS StockInquiry, FiniteSetTheorems, SequenceTheorems, TLAPS

\* What machine m can be sent: Me gets answers, the others get requests.
Inbox(m) == {msg \in Messages : msg.type = "REQ_STOCK" <=> m # Me}

\* What is under way to m is for m.
Addressed ==
    /\ \A m \in Machines : connections[m] \in Seq(Inbox(m))
    /\ \A m \in Machines : sockets[m] \subseteq Inbox(m)

\* An inquiry has a drink and a number; without one nothing is pending.
InHand ==
    IF state = "DISPLAYING_MAIN_MENU" THEN pendingDrink = NoDrink
    ELSE pendingDrink \in Drinks /\ inquiry \in 1..MaxInquiries

\* The part of the table behind the loop, and where the loop has ended.
Covered ==
    /\ steady \subseteq up
    /\ Sent => nextEndpoint = Len(Table) + 1
    /\ state # "DISPLAYING_MAIN_MENU" =>
          \A i \in DOMAIN Table : i < nextEndpoint =>
              ((\A j \in 1..i : Table[j] \in steady) => Table[i] \in asked)

\* The list has every machine that made an offer in this wait, once.
HeardIsListed ==
    /\ heard = {availableOtherVms[i] : i \in DOMAIN availableOtherVms}
    /\ Cardinality(heard) = Len(availableOtherVms)

\* The inductive invariant.
Inv == TypeOK /\ Addressed /\ InHand /\ Covered /\ HeardIsListed

-----------------------------------------------------------------------------
(* The table, and the comparison of machines *)

\* The table lists the other machines, so that there are no more of them.
LEMMA TableFacts ==
    /\ Len(Table) \in Nat /\ DOMAIN Table = 1..Len(Table)
    /\ \A i \in DOMAIN Table : Table[i] \in Others
    /\ IsFiniteSet(Others) /\ Cardinality(Others) <= Len(Table)
<1>1. Table \in Seq(Others)
  BY InquiryAssumption
<1>2. Len(Table) \in Nat /\ DOMAIN Table = 1..Len(Table) /\ Table \in [1..Len(Table) -> Others]
  BY <1>1
<1>3. Table \in Surjection(1..Len(Table), Others)
  BY <1>2 DEF Surjection, Others
<1>4. IsFiniteSet(1..Len(Table)) /\ Cardinality(1..Len(Table)) = Len(Table)
  BY <1>2, FS_Interval
<1>5. IsFiniteSet(Others) /\ Cardinality(Others) <= Len(Table)
  BY <1>3, <1>4, FS_Surjection
<1> QED
  BY <1>2, <1>5

\* Distances compare as integers.
LEMMA DistanceIsInt ==
    ASSUME TypeOK, NEW m \in Others PROVE Distance(m) \in Int
<1>1. location[m] \in Int \X Int /\ MyLocation \in Int \X Int
  BY InquiryAssumption DEF TypeOK
<1> DEFINE dx == MyLocation[1] - location[m][1]
           dy == MyLocation[2] - location[m][2]
<1>2. dx \in Int /\ dy \in Int
  BY <1>1
<1>3. Distance(m) = dx * dx + dy * dy
  BY DEF Distance
<1> HIDE DEF dx, dy
<1>4. dx * dx \in Int /\ dy * dy \in Int
  BY <1>2
<1> QED
  BY <1>3, <1>4

\* Machine t is as near as any in S, and has the lowest number among equals.
NearestIn(t, S) ==
    /\ t \in S
    /\ \A m \in S :
          /\ Distance(t) <= Distance(m)
          /\ Distance(t) = Distance(m) /\ Parses(t) /\ Parses(m)
                => IdNumber[t] <= IdNumber[m]

\* Numbered ids make the comparison a strict order.
LEMMA PrecedesIsOrder ==
    ASSUME TypeOK, \A m \in Others : Parses(m), NEW a \in Others, NEW b \in Others,
           NEW c \in Others
    PROVE  /\ ~Precedes(a, a)
           /\ Precedes(a, b) /\ Precedes(b, c) => Precedes(a, c)
           /\ ~Precedes(b, a) => /\ Distance(a) <= Distance(b)
                                 /\ Distance(a) = Distance(b) => IdNumber[a] <= IdNumber[b]
<1>1. /\ Distance(a) \in Int /\ Distance(b) \in Int /\ Distance(c) \in Int
  BY DistanceIsInt
<1>2. /\ IdNumber[a] \in Int /\ IdNumber[b] \in Int /\ IdNumber[c] \in Int
      /\ Parses(a) /\ Parses(b) /\ Parses(c)
  BY InquiryAssumption DEF Parses
<1> QED
  BY <1>1, <1>2 DEF Precedes

\* In a finite set of numbered machines one is preceded by none: of the sets of
\* those that precede a machine, one is least.
LEMMA SomeoneIsFirst ==
    ASSUME TypeOK, \A m \in Others : Parses(m), NEW S \in SUBSET Others, S # {}
    PROVE  \E t \in S : \A n \in S : ~Precedes(n, t)
<1> DEFINE Before(m) == {n \in S : Precedes(n, m)}
           T == {Before(m) : m \in S}
           R == StrictSubsetOrdering(S)
           F == FiniteSubsetsOf(S)
<1>1. IsFiniteSet(S)
  BY TableFacts, FS_Subset
<1>2. F = SUBSET S
  BY <1>1, FS_FiniteSubsetsOfFinite
<1>3. IsWellFoundedOn(R, F)
  BY FS_StrictSubsetOrderingWellFounded
<1>4. T \subseteq F /\ T # {}
  <2>1. \A m \in S : Before(m) \subseteq S
    OBVIOUS
  <2>2. PICK m \in S : TRUE
    OBVIOUS
  <2>3. Before(m) \in T
    BY <2>2
  <2> HIDE DEF F
  <2> QED
    BY <1>2, <2>1, <2>3
<1> HIDE DEF R, F
<1>5. PICK X \in T : \A Y \in T : ~(<<Y, X>> \in R)
  <2> HIDE DEF T
  <2> QED
    BY <1>3, <1>4, WFMin
<1>6. PICK t \in S : X = Before(t)
  BY <1>5
<1>7. ASSUME NEW n \in S, Precedes(n, t) PROVE FALSE
  <2>1. Before(n) \subseteq Before(t)
    BY <1>7, PrecedesIsOrder
  <2>2. n \in Before(t) /\ n \notin Before(n)
    BY <1>7, PrecedesIsOrder
  <2>3. <<Before(n), Before(t)>> \in R
    BY <2>1, <2>2 DEF R, StrictSubsetOrdering
  <2> QED
    BY <1>5, <1>6, <2>3
<1> QED
  BY <1>7

\* What std::sort puts first is nearest.
LEMMA FrontIsNearest ==
    ASSUME TypeOK, \A m \in Others : Parses(m), NEW S \in SUBSET Others, NEW t \in Front(S)
    PROVE  NearestIn(t, S)
<1>1. t \in S
  BY DEF Front
<1>2. \E u \in S : \A n \in S : ~Precedes(n, u)
  BY <1>1, SomeoneIsFirst
<1>3. \A n \in S : ~Precedes(n, t)
  BY <1>2 DEF Front
<1>4. ASSUME NEW m \in S
      PROVE  /\ Distance(t) <= Distance(m)
             /\ Distance(t) = Distance(m) => IdNumber[t] <= IdNumber[m]
  BY <1>1, <1>3, PrecedesIsOrder
<1> QED
  BY <1>1, <1>4 DEF NearestIn

-----------------------------------------------------------------------------
(* The network *)

\* A queue that is replaced at one machine.
LEMMA QueueReplaced ==
    ASSUME TypeOK, Addressed, NEW m \in Machines, NEW q \in Seq(Inbox(m)),
           connections' = [connections EXCEPT ![m] = q]
    PROVE  /\ connections' \in [Machines -> Seq(Messages)]
           /\ \A n \in Machines : connections'[n] \in Seq(Inbox(n))
<1>1. q \in Seq(Messages)
  BY DEF Inbox
<1> QED
  BY <1>1 DEF TypeOK, Addressed

\* The sockets of one machine are replaced.
LEMMA SocketsReplaced ==
    ASSUME TypeOK, Addressed, NEW m \in Machines, NEW S \in SUBSET Inbox(m),
           sockets' = [sockets EXCEPT ![m] = S]
    PROVE  /\ sockets' \in [Machines -> SUBSET Messages]
           /\ \A n \in Machines : sockets'[n] \subseteq Inbox(n)
<1>1. S \subseteq Messages
  BY DEF Inbox
<1> QED
  BY <1>1 DEF TypeOK, Addressed

\* A message that is sent joins the queue of a machine it is for.
LEMMA Connected ==
    ASSUME TypeOK, Addressed, NEW m \in Machines, NEW msg \in Inbox(m), Connect(m, msg)
    PROVE  /\ connections' \in [Machines -> Seq(Messages)]
           /\ \A n \in Machines : connections'[n] \in Seq(Inbox(n))
<1>1. connections[m] \in Seq(Inbox(m))
  BY DEF Addressed
<1> DEFINE q == Append(connections[m], msg)
<1>2. q \in Seq(Inbox(m))
  BY <1>1
<1>3. connections' = [connections EXCEPT ![m] = q]
  BY DEF Connect
<1> HIDE DEF q
<1> QED
  BY <1>2, <1>3, QueueReplaced

\* Accepting moves a message from the queue to the sockets.
LEMMA AcceptInv == ASSUME Inv, NEW m \in Machines, Accept(m) PROVE Inv'
<1>1. TypeOK /\ Addressed
  BY DEF Inv
<1>2. connections[m] \in Seq(Inbox(m)) /\ connections[m] # <<>> /\ sockets[m] \subseteq Inbox(m)
  BY <1>1 DEF Addressed, Accept
<1> DEFINE q == Tail(connections[m])
           S == sockets[m] \cup {Head(connections[m])}
<1>3. q \in Seq(Inbox(m)) /\ S \in SUBSET Inbox(m)
  BY <1>2
<1>4. connections' = [connections EXCEPT ![m] = q] /\ sockets' = [sockets EXCEPT ![m] = S]
  BY DEF Accept
<1> HIDE DEF q, S
<1>5. /\ connections' \in [Machines -> Seq(Messages)]
      /\ \A n \in Machines : connections'[n] \in Seq(Inbox(n))
      /\ sockets' \in [Machines -> SUBSET Messages]
      /\ \A n \in Machines : sockets'[n] \subseteq Inbox(n)
  BY <1>1, <1>3, <1>4, QueueReplaced, SocketsReplaced
<1>6. UNCHANGED <<accepting, controller, nextEndpoint, history, others>>
  BY DEF Accept
<1>7. TypeOK' /\ Addressed'
  BY <1>1, <1>5, <1>6 DEF TypeOK, Addressed, controller, history, others
<1>8. InHand' /\ Covered' /\ HeardIsListed'
  BY <1>6 DEF Inv, InHand, Covered, Sent, HeardIsListed, controller, history, others
<1> QED
  BY <1>7, <1>8 DEF Inv

\* Reading takes a message for the machine out of its sockets.
LEMMA ReadFacts ==
    ASSUME TypeOK, Addressed, NEW m \in Machines, NEW msg, Read(m, msg)
    PROVE  /\ msg \in Inbox(m) /\ msg \in Messages
           /\ sockets' \in [Machines -> SUBSET Messages]
           /\ \A n \in Machines : sockets'[n] \subseteq Inbox(n)
<1>1. msg \in sockets[m] /\ sockets[m] \subseteq Inbox(m)
  BY DEF Read, Addressed
<1> DEFINE S == sockets[m] \ {msg}
<1>2. S \in SUBSET Inbox(m)
  BY <1>1
<1>3. sockets' = [sockets EXCEPT ![m] = S]
  BY DEF Read
<1> HIDE DEF S
<1>4. msg \in Inbox(m) /\ msg \in Messages
  BY <1>1 DEF Inbox
<1> QED
  BY <1>2, <1>3, <1>4, SocketsReplaced

\* Another machine answers to Me.
LEMMA RequestInv ==
    ASSUME Inv, NEW m \in Machines, NEW q, Read(m, q), q.type = "REQ_STOCK",
           OnReqStockReceived(m, q)
    PROVE  Inv'
<1>1. TypeOK /\ Addressed
  BY DEF Inv
<1>2. q \in Inbox(m) /\ q \in Messages
  BY <1>1, ReadFacts
<1>3. m # Me /\ m \in Others
  BY <1>2 DEF Inbox, Machines
<1>4. q.drink \in Drinks /\ q.inquiry \in 1..MaxInquiries
  BY <1>2 DEF Messages
<1>5. Response(m, q) \in Inbox(Me) /\ Me \in Machines
  BY <1>3, <1>4 DEF Response, Inbox, Messages, Machines
<1>6. /\ connections' \in [Machines -> Seq(Messages)]
      /\ \A n \in Machines : connections'[n] \in Seq(Inbox(n))
  BY <1>1, <1>5, Connected DEF OnReqStockReceived
<1>7. /\ sockets' \in [Machines -> SUBSET Messages]
      /\ \A n \in Machines : sockets'[n] \subseteq Inbox(n)
  BY <1>1, ReadFacts
<1>8. UNCHANGED <<accepting, controller, nextEndpoint, history, others>>
  BY DEF OnReqStockReceived
<1>9. TypeOK' /\ Addressed'
  BY <1>1, <1>6, <1>7, <1>8 DEF TypeOK, Addressed, controller, history, others
<1>10. InHand' /\ Covered' /\ HeardIsListed'
  BY <1>8 DEF Inv, InHand, Covered, Sent, HeardIsListed, controller, history, others
<1> QED
  BY <1>9, <1>10 DEF Inv

\* A stock answer extends the list by a machine that is not on it; the state it
\* may write ends a wait, never a broadcast.
LEMMA ResponseInv ==
    ASSUME Inv, NEW m \in Machines, NEW msg, Read(m, msg), msg.type = "RESP_STOCK",
           OnRespStockReceived(msg)
    PROVE  Inv'
<1>1. TypeOK /\ Addressed /\ InHand /\ Covered /\ HeardIsListed
  BY DEF Inv
<1>2. msg.src \in Others /\ msg.drink \in Drinks
  BY <1>1, ReadFacts DEF Messages
<1>3. /\ sockets' \in [Machines -> SUBSET Messages]
      /\ \A n \in Machines : sockets'[n] \subseteq Inbox(n)
  BY <1>1, ReadFacts
<1>4. /\ UNCHANGED <<connections, accepting, location, up, inStock, steady, events>>
      /\ UNCHANGED <<pendingDrink, nextEndpoint, inquiry, asked>>
  BY DEF OnRespStockReceived, others
<1>5. Addressed'
  BY <1>1, <1>3, <1>4 DEF Addressed
<1>6. \/ UNCHANGED <<state, target>>
      \/ /\ Counts(msg) /\ state # "BROADCASTING_STOCK_REQUEST"
         /\ state' = "DISPLAYING_OTHER_VM_OPTIONS" /\ target' = NoMachine
  BY DEF OnRespStockReceived, WriteOptions
<1>7. \/ state' = state
      \/ /\ state \notin {"DISPLAYING_MAIN_MENU", "BROADCASTING_STOCK_REQUEST"}
         /\ state' = "DISPLAYING_OTHER_VM_OPTIONS"
  <2>1. Counts(msg) => msg.drink = pendingDrink
    BY DEF Counts
  <2>2. Counts(msg) => state # "DISPLAYING_MAIN_MENU"
    BY <1>1, <1>2, <2>1, InquiryAssumption DEF InHand
  <2> QED
    BY <1>6, <2>2
<1>8. InHand' /\ Covered'
  BY <1>1, <1>4, <1>7 DEF InHand, Covered, Sent
<1>9. HeardIsListed' /\ availableOtherVms' \in Seq(Others) /\ heard' \subseteq Others
      /\ timerArmed' \in BOOLEAN
  <2>1. availableOtherVms \in Seq(Others) /\ heard \subseteq Others /\ timerArmed \in BOOLEAN
    BY <1>1 DEF TypeOK
  <2>2. CASE Counts(msg)
    <3>1. availableOtherVms' = Append(availableOtherVms, msg.src)
          /\ heard' = heard \cup {msg.src}
          /\ timerArmed' \in BOOLEAN
      BY <2>1, <2>2 DEF OnRespStockReceived, Counts
    <3>2. msg.src \notin heard
      BY <1>1, <2>2 DEF Counts, Listed, HeardIsListed
    <3>3. /\ availableOtherVms' \in Seq(Others)
          /\ Len(availableOtherVms) \in Nat
          /\ Len(availableOtherVms') = Len(availableOtherVms) + 1
          /\ DOMAIN availableOtherVms = 1..Len(availableOtherVms)
          /\ DOMAIN availableOtherVms' = 1..(Len(availableOtherVms) + 1)
          /\ \A i \in 1..Len(availableOtherVms) : availableOtherVms'[i] = availableOtherVms[i]
          /\ availableOtherVms'[Len(availableOtherVms) + 1] = msg.src
      BY <1>2, <2>1, <3>1
    <3>4. heard' = {availableOtherVms'[i] : i \in DOMAIN availableOtherVms'}
      <4> DEFINE n == Len(availableOtherVms)
      <4>1. heard = {availableOtherVms[i] : i \in 1..n}
        BY <1>1, <3>3 DEF HeardIsListed
      <4>2. 1..(n + 1) = (1..n) \cup {n + 1}
        BY <3>3
      <4>3. {availableOtherVms'[i] : i \in 1..(n + 1)}
              = {availableOtherVms[i] : i \in 1..n} \cup {msg.src}
        <5>1. \A i \in 1..(n + 1) : i \in 1..n \/ i = n + 1
          BY <4>2
        <5>2. n + 1 \in 1..(n + 1) /\ \A i \in 1..n : i \in 1..(n + 1)
          BY <4>2
        <5>3. \A i \in 1..n : availableOtherVms'[i] = availableOtherVms[i]
          BY <3>3
        <5>4. availableOtherVms'[n + 1] = msg.src
          BY <3>3
        <5> HIDE DEF n
        <5> QED
          BY <5>1, <5>2, <5>3, <5>4
      <4> QED
        BY <3>1, <3>3, <4>1, <4>3
    <3>5. Cardinality(heard') = Len(availableOtherVms')
      <4>1. IsFiniteSet(heard)
        BY <2>1, TableFacts, FS_Subset
      <4>2. Cardinality(heard \cup {msg.src}) = Cardinality(heard) + 1
        BY <3>2, <4>1, FS_AddElement
      <4> QED
        BY <1>1, <3>1, <3>3, <4>2 DEF HeardIsListed
    <3> QED
      BY <1>2, <2>1, <3>1, <3>3, <3>4, <3>5 DEF HeardIsListed
  <2>3. CASE ~Counts(msg)
    <3>1. availableOtherVms' = availableOtherVms /\ timerArmed' = timerArmed
      BY <2>3 DEF OnRespStockReceived
    <3>2. heard' = heard
      <4>1. CASE msg.drink = pendingDrink /\ msg.hasStock
        <5>1. msg.src \in heard
          BY <1>1, <2>3, <4>1 DEF Counts, Listed, HeardIsListed
        <5> QED
          BY <4>1, <5>1 DEF OnRespStockReceived
      <4>2. CASE ~(msg.drink = pendingDrink /\ msg.hasStock)
        BY <4>2 DEF OnRespStockReceived
      <4> QED
        BY <4>1, <4>2
    <3> QED
      BY <1>1, <2>1, <3>1, <3>2 DEF HeardIsListed
  <2> QED
    BY <2>2, <2>3
<1>10. TypeOK'
  BY <1>1, <1>3, <1>4, <1>6, <1>7, <1>9 DEF TypeOK
<1> QED
  BY <1>5, <1>8, <1>9, <1>10 DEF Inv

-----------------------------------------------------------------------------
(* The main thread, the time-out, and the other machines *)

\* A new inquiry: nothing is asked, nothing heard.
LEMMA BeginInv == ASSUME Inv, NEW d \in Drinks, BeginInquiry(d) PROVE Inv'
<1>1. TypeOK /\ Addressed
  BY DEF Inv
<1>2. inquiry' \in 1..MaxInquiries /\ 1 \in 1..Len(Table) + 1
  BY <1>1, TableFacts, InquiryAssumption DEF TypeOK, BeginInquiry
<1>3. TypeOK' /\ Addressed'
  BY <1>1, <1>2 DEF TypeOK, Addressed, BeginInquiry, network
<1>4. InHand'
  BY <1>2 DEF InHand, BeginInquiry
<1>5. Covered'
  BY TableFacts DEF Covered, Sent, BeginInquiry
<1>6. HeardIsListed'
  BY FS_EmptySet DEF HeardIsListed, BeginInquiry
<1> QED
  BY <1>3, <1>4, <1>5, <1>6 DEF Inv

\* One turn of the loop: a machine is asked, or the rest of the table is behind one
\* that is down, and so has not run throughout.
LEMMA SendInv == ASSUME Inv, SendToNext PROVE Inv'
<1> DEFINE m == Table[nextEndpoint]
<1>1. TypeOK /\ Addressed /\ InHand /\ Covered /\ HeardIsListed
  BY DEF Inv
<1>2. /\ state = "BROADCASTING_STOCK_REQUEST"
      /\ nextEndpoint \in DOMAIN Table /\ m \in Others /\ m \in Machines /\ m # Me
  BY <1>1, TableFacts, InquiryAssumption DEF TypeOK, SendToNext, Machines
<1>3. Request(pendingDrink) \in Inbox(m)
  BY <1>1, <1>2 DEF Request, Inbox, Messages, InHand
<1>4. UNCHANGED <<others, sockets, accepting, controller, inquiry, heard>>
  BY DEF SendToNext
<1>5. \/ /\ m \in up /\ Connect(m, Request(pendingDrink))
         /\ nextEndpoint' = nextEndpoint + 1 /\ asked' = asked \cup {m}
      \/ /\ m \notin up /\ nextEndpoint' = Len(Table) + 1
         /\ UNCHANGED <<connections, asked>>
  BY DEF SendToNext
<1> HIDE DEF m
<1>6. /\ connections' \in [Machines -> Seq(Messages)]
      /\ \A n \in Machines : connections'[n] \in Seq(Inbox(n))
  BY <1>1, <1>2, <1>3, <1>5, Connected DEF TypeOK, Addressed
<1>7. nextEndpoint' \in 1..Len(Table) + 1 /\ asked' \subseteq Others
  BY <1>1, <1>2, <1>5, TableFacts DEF TypeOK
<1>8. TypeOK' /\ Addressed'
  BY <1>1, <1>4, <1>6, <1>7 DEF TypeOK, Addressed, others, controller
<1>9. InHand' /\ HeardIsListed'
  BY <1>1, <1>4 DEF InHand, HeardIsListed, controller
<1>10. Covered'
  <2>1. steady' \subseteq up' /\ ~Sent'
    BY <1>1, <1>2, <1>4 DEF Covered, Sent, others, controller
  <2>2. ASSUME NEW i \in DOMAIN Table, i < nextEndpoint', \A j \in 1..i : Table[j] \in steady
        PROVE  Table[i] \in asked'
    <3>1. i \in Nat /\ nextEndpoint \in Nat /\ nextEndpoint >= 1
      BY <1>1, TableFacts DEF TypeOK
    <3>2. CASE i < nextEndpoint
      BY <1>1, <1>2, <1>5, <2>2, <3>2 DEF Covered
    <3>3. CASE i >= nextEndpoint
      <4>1. nextEndpoint \in 1..i
        BY <3>1, <3>3
      <4>2. m \in steady /\ m \in up
        BY <1>1, <2>2, <4>1 DEF Covered, m
      <4>3. i = nextEndpoint
        BY <1>5, <2>2, <3>1, <3>3, <4>2
      <4> QED
        BY <1>5, <4>2, <4>3 DEF m
    <3> QED
      BY <3>1, <3>2, <3>3
  <2> QED
    BY <1>4, <2>1, <2>2 DEF Covered, others
<1> QED
  BY <1>8, <1>9, <1>10 DEF Inv

\* The wait begins when the loop has ended.
LEMMA AwaitInv == ASSUME Inv, AwaitResponses PROVE Inv'
<1>1. /\ TypeOK /\ Addressed /\ InHand /\ Covered /\ HeardIsListed
      /\ state = "BROADCASTING_STOCK_REQUEST" /\ state' = "AWAITING_STOCK_RESPONSES"
      /\ timerArmed' = TRUE /\ nextEndpoint > Len(Table)
      /\ UNCHANGED <<others, network, nextEndpoint, pendingDrink, availableOtherVms,
                     target, history>>
  BY DEF Inv, AwaitResponses
<1>2. nextEndpoint = Len(Table) + 1
  BY <1>1, TableFacts DEF TypeOK
<1>3. TypeOK' /\ Addressed'
  BY <1>1 DEF TypeOK, Addressed, others, network, history
<1>4. InHand' /\ Covered' /\ HeardIsListed'
  BY <1>1, <1>2 DEF InHand, Covered, Sent, HeardIsListed, others, history
<1> QED
  BY <1>3, <1>4 DEF Inv

\* The time-out and the choice of a target change what the customer sees only.
LEMMA TimeoutInv == ASSUME Inv, HandleTimeout \/ OfferNearest PROVE Inv'
<1>1. TypeOK /\ Addressed /\ InHand /\ Covered /\ HeardIsListed
  BY DEF Inv
<1>2. /\ UNCHANGED <<others, network, nextEndpoint, pendingDrink, availableOtherVms, history>>
      /\ state' = state \/ /\ state = "AWAITING_STOCK_RESPONSES"
                           /\ state' \in {"HANDLING_ERROR", "DISPLAYING_OTHER_VM_OPTIONS"}
      /\ timerArmed' \in {timerArmed, FALSE}
  BY DEF HandleTimeout, OfferNearest
<1>3. target' \in Others \cup {NoMachine}
  <2>1. CASE HandleTimeout
    BY <1>1, <2>1 DEF HandleTimeout, TypeOK
  <2>2. CASE OfferNearest
    <3>1. target' \in {availableOtherVms[i] : i \in DOMAIN availableOtherVms}
      BY <2>2 DEF OfferNearest, Front
    <3>2. target' \in heard
      BY <1>1, <3>1 DEF HeardIsListed
    <3> QED
      BY <1>1, <3>2 DEF TypeOK
  <2> QED
    BY <2>1, <2>2
<1>4. TypeOK' /\ Addressed'
  BY <1>1, <1>2, <1>3 DEF TypeOK, Addressed, others, network, history
<1>5. InHand' /\ Covered' /\ HeardIsListed'
  BY <1>1, <1>2 DEF InHand, Covered, Sent, HeardIsListed, others, history
<1> QED
  BY <1>4, <1>5 DEF Inv

\* The menu forgets the inquiry.
LEMMA MenuInv == ASSUME Inv, ReturnToMenu PROVE Inv'
<1>1. TypeOK /\ Addressed /\ Covered
  BY DEF Inv
<1>2. TypeOK' /\ Addressed'
  <2>1. /\ UNCHANGED <<location, up, inStock, steady, events>>
        /\ UNCHANGED <<connections, sockets, accepting, nextEndpoint, inquiry, asked>>
        /\ state' = "DISPLAYING_MAIN_MENU" /\ pendingDrink' = NoDrink
        /\ target' = NoMachine /\ timerArmed' = FALSE /\ heard' = {}
        /\ availableOtherVms' = <<>> /\ <<>> \in Seq(Others)
    BY DEF ReturnToMenu, others, network
  <2> QED
    BY <1>1, <2>1 DEF TypeOK, Addressed
<1>3. InHand' /\ Covered'
  BY <1>1 DEF InHand, Covered, Sent, ReturnToMenu, others
<1>4. HeardIsListed'
  BY FS_EmptySet DEF HeardIsListed, ReturnToMenu
<1> QED
  BY <1>2, <1>3, <1>4 DEF Inv

\* A machine that stops has not run throughout; what it had received is gone.
LEMMA StopInv == ASSUME Inv, NEW m \in Others, Stop(m) PROVE Inv'
<1>1. TypeOK /\ Addressed /\ InHand /\ Covered /\ HeardIsListed /\ m \in Machines
  BY DEF Inv, Machines
<1>2. connections' = [connections EXCEPT ![m] = <<>>] /\ sockets' = [sockets EXCEPT ![m] = {}]
  BY DEF Stop
<1>3. <<>> \in Seq(Inbox(m)) /\ {} \in SUBSET Inbox(m)
  OBVIOUS
<1>4. /\ connections' \in [Machines -> Seq(Messages)]
      /\ \A n \in Machines : connections'[n] \in Seq(Inbox(n))
      /\ sockets' \in [Machines -> SUBSET Messages]
      /\ \A n \in Machines : sockets'[n] \subseteq Inbox(n)
  BY <1>1, <1>2, <1>3, QueueReplaced, SocketsReplaced
<1>5. events' \in 0..MaxEvents
  BY <1>1, InquiryAssumption DEF TypeOK, Stop, Event
<1>6. /\ up' = up \ {m} /\ steady' = steady \ {m} /\ accepting' = accepting \ {m}
      /\ UNCHANGED <<location, inStock, controller, nextEndpoint, history>>
  BY DEF Stop
<1>7. TypeOK' /\ Addressed'
  BY <1>1, <1>4, <1>5, <1>6 DEF TypeOK, Addressed, controller, history
<1>8. InHand' /\ Covered' /\ HeardIsListed'
  BY <1>1, <1>6 DEF InHand, Covered, Sent, HeardIsListed, controller, history
<1> QED
  BY <1>7, <1>8 DEF Inv

\* A start, and the sale of a last item, concern no inquiry.
LEMMA OtherMachineInv ==
    ASSUME Inv, NEW m \in Others, Start(m) \/ \E d \in Drinks : SellLast(m, d)
    PROVE  Inv'
<1>1. TypeOK /\ Addressed /\ InHand /\ Covered /\ HeardIsListed /\ m \in Machines
  BY DEF Inv, Machines
<1>2. /\ UNCHANGED <<location, connections, sockets, controller, nextEndpoint, history, steady>>
      /\ up' \in {up, up \cup {m}} /\ accepting' \in {accepting, accepting \cup {m}}
      /\ inStock' \in [Others -> SUBSET Drinks]
      /\ events' \in 0..MaxEvents
  <2>1. CASE Start(m)
    <3>1. events' \in 0..MaxEvents
      BY <1>1, <2>1, InquiryAssumption DEF TypeOK, Start, Event
    <3>2. inStock' \in [Others -> SUBSET Drinks]
      BY <1>1, <2>1, InquiryAssumption DEF TypeOK, Start
    <3> QED
      BY <2>1, <3>1, <3>2 DEF Start
  <2>2. CASE \E d \in Drinks : SellLast(m, d)
    BY <1>1, <2>2, InquiryAssumption DEF TypeOK, SellLast, Event, network
  <2> QED
    BY <2>1, <2>2
<1>3. TypeOK' /\ Addressed'
  BY <1>1, <1>2 DEF TypeOK, Addressed, controller, history
<1>4. InHand' /\ Covered' /\ HeardIsListed'
  BY <1>1, <1>2 DEF InHand, Covered, Sent, HeardIsListed, controller, history
<1> QED
  BY <1>3, <1>4 DEF Inv

-----------------------------------------------------------------------------
(* Theorems *)

\* The initial states satisfy the invariant.
LEMMA InitInv == Init => Inv
<1> SUFFICES ASSUME Init PROVE Inv
  OBVIOUS
<1>1. TypeOK
  <2>1. <<>> \in Seq(Messages) /\ <<>> \in Seq(Others) /\ 1 \in 1..Len(Table) + 1
    BY TableFacts
  <2>2. 0 \in 0..MaxInquiries /\ 0 \in 0..MaxEvents
    BY InquiryAssumption
  <2> QED
    BY <2>1, <2>2, InquiryAssumption DEF Init, TypeOK, Machines
<1>2. Addressed /\ InHand /\ Covered
  BY DEF Init, Addressed, InHand, Covered, Sent
<1>3. HeardIsListed
  BY FS_EmptySet DEF Init, HeardIsListed
<1> QED
  BY <1>1, <1>2, <1>3 DEF Inv

\* The invariant is inductive.
THEOREM Invariance == Spec => []Inv
<1>1. Inv /\ [Next]_vars => Inv'
  <2> SUFFICES ASSUME Inv, [Next]_vars PROVE Inv'
    OBVIOUS
  <2>1. CASE \E d \in Drinks : BeginInquiry(d)
    BY <2>1, BeginInv
  <2>2. CASE MainThread
    BY <2>2, SendInv, AwaitInv, TimeoutInv DEF MainThread
  <2>3. CASE HandleTimeout
    BY <2>3, TimeoutInv
  <2>4. CASE ReturnToMenu
    BY <2>4, MenuInv
  <2>5. CASE \E m \in Machines : IoThread(m)
    BY <2>5, AcceptInv, RequestInv, ResponseInv DEF IoThread, Handle
  <2>6. CASE \E m \in Others : Stop(m) \/ Start(m)
    BY <2>6, StopInv, OtherMachineInv
  <2>7. CASE \E m \in Others, d \in Drinks : SellLast(m, d)
    BY <2>7, OtherMachineInv
  <2>8. CASE StayAtMenu \/ UNCHANGED vars
    <3>1. UNCHANGED <<others, network, controller, nextEndpoint, history>>
      BY <2>8 DEF StayAtMenu, vars
    <3> QED
      BY <3>1 DEF Inv, TypeOK, Addressed, InHand, Covered, Sent, HeardIsListed,
                  others, network, controller, history
  <2> QED
    BY <2>1, <2>2, <2>3, <2>4, <2>5, <2>6, <2>7, <2>8 DEF Next
<1> QED
  BY <1>1, InitInv, PTL DEF Spec

\* Types, for any table and any number of events.
THEOREM TypeCorrect == Spec => []TypeOK
<1>1. Inv => TypeOK
  BY DEF Inv
<1> QED
  BY <1>1, Invariance, PTL

\* A machine that runs throughout is asked, or one before it was down.
THEOREM OnlyFailuresHideMachines == Spec => []UnaskedIsExcused
<1>1. Inv => UnaskedIsExcused
  <2> SUFFICES ASSUME Inv, Sent, NEW i \in DOMAIN Table, \A j \in 1..i : Table[j] \in steady
               PROVE  Table[i] \in asked
    BY DEF UnaskedIsExcused
  <2>1. state # "DISPLAYING_MAIN_MENU" /\ nextEndpoint = Len(Table) + 1
    BY DEF Inv, Covered, Sent
  <2>2. i < nextEndpoint
    BY <2>1, TableFacts
  <2> QED
    BY <2>1, <2>2 DEF Inv, Covered
<1> QED
  BY <1>1, Invariance, PTL

\* A wait that ends early has heard from every other machine.
THEOREM EarlyEndIsComplete == Spec => EarlyEndHeardFromAll
<1> DEFINE Early == (/\ state = "AWAITING_STOCK_RESPONSES"
                     /\ state' = "DISPLAYING_OTHER_VM_OPTIONS"
                     /\ availableOtherVms # availableOtherVms') => heard' = Others
<1>1. Inv /\ Inv' /\ [Next]_vars => [Early]_vars
  <2> SUFFICES ASSUME Inv, Inv', [Next]_vars, state = "AWAITING_STOCK_RESPONSES",
                      state' = "DISPLAYING_OTHER_VM_OPTIONS",
                      availableOtherVms # availableOtherVms'
               PROVE  heard' = Others
    OBVIOUS
  <2>1. PICK msg : OnRespStockReceived(msg) /\ Counts(msg)
    <3>1. PICK msg : OnRespStockReceived(msg)
      BY DEF Next, MainThread, IoThread, Handle, BeginInquiry, SendToNext, AwaitResponses,
             OfferNearest, HandleTimeout, ReturnToMenu, StayAtMenu, Accept,
             OnReqStockReceived, Stop, Start, SellLast, controller, vars
    <3>2. Counts(msg)
      BY <3>1 DEF OnRespStockReceived
    <3> QED
      BY <3>1, <3>2
  <2>2. Len(availableOtherVms) + 1 >= Len(Table)
        /\ availableOtherVms' = Append(availableOtherVms, msg.src)
    BY <2>1 DEF OnRespStockReceived
  <2>3. availableOtherVms \in Seq(Others) /\ Len(availableOtherVms) \in Nat
        /\ Len(availableOtherVms') = Len(availableOtherVms) + 1
    BY <2>2 DEF Inv, TypeOK
  <2>4. heard' \in SUBSET Others /\ Cardinality(heard') >= Len(Table)
    BY <2>2, <2>3 DEF Inv, TypeOK, HeardIsListed
  <2>5. /\ IsFiniteSet(Others) /\ Cardinality(Others) <= Len(Table)
        /\ Cardinality(Others) \in Nat /\ Len(Table) \in Nat
    BY TableFacts, FS_CardinalityType
  <2>6. IsFiniteSet(heard') /\ Cardinality(heard') <= Cardinality(Others)
        /\ (Cardinality(Others) = Cardinality(heard') => Others = heard')
    BY <2>4, <2>5, FS_Subset
  <2>7. Cardinality(heard') \in Nat
    BY <2>6, FS_CardinalityType
  <2> QED
    BY <2>4, <2>5, <2>6, <2>7
<1>2. Spec => [][Early]_vars
  BY <1>1, Invariance, PTL DEF Spec
<1> QED
  BY <1>2 DEF EarlyEndHeardFromAll

\* If every other machine has a number in its id, as main's table has, the customer
\* is sent to the nearest machine that was heard of.
THEOREM NearestGetsTheOffer ==
    ASSUME \A m \in Others : Parses(m)
    PROVE  Spec => NearestIsOffered
<1> DEFINE Best == \A t \in Others : (target # t /\ target' = t) =>
                      /\ t \in heard
                      /\ \A m \in heard :
                            /\ Distance(t) <= Distance(m)
                            /\ Distance(t) = Distance(m) /\ Parses(t) /\ Parses(m)
                                  => IdNumber[t] <= IdNumber[m]
<1>1. Inv /\ [Next]_vars => [Best]_vars
  <2> SUFFICES ASSUME Inv, [Next]_vars, NEW t \in Others, target # t, target' = t
               PROVE  NearestIn(t, heard)
    BY DEF NearestIn
  <2>0. t # NoMachine
    BY InquiryAssumption DEF Machines
  <2>1. OfferNearest
    BY <2>0 DEF Next, MainThread, IoThread, Handle, BeginInquiry, SendToNext, AwaitResponses,
           HandleTimeout, ReturnToMenu, StayAtMenu, Accept, OnRespStockReceived, WriteOptions,
           OnReqStockReceived, Stop, Start, SellLast, controller, vars
  <2>2. t \in Front(heard)
    BY <2>1 DEF OfferNearest, Inv, HeardIsListed
  <2> QED
    BY <2>2, FrontIsNearest DEF Inv, TypeOK
<1>2. Spec => [][Best]_vars
  BY <1>1, Invariance, PTL DEF Spec
<1> QED
  BY <1>2 DEF NearestIsOffered

-----------------------------------------------------------------------------
(* Each message once *)

SameMessage(a, b) == a.src = b.src /\ a.inquiry = b.inquiry

\* No message is under way to m twice.
Once(m) ==
    /\ \A i, j \in DOMAIN connections[m] :
          SameMessage(connections[m][i], connections[m][j]) => i = j
    /\ \A i \in DOMAIN connections[m], msg \in sockets[m] :
          ~SameMessage(connections[m][i], msg)
    /\ \A a, b \in sockets[m] : SameMessage(a, b) => a = b

\* The loop is still to ask the rest of the table.
LoopIsAhead ==
    state = "BROADCASTING_STOCK_REQUEST" =>
        \A i \in DOMAIN Table : i >= nextEndpoint => Table[i] \notin asked

\* A machine has been asked before anything of the inquiry is under way, and its
\* request and its answer are not under way at a time.
OneEach ==
    /\ \A m \in Machines : Once(m)
    /\ \A k \in 1..MaxInquiries, m \in Others :
          /\ UnderWay(Me, m, k) \/ UnderWay(m, Me, k) => Begun(k, m)
          /\ ~(UnderWay(Me, m, k) /\ UnderWay(m, Me, k))
    /\ LoopIsAhead

\* What has not changed at m is under way as before.
LEMMA StaysUnderWay ==
    ASSUME NEW m \in Machines, Once(m),
           connections'[m] = connections[m], sockets'[m] = sockets[m]
    PROVE  /\ Once(m)'
           /\ \A n, k : UnderWay(n, m, k)' <=> UnderWay(n, m, k)
  BY DEF Once, UnderWay

\* A new message joins the queue of m.
LEMMA JoinsQueue ==
    ASSUME TypeOK, NEW m \in Machines, Once(m), NEW msg \in Messages,
           ~UnderWay(msg.src, m, msg.inquiry),
           connections'[m] = Append(connections[m], msg), sockets'[m] = sockets[m]
    PROVE  /\ Once(m)'
           /\ \A n, k : UnderWay(n, m, k)' <=>
                 UnderWay(n, m, k) \/ (n = msg.src /\ k = msg.inquiry)
<1> DEFINE q == connections[m]
           l == Len(q)
<1>1. q \in Seq(Messages)
  BY DEF TypeOK
<1>2. /\ l \in Nat /\ DOMAIN q = 1..l /\ DOMAIN connections'[m] = 1..(l + 1)
      /\ \A i \in 1..l : connections'[m][i] = q[i]
      /\ connections'[m][l + 1] = msg
  BY <1>1
<1>3. /\ \A i \in 1..(l + 1) : i \in 1..l \/ i = l + 1
      /\ \A i \in 1..l : i \in 1..(l + 1) /\ i # l + 1
      /\ l + 1 \in 1..(l + 1)
  BY <1>2
<1>4. /\ \A i \in DOMAIN q : ~SameMessage(q[i], msg) /\ ~SameMessage(msg, q[i])
      /\ \A b \in sockets[m] : ~SameMessage(msg, b)
  BY DEF UnderWay, SameMessage
<1> HIDE DEF l
<1>5. Once(m)'
  <2>1. ASSUME NEW i \in 1..(l + 1), NEW j \in 1..(l + 1),
               SameMessage(connections'[m][i], connections'[m][j])
        PROVE  i = j
    BY <1>2, <1>3, <1>4, <2>1 DEF Once
  <2>2. ASSUME NEW i \in 1..(l + 1), NEW b \in sockets[m]
        PROVE  ~SameMessage(connections'[m][i], b)
    BY <1>2, <1>3, <1>4 DEF Once
  <2> QED
    BY <1>2, <2>1, <2>2 DEF Once, SameMessage
<1>6. ASSUME NEW n, NEW k
      PROVE  UnderWay(n, m, k)' <=> UnderWay(n, m, k) \/ (n = msg.src /\ k = msg.inquiry)
  BY <1>2, <1>3 DEF UnderWay
<1> QED
  BY <1>5, <1>6

\* A message is read.
LEMMA LeavesSockets ==
    ASSUME NEW m \in Machines, Once(m), NEW msg \in sockets[m],
           connections'[m] = connections[m], sockets'[m] = sockets[m] \ {msg}
    PROVE  /\ Once(m)'
           /\ \A n, k : UnderWay(n, m, k)' <=>
                 UnderWay(n, m, k) /\ ~(n = msg.src /\ k = msg.inquiry)
<1>1. Once(m)'
  BY DEF Once
<1>2. ASSUME NEW n, NEW k
      PROVE  UnderWay(n, m, k)' <=> UnderWay(n, m, k) /\ ~(n = msg.src /\ k = msg.inquiry)
  BY DEF UnderWay, Once, SameMessage
<1> QED
  BY <1>1, <1>2

\* A connection is accepted: its message goes from the queue to the sockets.
LEMMA AcceptMoves ==
    ASSUME TypeOK, NEW m \in Machines, Once(m), connections[m] # <<>>,
           connections'[m] = Tail(connections[m]),
           sockets'[m] = sockets[m] \cup {Head(connections[m])}
    PROVE  /\ Once(m)'
           /\ \A n, k : UnderWay(n, m, k)' <=> UnderWay(n, m, k)
<1> DEFINE q == connections[m]
           l == Len(q)
<1>1. q \in Seq(Messages) /\ q # <<>>
  BY DEF TypeOK
<1>2. /\ l \in Nat \ {0} /\ DOMAIN q = 1..l /\ DOMAIN connections'[m] = 1..(l - 1)
      /\ \A i \in 1..(l - 1) : connections'[m][i] = q[i + 1]
      /\ Head(q) = q[1]
  BY <1>1
<1>3. /\ 1 \in 1..l
      /\ \A i \in 1..(l - 1) : i + 1 \in 1..l /\ i + 1 # 1
      /\ \A i, j \in 1..(l - 1) : i + 1 = j + 1 => i = j
      /\ \A i \in 1..l : i = 1 \/ (i - 1 \in 1..(l - 1) /\ (i - 1) + 1 = i)
  BY <1>2
<1> HIDE DEF l
<1>4. Once(m)'
  <2>1. ASSUME NEW i \in 1..(l - 1), NEW j \in 1..(l - 1),
               SameMessage(connections'[m][i], connections'[m][j])
        PROVE  i = j
    <3>1. i + 1 = j + 1
      BY <1>2, <1>3, <2>1 DEF Once
    <3> QED
      BY <1>3, <3>1
  <2>2. ASSUME NEW i \in 1..(l - 1), NEW b \in sockets'[m]
        PROVE  ~SameMessage(connections'[m][i], b)
    BY <1>2, <1>3 DEF Once
  <2>3. ASSUME NEW a \in sockets'[m], NEW b \in sockets'[m], SameMessage(a, b)
        PROVE  a = b
    BY <1>2, <1>3, <2>3 DEF Once, SameMessage
  <2> QED
    BY <1>2, <2>1, <2>2, <2>3 DEF Once, SameMessage
<1>5. ASSUME NEW n, NEW k PROVE UnderWay(n, m, k)' <=> UnderWay(n, m, k)
  <2>1. UnderWay(n, m, k)' => UnderWay(n, m, k)
    BY <1>2, <1>3 DEF UnderWay
  <2>2. UnderWay(n, m, k) => UnderWay(n, m, k)'
    <3> SUFFICES ASSUME NEW i \in 1..l, q[i].src = n, q[i].inquiry = k
                 PROVE  UnderWay(n, m, k)'
      BY <1>2 DEF UnderWay
    <3>1. CASE i = 1
      BY <1>2, <3>1 DEF UnderWay
    <3>2. CASE i # 1
      <4>1. i - 1 \in 1..(l - 1) /\ connections'[m][i - 1] = q[i]
        BY <1>2, <1>3, <3>2
      <4> QED
        BY <1>2, <4>1 DEF UnderWay
    <3> QED
      BY <3>1, <3>2
  <2> QED
    BY <2>1, <2>2
<1> QED
  BY <1>4, <1>5

-----------------------------------------------------------------------------
(* What a step takes from the network, and what it brings: triples of      *)
(* sender, receiver and inquiry.                                           *)

Flows(Taken, Brought) ==
    /\ \A m \in Machines : Once(m)'
    /\ \A n, m \in Machines, k \in 1..MaxInquiries :
          UnderWay(n, m, k)' <=>
              (UnderWay(n, m, k) /\ <<n, m, k>> \notin Taken) \/ <<n, m, k>> \in Brought

\* Nothing flows where the network stays.
LEMMA NoFlow ==
    ASSUME OneEach, UNCHANGED <<connections, sockets>>
    PROVE  Flows({}, {})
<1>1. ASSUME NEW m \in Machines
      PROVE  Once(m)' /\ \A n, k : UnderWay(n, m, k)' <=> UnderWay(n, m, k)
  BY StaysUnderWay DEF OneEach
<1> QED
  BY <1>1 DEF Flows

\* Accepting takes nothing away.
LEMMA AcceptFlow ==
    ASSUME Inv, OneEach, NEW m \in Machines, Accept(m)
    PROVE  Flows({}, {})
<1>1. /\ connections \in [Machines -> Seq(Messages)]
      /\ sockets \in [Machines -> SUBSET Messages]
      /\ TypeOK
  BY DEF Inv, TypeOK
<1>2. ASSUME NEW p \in Machines
      PROVE  Once(p)' /\ \A n, k : UnderWay(n, p, k)' <=> UnderWay(n, p, k)
  <2>1. Once(p)
    BY DEF OneEach
  <2>2. CASE p = m
    <3>1. /\ connections[m] # <<>>
          /\ connections'[m] = Tail(connections[m])
          /\ sockets'[m] = sockets[m] \cup {Head(connections[m])}
      BY <1>1 DEF Accept
    <3> QED
      BY <1>1, <2>1, <2>2, <3>1, AcceptMoves
  <2>3. CASE p # m
    <3>1. connections'[p] = connections[p] /\ sockets'[p] = sockets[p]
      BY <1>1, <2>3 DEF Accept
    <3> QED
      BY <2>1, <3>1, StaysUnderWay
  <2> QED
    BY <2>2, <2>3
<1> QED
  BY <1>2 DEF Flows

\* A request is answered: it is taken at m, and the answer is on its way to Me.
LEMMA RequestFlow ==
    ASSUME Inv, OneEach, NEW m \in Machines, NEW q, Read(m, q), q.type = "REQ_STOCK",
           OnReqStockReceived(m, q)
    PROVE  /\ m \in Others /\ q.inquiry \in 1..MaxInquiries
           /\ UnderWay(Me, m, q.inquiry)
           /\ Flows({<<Me, m, q.inquiry>>}, {<<m, Me, q.inquiry>>})
<1>1. /\ connections \in [Machines -> Seq(Messages)]
      /\ sockets \in [Machines -> SUBSET Messages]
      /\ TypeOK /\ Addressed
  BY DEF Inv, TypeOK
<1>2. q \in sockets[m] /\ q \in Inbox(m) /\ q \in Messages
  BY <1>1, ReadFacts DEF Read
<1>3. /\ m \in Others /\ m # Me /\ Me \in Machines
      /\ q.src = Me /\ q.drink \in Drinks /\ q.inquiry \in 1..MaxInquiries
  BY <1>2 DEF Inbox, Messages, Machines
<1>4. UnderWay(Me, m, q.inquiry)
  BY <1>2, <1>3 DEF UnderWay
<1> DEFINE a == Response(m, q)
<1>5. a \in Messages /\ a.src = m /\ a.inquiry = q.inquiry
  BY <1>3 DEF Response, Messages
<1>6. ~UnderWay(a.src, Me, a.inquiry)
  BY <1>3, <1>4, <1>5 DEF OneEach
<1>7. /\ connections' = [connections EXCEPT ![Me] = Append(@, a)]
      /\ sockets' = [sockets EXCEPT ![m] = @ \ {q}]
  BY DEF OnReqStockReceived, Connect, Read
<1> HIDE DEF a
<1>8. /\ Once(Me)'
      /\ \A n, k : UnderWay(n, Me, k)' <=>
            UnderWay(n, Me, k) \/ (n = m /\ k = q.inquiry)
  <2>1. /\ connections'[Me] = Append(connections[Me], a)
        /\ sockets'[Me] = sockets[Me]
    BY <1>1, <1>3, <1>7
  <2> QED
    BY <1>1, <1>3, <1>5, <1>6, <2>1, JoinsQueue DEF OneEach
<1>9. /\ Once(m)'
      /\ \A n, k : UnderWay(n, m, k)' <=>
            UnderWay(n, m, k) /\ ~(n = Me /\ k = q.inquiry)
  <2>1. connections'[m] = connections[m] /\ sockets'[m] = sockets[m] \ {q}
    BY <1>1, <1>3, <1>7
  <2> QED
    BY <1>2, <1>3, <2>1, LeavesSockets DEF OneEach
<1>10. ASSUME NEW p \in Machines, p # Me, p # m
       PROVE  Once(p)' /\ \A n, k : UnderWay(n, p, k)' <=> UnderWay(n, p, k)
  <2>1. connections'[p] = connections[p] /\ sockets'[p] = sockets[p]
    BY <1>1, <1>7, <1>10
  <2> QED
    BY <2>1, StaysUnderWay DEF OneEach
<1>11. Flows({<<Me, m, q.inquiry>>}, {<<m, Me, q.inquiry>>})
  BY <1>3, <1>8, <1>9, <1>10 DEF Flows
<1> QED
  BY <1>3, <1>4, <1>11

\* An answer is handled: it is taken at Me.
LEMMA ResponseFlow ==
    ASSUME Inv, OneEach, NEW m \in Machines, NEW msg, Read(m, msg),
           msg.type = "RESP_STOCK", OnRespStockReceived(msg)
    PROVE  /\ msg.src \in Others /\ msg.inquiry \in 1..MaxInquiries
           /\ UnderWay(msg.src, Me, msg.inquiry)
           /\ Flows({<<msg.src, Me, msg.inquiry>>}, {})
<1>1. /\ connections \in [Machines -> Seq(Messages)]
      /\ sockets \in [Machines -> SUBSET Messages]
      /\ TypeOK /\ Addressed
  BY DEF Inv, TypeOK
<1>2. msg \in sockets[m] /\ msg \in Inbox(m) /\ msg \in Messages
  BY <1>1, ReadFacts DEF Read
<1>3. m = Me /\ msg.src \in Others /\ msg.inquiry \in 1..MaxInquiries
  BY <1>2 DEF Inbox, Messages
<1>4. UnderWay(msg.src, Me, msg.inquiry)
  BY <1>2, <1>3 DEF UnderWay
<1>5. connections' = connections /\ sockets' = [sockets EXCEPT ![m] = @ \ {msg}]
  BY DEF OnRespStockReceived, Read
<1>6. /\ Once(Me)'
      /\ \A n, k : UnderWay(n, Me, k)' <=>
            UnderWay(n, Me, k) /\ ~(n = msg.src /\ k = msg.inquiry)
  <2>1. connections'[Me] = connections[Me] /\ sockets'[Me] = sockets[Me] \ {msg}
    BY <1>1, <1>3, <1>5
  <2> QED
    BY <1>2, <1>3, <2>1, LeavesSockets DEF OneEach
<1>7. ASSUME NEW p \in Machines, p # Me
      PROVE  Once(p)' /\ \A n, k : UnderWay(n, p, k)' <=> UnderWay(n, p, k)
  <2>1. connections'[p] = connections[p] /\ sockets'[p] = sockets[p]
    BY <1>1, <1>3, <1>5, <1>7
  <2> QED
    BY <2>1, StaysUnderWay DEF OneEach
<1>8. Flows({<<msg.src, Me, msg.inquiry>>}, {})
  BY <1>6, <1>7 DEF Flows
<1> QED
  BY <1>3, <1>4, <1>8

\* A machine of the table is asked, which has not been asked before, or nobody is.
LEMMA SendFlow ==
    ASSUME Inv, OneEach, SendToNext
    PROVE  \/ /\ Flows({}, {}) /\ nextEndpoint' = Len(Table) + 1 /\ asked' = asked
           \/ \E m \in Others \ asked :
                 /\ m = Table[nextEndpoint] /\ nextEndpoint' = nextEndpoint + 1
                 /\ asked' = asked \cup {m}
                 /\ Flows({}, {<<Me, m, inquiry>>})
<1>1. /\ connections \in [Machines -> Seq(Messages)]
      /\ sockets \in [Machines -> SUBSET Messages]
      /\ TypeOK /\ InHand
  BY DEF Inv, TypeOK
<1>2. state = "BROADCASTING_STOCK_REQUEST" /\ nextEndpoint \in DOMAIN Table
  BY <1>1, TableFacts DEF TypeOK, SendToNext
<1> PICK i \in DOMAIN Table : i = nextEndpoint
  BY <1>2
<1> DEFINE m == Table[i]
<1>0. m \in Others /\ m \in Machines
  BY TableFacts DEF Machines
<1>3. m \notin asked /\ inquiry \in 1..MaxInquiries /\ pendingDrink \in Drinks
  BY <1>1, <1>2, TableFacts DEF TypeOK, OneEach, LoopIsAhead, InHand
<1>4. \/ /\ m \in up /\ Connect(m, Request(pendingDrink))
         /\ nextEndpoint' = nextEndpoint + 1 /\ asked' = asked \cup {m}
      \/ /\ nextEndpoint' = Len(Table) + 1
         /\ UNCHANGED <<connections, asked>>
  BY DEF SendToNext
<1>5. sockets' = sockets
  BY DEF SendToNext
<1> HIDE DEF m
<1>6. CASE UNCHANGED <<connections, asked>> /\ nextEndpoint' = Len(Table) + 1
  BY <1>5, <1>6, NoFlow
<1>7. CASE /\ Connect(m, Request(pendingDrink))
           /\ nextEndpoint' = nextEndpoint + 1 /\ asked' = asked \cup {m}
  <2> DEFINE q == Request(pendingDrink)
  <2>1. q \in Messages /\ q.src = Me /\ q.inquiry = inquiry
    BY <1>3 DEF Request, Messages
  <2>2. connections' = [connections EXCEPT ![m] = Append(@, q)]
    BY <1>7 DEF Connect
  <2> HIDE DEF q
  <2>3. inquiry \in Int /\ ~(inquiry < inquiry)
    BY <1>3
  <2>4. ~Begun(inquiry, m)
    BY <1>3, <2>3 DEF Begun
  <2>5. ~UnderWay(q.src, m, q.inquiry)
    BY <1>0, <1>3, <2>1, <2>4 DEF OneEach
  <2>6. /\ Once(m)'
        /\ \A n, k : UnderWay(n, m, k)' <=>
              UnderWay(n, m, k) \/ (n = Me /\ k = inquiry)
    <3>1. connections'[m] = Append(connections[m], q) /\ sockets'[m] = sockets[m]
      BY <1>0, <1>1, <1>5, <2>2
    <3> QED
      BY <1>0, <1>1, <2>1, <2>5, <3>1, JoinsQueue DEF OneEach
  <2>7. ASSUME NEW p \in Machines, p # m
        PROVE  Once(p)' /\ \A n, k : UnderWay(n, p, k)' <=> UnderWay(n, p, k)
    <3>1. connections'[p] = connections[p] /\ sockets'[p] = sockets[p]
      BY <1>1, <1>5, <2>2, <2>7
    <3> QED
      BY <3>1, StaysUnderWay DEF OneEach
  <2>8. Flows({}, {<<Me, m, inquiry>>})
    BY <1>0, <2>6, <2>7 DEF Flows
  <2>9. m = Table[nextEndpoint] /\ m \in Others \ asked
    BY <1>0, <1>3 DEF m
  <2> QED
    BY <1>7, <2>8, <2>9
<1> QED
  BY <1>4, <1>6, <1>7

\* A machine that stops takes with it what it has received.
LEMMA StopFlow ==
    ASSUME Inv, OneEach, NEW m \in Others, Stop(m)
    PROVE  Flows(Machines \X {m} \X (1..MaxInquiries), {})
<1>1. /\ connections \in [Machines -> Seq(Messages)]
      /\ sockets \in [Machines -> SUBSET Messages]
      /\ m \in Machines
  BY DEF Inv, TypeOK, Machines
<1>2. /\ connections' = [connections EXCEPT ![m] = <<>>]
      /\ sockets' = [sockets EXCEPT ![m] = {}]
  BY DEF Stop
<1>3. Once(m)' /\ \A n, k : ~UnderWay(n, m, k)'
  BY <1>1, <1>2 DEF Once, UnderWay
<1>4. ASSUME NEW p \in Machines, p # m
      PROVE  Once(p)' /\ \A n, k : UnderWay(n, p, k)' <=> UnderWay(n, p, k)
  <2>1. connections'[p] = connections[p] /\ sockets'[p] = sockets[p]
    BY <1>1, <1>2, <1>4
  <2> QED
    BY <2>1, StaysUnderWay DEF OneEach
<1> QED
  BY <1>3, <1>4 DEF Flows

\* A step that brings nothing, and takes no request back, keeps each message single.
LEMMA NothingNew ==
    ASSUME OneEach, NEW Taken, Flows(Taken, {}), LoopIsAhead',
           \A k \in 1..MaxInquiries, m \in Others : Begun(k, m) => Begun(k, m)'
    PROVE  OneEach'
<1>1. \A n, m \in Machines, k \in 1..MaxInquiries :
         UnderWay(n, m, k)' => UnderWay(n, m, k)
  BY DEF Flows
<1>2. Me \in Machines /\ \A m \in Others : m \in Machines
  BY DEF Machines
<1> QED
  BY <1>1, <1>2 DEF Flows, OneEach

\* Each message stays single in every step.
LEMMA NextOneEach == ASSUME Inv, OneEach, [Next]_vars PROVE OneEach'
<1>0. /\ Me \in Machines /\ \A m \in Others : m \in Machines /\ m # Me
      /\ inquiry \in 0..MaxInquiries /\ MaxInquiries \in Nat
  BY InquiryAssumption DEF Machines, Inv, TypeOK
<1>1. CASE \E d \in Drinks : BeginInquiry(d)
  <2>1. /\ UNCHANGED <<connections, sockets>>
        /\ asked' = {} /\ inquiry' = inquiry + 1
    BY <1>1 DEF BeginInquiry, network
  <2>2. \A k \in 1..MaxInquiries, m \in Others : Begun(k, m) => Begun(k, m)'
    BY <1>0, <2>1 DEF Begun
  <2> QED
    BY <2>1, <2>2, NoFlow, NothingNew DEF LoopIsAhead
<1>2. CASE SendToNext
  <2>1. /\ UNCHANGED <<state, inquiry>> /\ state = "BROADCASTING_STOCK_REQUEST"
        /\ nextEndpoint \in Nat
    BY <1>2, TableFacts DEF SendToNext, controller, Inv, TypeOK
  <2>2. CASE Flows({}, {}) /\ nextEndpoint' = Len(Table) + 1 /\ asked' = asked
    <3>1. LoopIsAhead'
      BY <2>2, TableFacts DEF LoopIsAhead
    <3>2. \A k \in 1..MaxInquiries, m \in Others : Begun(k, m) => Begun(k, m)'
      BY <2>1, <2>2 DEF Begun
    <3> QED
      BY <2>2, <3>1, <3>2, NothingNew
  <2>3. CASE \E m \in Others \ asked :
                /\ m = Table[nextEndpoint] /\ nextEndpoint' = nextEndpoint + 1
                /\ asked' = asked \cup {m}
                /\ Flows({}, {<<Me, m, inquiry>>})
    <3>1. PICK m \in Others \ asked :
             /\ m = Table[nextEndpoint] /\ nextEndpoint' = nextEndpoint + 1
             /\ asked' = asked \cup {m}
             /\ Flows({}, {<<Me, m, inquiry>>})
      BY <2>3
    <3>2. LoopIsAhead'
      <4> SUFFICES ASSUME NEW i \in DOMAIN Table, i >= nextEndpoint + 1
                   PROVE  Table[i] \notin asked \cup {m}
        BY <3>1 DEF LoopIsAhead
      <4>1. i \in Nat /\ nextEndpoint \in DOMAIN Table /\ i # nextEndpoint /\ i >= nextEndpoint
        BY <2>1, TableFacts, <1>2 DEF SendToNext, Inv, TypeOK
      <4>2. Table[i] # m
        BY <3>1, <4>1, InquiryAssumption
      <4>3. Table[i] \notin asked
        BY <2>1, <4>1 DEF OneEach, LoopIsAhead
      <4> QED
        BY <4>2, <4>3
    <3>3. ASSUME NEW k \in 1..MaxInquiries, NEW n \in Others
          PROVE  Begun(k, n)' <=> Begun(k, n) \/ (k = inquiry /\ n = m)
      BY <2>1, <3>1 DEF Begun
    <3>4. ~Begun(inquiry, m)
      BY <1>0, <3>1 DEF Begun
    <3>5. ASSUME NEW k \in 1..MaxInquiries, NEW n \in Others
          PROVE  /\ UnderWay(Me, n, k)' <=> UnderWay(Me, n, k) \/ (k = inquiry /\ n = m)
                 /\ UnderWay(n, Me, k)' <=> UnderWay(n, Me, k)
      BY <1>0, <3>1 DEF Flows
    <3>6. ASSUME NEW k \in 1..MaxInquiries, NEW n \in Others
          PROVE  /\ (UnderWay(Me, n, k) \/ UnderWay(n, Me, k) => Begun(k, n))'
                 /\ ~(UnderWay(Me, n, k) /\ UnderWay(n, Me, k))'
      BY <3>3, <3>4, <3>5 DEF OneEach
    <3> QED
      BY <3>1, <3>2, <3>6 DEF OneEach, Flows
  <2> QED
    BY <1>2, <2>2, <2>3, SendFlow
<1>3. CASE AwaitResponses \/ OfferNearest \/ HandleTimeout \/ ReturnToMenu
           \/ StayAtMenu \/ UNCHANGED vars
           \/ (\E m \in Others : Start(m))
           \/ \E m \in Others, d \in Drinks : SellLast(m, d)
  <2>1. /\ UNCHANGED <<connections, sockets, asked, inquiry, nextEndpoint>>
        /\ state' = "BROADCASTING_STOCK_REQUEST" => state' = state
    BY <1>3
       DEF AwaitResponses, OfferNearest, HandleTimeout, ReturnToMenu, StayAtMenu,
           Start, SellLast, vars, network, history, controller
  <2> QED
    BY <2>1, NoFlow, NothingNew DEF LoopIsAhead, Begun, OneEach
<1>4. CASE \E m \in Machines : Accept(m)
  <2>1. PICK m \in Machines : Accept(m)
    BY <1>4
  <2>2. UNCHANGED <<asked, inquiry, nextEndpoint, state>>
    BY <2>1 DEF Accept, history, controller
  <2> QED
    BY <2>1, <2>2, AcceptFlow, NothingNew DEF LoopIsAhead, Begun, OneEach
<1>5. CASE \E m \in Machines : \E q \in sockets[m] :
              Read(m, q) /\ q.type = "REQ_STOCK" /\ OnReqStockReceived(m, q)
  <2>0. PICK m \in Machines : \E q \in sockets[m] :
               Read(m, q) /\ q.type = "REQ_STOCK" /\ OnReqStockReceived(m, q)
    BY <1>5
  <2>1. PICK q \in sockets[m] :
             Read(m, q) /\ q.type = "REQ_STOCK" /\ OnReqStockReceived(m, q)
    BY <2>0
  <2>2. UNCHANGED <<asked, inquiry, nextEndpoint, state>>
    BY <2>1 DEF OnReqStockReceived, history, controller
  <2>3. /\ m \in Others /\ q.inquiry \in 1..MaxInquiries
        /\ UnderWay(Me, m, q.inquiry)
        /\ Flows({<<Me, m, q.inquiry>>}, {<<m, Me, q.inquiry>>})
    BY <2>1, RequestFlow
  <2>4. ASSUME NEW k \in 1..MaxInquiries, NEW n \in Others
        PROVE  /\ UnderWay(Me, n, k)' <=>
                     UnderWay(Me, n, k) /\ ~(n = m /\ k = q.inquiry)
               /\ UnderWay(n, Me, k)' <=>
                     UnderWay(n, Me, k) \/ (n = m /\ k = q.inquiry)
    BY <1>0, <2>3 DEF Flows
  <2>5. LoopIsAhead' /\ \A k \in 1..MaxInquiries, n \in Others : Begun(k, n)' <=> Begun(k, n)
    BY <2>2 DEF LoopIsAhead, Begun, OneEach
  <2>6. ASSUME NEW k \in 1..MaxInquiries, NEW n \in Others
        PROVE  /\ (UnderWay(Me, n, k) \/ UnderWay(n, Me, k) => Begun(k, n))'
               /\ ~(UnderWay(Me, n, k) /\ UnderWay(n, Me, k))'
    BY <2>3, <2>4, <2>5 DEF OneEach
  <2> QED
    BY <2>3, <2>5, <2>6 DEF OneEach, Flows
<1>6. CASE \E m \in Machines : \E msg \in sockets[m] :
              Read(m, msg) /\ msg.type = "RESP_STOCK" /\ OnRespStockReceived(msg)
  <2>0. PICK m \in Machines : \E msg \in sockets[m] :
               Read(m, msg) /\ msg.type = "RESP_STOCK" /\ OnRespStockReceived(msg)
    BY <1>6
  <2>1. PICK msg \in sockets[m] :
             Read(m, msg) /\ msg.type = "RESP_STOCK" /\ OnRespStockReceived(msg)
    BY <2>0
  <2>2. /\ UNCHANGED <<asked, inquiry, nextEndpoint>>
        /\ state' = "BROADCASTING_STOCK_REQUEST" => state' = state
    BY <2>1 DEF OnRespStockReceived, WriteOptions
  <2>3. Flows({<<msg.src, Me, msg.inquiry>>}, {})
    BY <2>1, ResponseFlow
  <2> QED
    BY <2>2, <2>3, NothingNew DEF LoopIsAhead, Begun, OneEach
<1>7. CASE \E m \in Others : Stop(m)
  <2>1. PICK m \in Others : Stop(m)
    BY <1>7
  <2>2. UNCHANGED <<asked, inquiry, nextEndpoint, state>>
    BY <2>1 DEF Stop, history, controller
  <2>3. Flows(Machines \X {m} \X (1..MaxInquiries), {})
    BY <2>1, StopFlow
  <2> QED
    BY <2>2, <2>3, NothingNew DEF LoopIsAhead, Begun, OneEach
<1> QED
  BY <1>1, <1>2, <1>3, <1>4, <1>5, <1>6, <1>7 DEF Next, MainThread, IoThread, Handle

\* Each message is single in all reachable states.
LEMMA SingleMessages == Spec => []OneEach
<1>1. Init => OneEach
  BY DEF Init, OneEach, Once, LoopIsAhead, UnderWay, Machines
<1>2. Inv /\ OneEach /\ [Next]_vars => OneEach'
  BY NextOneEach
<1> QED
  BY <1>1, <1>2, Invariance, PTL DEF Spec

\* What the network may lose in a step, for one machine and inquiry.
KeptOrHandled(m, k) ==
    /\ UnderWay(Me, m, k) /\ m \in up' => UnderWay(Me, m, k)' \/ UnderWay(m, Me, k)'
    /\ UnderWay(m, Me, k) =>
          \/ UnderWay(m, Me, k)'
          \/ \E msg \in sockets[Me] \ sockets'[Me] :
                /\ msg.src = m /\ msg.inquiry = k
                /\ msg.drink = pendingDrink /\ msg.hasStock => Listed(m)'

\* The offer that is handled is listed, now or before.
LEMMA OfferIsListed ==
    ASSUME TypeOK, NEW msg, msg.src \in Others, OnRespStockReceived(msg),
           msg.drink = pendingDrink, msg.hasStock
    PROVE  Listed(msg.src)'
<1> DEFINE a == availableOtherVms
<1>1. a \in Seq(Others)
  BY DEF TypeOK
<1>2. CASE Counts(msg)
  <2>1. a' = Append(a, msg.src)
    BY <1>2 DEF OnRespStockReceived
  <2>2. Len(a) + 1 \in DOMAIN a' /\ a'[Len(a) + 1] = msg.src
    BY <1>1, <2>1
  <2> QED
    BY <2>2 DEF Listed
<1>3. CASE ~Counts(msg)
  BY <1>3 DEF OnRespStockReceived, Counts, Listed
<1> QED
  BY <1>2, <1>3

\* A request is kept, answered, or gone with the machine that stops; an answer is
\* kept or handled, and an offer of the drink in hand is on the list then.
THEOREM NothingGetsLost == Spec => NothingIsLost
<1> DEFINE Kept == \A m \in Others, k \in 1..MaxInquiries : KeptOrHandled(m, k)
<1>1. Inv /\ OneEach /\ [Next]_vars => Kept
  <2> SUFFICES ASSUME Inv, OneEach, [Next]_vars,
                      NEW m \in Others, NEW k \in 1..MaxInquiries
               PROVE  KeptOrHandled(m, k)
    OBVIOUS
  <2>0. m \in Machines /\ Me \in Machines /\ m # Me
    BY InquiryAssumption DEF Machines
  <2>1. ASSUME NEW Brought, Flows({}, Brought)
        PROVE  KeptOrHandled(m, k)
    BY <2>0, <2>1 DEF Flows, KeptOrHandled
  <2>2. CASE UNCHANGED <<connections, sockets>>
    BY <2>1, <2>2, NoFlow
  <2>3. CASE SendToNext
    BY <2>1, <2>3, SendFlow
  <2>4. CASE \E p \in Machines : Accept(p)
    BY <2>1, <2>4, AcceptFlow
  <2>5. CASE \E p \in Machines : \E q \in sockets[p] :
                Read(p, q) /\ q.type = "REQ_STOCK" /\ OnReqStockReceived(p, q)
    <3>0. PICK p \in Machines : \E q \in sockets[p] :
                 Read(p, q) /\ q.type = "REQ_STOCK" /\ OnReqStockReceived(p, q)
      BY <2>5
    <3>1. PICK q \in sockets[p] :
               Read(p, q) /\ q.type = "REQ_STOCK" /\ OnReqStockReceived(p, q)
      BY <3>0
    <3>2. p \in Others /\ Flows({<<Me, p, q.inquiry>>}, {<<p, Me, q.inquiry>>})
      BY <3>1, RequestFlow
    <3> QED
      BY <2>0, <3>2 DEF Flows, KeptOrHandled
  <2>6. CASE \E p \in Machines : \E msg \in sockets[p] :
                Read(p, msg) /\ msg.type = "RESP_STOCK" /\ OnRespStockReceived(msg)
    <3>0. PICK p \in Machines : \E msg \in sockets[p] :
                 Read(p, msg) /\ msg.type = "RESP_STOCK" /\ OnRespStockReceived(msg)
      BY <2>6
    <3>1. PICK msg \in sockets[p] :
               Read(p, msg) /\ msg.type = "RESP_STOCK" /\ OnRespStockReceived(msg)
      BY <3>0
    <3>2. /\ msg.src \in Others /\ Flows({<<msg.src, Me, msg.inquiry>>}, {})
      BY <3>1, ResponseFlow
    <3>3. p = Me
      BY <3>1, ReadFacts DEF Inv, TypeOK, Inbox, Messages, Read
    <3>4. msg \in sockets[Me] \ sockets'[Me]
      BY <2>0, <3>1, <3>3 DEF Read, Inv, TypeOK
    <3>5. msg.drink = pendingDrink /\ msg.hasStock => Listed(msg.src)'
      BY <3>1, <3>2, OfferIsListed DEF Inv
    <3> QED
      BY <2>0, <3>2, <3>4, <3>5 DEF Flows, KeptOrHandled
  <2>7. CASE \E p \in Others : Stop(p)
    <3>1. PICK p \in Others : Stop(p)
      BY <2>7
    <3>2. Flows(Machines \X {p} \X (1..MaxInquiries), {})
      BY <3>1, StopFlow
    <3>3. p # Me /\ p \notin up'
      BY <3>1, InquiryAssumption DEF Stop, Machines
    <3> QED
      BY <2>0, <3>2, <3>3 DEF Flows, KeptOrHandled
  <2> QED
    BY <2>2, <2>3, <2>4, <2>5, <2>6, <2>7
       DEF Next, MainThread, IoThread, Handle, BeginInquiry, AwaitResponses, OfferNearest,
           HandleTimeout, ReturnToMenu, StayAtMenu, Start, SellLast, network, vars
<1>2. Spec => [][Kept]_vars
  BY <1>1, Invariance, SingleMessages, PTL DEF Spec
<1> QED
  BY <1>2 DEF NothingIsLost, KeptOrHandled

-----------------------------------------------------------------------------
(* The refinement of InquiryExchange *)

\* The mapping gives every inquiry and machine a stage, and an open stage says
\* that the machine has not been asked.
LEMMA StagesOf ==
    ASSUME OneEach
    PROVE  /\ ExchangeOf \in [1..MaxInquiries -> [Others -> Exchange!Stages]]
           /\ \A k \in 1..MaxInquiries, m \in Others :
                 /\ ExchangeOf[k][m] = Stage(k, m)
                 /\ Stage(k, m) = "open" <=> ~Begun(k, m)
  BY DEF ExchangeOf, Stage, Exchange!Stages, OneEach

\* The same of the next state.
LEMMA StagesOfNext ==
    ASSUME OneEach'
    PROVE  /\ ExchangeOf' \in [1..MaxInquiries -> [Others -> Exchange!Stages]]
           /\ \A k \in 1..MaxInquiries, m \in Others :
                 /\ ExchangeOf'[k][m] = Stage(k, m)'
                 /\ Stage(k, m)' = "open" <=> ~Begun(k, m)'
  BY DEF ExchangeOf, Stage, Exchange!Stages, OneEach

\* A step that moves one exchange.
LEMMA OneStage ==
    ASSUME OneEach, OneEach', NEW k0 \in 1..MaxInquiries, NEW m0 \in Others, NEW v,
           Stage(k0, m0)' = v,
           \A k \in 1..MaxInquiries, m \in Others :
              (k = k0 /\ m = m0) \/ Stage(k, m)' = Stage(k, m)
    PROVE  ExchangeOf' = [ExchangeOf EXCEPT ![k0][m0] = v]
<1> DEFINE E == [ExchangeOf EXCEPT ![k0][m0] = v]
<1>1. ASSUME NEW k \in 1..MaxInquiries PROVE ExchangeOf'[k] = E[k]
  <2>1. /\ ExchangeOf'[k] = [m \in Others |-> Stage(k, m)']
        /\ ExchangeOf[k] = [m \in Others |-> Stage(k, m)]
    BY DEF ExchangeOf
  <2>2. CASE k = k0
    <3>1. E[k] = [ExchangeOf[k] EXCEPT ![m0] = v]
      BY <2>2 DEF ExchangeOf
    <3> HIDE DEF E
    <3> QED
      BY <2>1, <2>2, <3>1
  <2>3. CASE k # k0
    <3>1. E[k] = ExchangeOf[k]
      BY <2>3 DEF ExchangeOf
    <3> HIDE DEF E
    <3> QED
      BY <2>1, <2>3, <3>1
  <2> QED
    BY <2>2, <2>3
<1>2. /\ E = [k \in 1..MaxInquiries |-> E[k]]
      /\ ExchangeOf' = [k \in 1..MaxInquiries |-> ExchangeOf'[k]]
  BY DEF ExchangeOf
<1> HIDE DEF E
<1> QED
  BY <1>1, <1>2 DEF E

\* A step in which exchanges are only lost.
LEMMA StagesLost ==
    ASSUME OneEach, OneEach',
           \A k \in 1..MaxInquiries, m \in Others :
              \/ Stage(k, m)' = Stage(k, m)
              \/ Stage(k, m) \in {"open", "asked"} /\ Stage(k, m)' = "over"
    PROVE  Exchange!Lose
  BY StagesOf, StagesOfNext DEF Exchange!Lose

\* Nothing is under way in the beginning, and no machine has been asked.
LEMMA ExchangeInit == Init => Exchange!Init
  BY DEF Init, Exchange!Init, ExchangeOf, Stage, UnderWay, Begun, Machines

\* An inquiry passes the machines over that the one before has not asked.
LEMMA BeginLoses ==
    ASSUME Inv, OneEach, OneEach', NEW d \in Drinks, BeginInquiry(d)
    PROVE  Exchange!Lose
<1>1. /\ UNCHANGED <<connections, sockets>>
      /\ asked' = {} /\ inquiry' = inquiry + 1 /\ inquiry \in Nat
  BY DEF BeginInquiry, network, Inv, TypeOK
<1>2. Flows({}, {})
  BY <1>1, NoFlow
<1>3. ASSUME NEW k \in 1..MaxInquiries, NEW m \in Others
      PROVE  \/ Stage(k, m)' = Stage(k, m)
             \/ Stage(k, m) \in {"open", "asked"} /\ Stage(k, m)' = "over"
  <2>1. /\ UnderWay(Me, m, k)' <=> UnderWay(Me, m, k)
        /\ UnderWay(m, Me, k)' <=> UnderWay(m, Me, k)
    BY <1>2 DEF Flows, Machines
  <2>2. Begun(k, m) => Begun(k, m)'
    BY <1>1 DEF Begun
  <2> QED
    BY <2>1, <2>2 DEF Stage
<1> QED
  BY <1>3, StagesLost

\* A machine that stops loses the requests it has; answers are not there.
LEMMA StopLoses ==
    ASSUME Inv, OneEach, OneEach', NEW p \in Others, Stop(p)
    PROVE  Exchange!Lose
<1>1. UNCHANGED <<asked, inquiry>>
  BY DEF Stop, history
<1>2. Flows(Machines \X {p} \X (1..MaxInquiries), {})
  BY StopFlow
<1>3. ASSUME NEW k \in 1..MaxInquiries, NEW m \in Others
      PROVE  \/ Stage(k, m)' = Stage(k, m)
             \/ Stage(k, m) \in {"open", "asked"} /\ Stage(k, m)' = "over"
  <2>1. Me \in Machines /\ m \in Machines /\ p # Me
    BY InquiryAssumption DEF Machines
  <2>2. /\ UnderWay(Me, m, k)' => UnderWay(Me, m, k)
        /\ UnderWay(m, Me, k)' <=> UnderWay(m, Me, k)
    BY <1>2, <2>1 DEF Flows
  <2>3. Begun(k, m)' <=> Begun(k, m)
    BY <1>1 DEF Begun
  <2>4. UnderWay(Me, m, k) => Begun(k, m)
    BY DEF OneEach
  <2> QED
    BY <2>2, <2>3, <2>4 DEF Stage
<1> QED
  BY <1>3, StagesLost

\* A turn of the loop asks one machine, or none.
LEMMA SendAsks ==
    ASSUME Inv, OneEach, OneEach', SendToNext
    PROVE  \/ UNCHANGED ExchangeOf
           \/ \E k \in 1..MaxInquiries, m \in Others : Exchange!Ask(k, m)
<1>1. /\ UNCHANGED inquiry /\ inquiry \in 1..MaxInquiries
      /\ Me \in Machines /\ \A m \in Others : m \in Machines /\ m # Me
  BY InquiryAssumption DEF SendToNext, Inv, InHand, Machines
<1>2. CASE Flows({}, {}) /\ asked' = asked
  <2>1. ASSUME NEW k \in 1..MaxInquiries, NEW m \in Others
        PROVE  Stage(k, m)' = Stage(k, m)
    BY <1>1, <1>2 DEF Stage, Begun, Flows
  <2> QED
    BY <2>1 DEF ExchangeOf
<1>3. CASE \E m \in Others \ asked :
              asked' = asked \cup {m} /\ Flows({}, {<<Me, m, inquiry>>})
  <2>1. PICK p \in Others \ asked :
           asked' = asked \cup {p} /\ Flows({}, {<<Me, p, inquiry>>})
    BY <1>3
  <2>2. PICK k0 \in 1..MaxInquiries : k0 = inquiry
    BY <1>1
  <2>3. ASSUME NEW k \in 1..MaxInquiries, NEW m \in Others
        PROVE  /\ UnderWay(Me, m, k)' <=> UnderWay(Me, m, k) \/ (k = k0 /\ m = p)
               /\ UnderWay(m, Me, k)' <=> UnderWay(m, Me, k)
               /\ Begun(k, m)' <=> Begun(k, m) \/ (k = k0 /\ m = p)
    <3>1. /\ UnderWay(Me, m, k)' <=> UnderWay(Me, m, k) \/ (k = k0 /\ m = p)
          /\ UnderWay(m, Me, k)' <=> UnderWay(m, Me, k)
      BY <1>1, <2>1, <2>2 DEF Flows
    <3>2. Begun(k, m)' <=> Begun(k, m) \/ (k = k0 /\ m = p)
      BY <1>1, <2>1, <2>2 DEF Begun
    <3> QED
      BY <3>1, <3>2
  <2>4. ~Begun(k0, p) /\ \A k \in 1..MaxInquiries, m \in Others : k > k0 => ~Begun(k, m)
    BY <2>1, <2>2 DEF Begun
  <2>5. ~UnderWay(p, Me, k0)
    BY <2>4 DEF OneEach
  <2>6. Stage(k0, p)' = "asked"
    BY <2>3, <2>5 DEF Stage
  <2>7. \A k \in 1..MaxInquiries, m \in Others :
           (k = k0 /\ m = p) \/ Stage(k, m)' = Stage(k, m)
    BY <2>3 DEF Stage
  <2>8. ExchangeOf' = [ExchangeOf EXCEPT ![k0][p] = "asked"]
    BY <2>6, <2>7, OneStage
  <2>9. /\ ExchangeOf[k0][p] = "open"
        /\ \A k \in 1..MaxInquiries, m \in Others : k > k0 => ExchangeOf[k][m] = "open"
    BY <2>4, StagesOf
  <2> QED
    BY <2>8, <2>9 DEF Exchange!Ask
<1> QED
  BY <1>2, <1>3, SendFlow

\* The handler of a request answers it.
LEMMA RequestAnswers ==
    ASSUME Inv, OneEach, OneEach', NEW p \in Machines, NEW q, Read(p, q),
           q.type = "REQ_STOCK", OnReqStockReceived(p, q)
    PROVE  \E k \in 1..MaxInquiries, m \in Others : Exchange!Answer(k, m)
<1>1. UNCHANGED <<asked, inquiry>>
  BY DEF OnReqStockReceived, history
<1>2. /\ p \in Others /\ q.inquiry \in 1..MaxInquiries
      /\ UnderWay(Me, p, q.inquiry)
      /\ Flows({<<Me, p, q.inquiry>>}, {<<p, Me, q.inquiry>>})
  BY RequestFlow
<1>3. PICK k0 \in 1..MaxInquiries : k0 = q.inquiry
  BY <1>2
<1>4. ASSUME NEW k \in 1..MaxInquiries, NEW m \in Others
      PROVE  /\ UnderWay(Me, m, k)' <=> UnderWay(Me, m, k) /\ ~(k = k0 /\ m = p)
             /\ UnderWay(m, Me, k)' <=> UnderWay(m, Me, k) \/ (k = k0 /\ m = p)
             /\ Begun(k, m)' <=> Begun(k, m)
  <2>1. Me \in Machines /\ m \in Machines /\ m # Me
    BY InquiryAssumption DEF Machines
  <2>2. /\ UnderWay(Me, m, k)' <=> UnderWay(Me, m, k) /\ ~(k = k0 /\ m = p)
        /\ UnderWay(m, Me, k)' <=> UnderWay(m, Me, k) \/ (k = k0 /\ m = p)
    BY <1>2, <1>3, <2>1 DEF Flows
  <2>3. Begun(k, m)' <=> Begun(k, m)
    BY <1>1 DEF Begun
  <2> QED
    BY <2>2, <2>3
<1>5. Stage(k0, p)' = "answered"
  BY <1>2, <1>4 DEF Stage
<1>6. \A k \in 1..MaxInquiries, m \in Others :
         (k = k0 /\ m = p) \/ Stage(k, m)' = Stage(k, m)
  BY <1>4 DEF Stage
<1>7. ExchangeOf' = [ExchangeOf EXCEPT ![k0][p] = "answered"]
  BY <1>2, <1>5, <1>6, OneStage
<1>8. ExchangeOf[k0][p] = "asked"
  <2>1. UnderWay(Me, p, k0) /\ ~UnderWay(p, Me, k0)
    BY <1>2, <1>3 DEF OneEach
  <2> QED
    BY <1>2, <2>1 DEF ExchangeOf, Stage
<1> QED
  BY <1>2, <1>7, <1>8 DEF Exchange!Answer

\* The handler of an answer ends its exchange.
LEMMA ResponseIsReceived ==
    ASSUME Inv, OneEach, OneEach', NEW r \in Machines, NEW msg, Read(r, msg),
           msg.type = "RESP_STOCK", OnRespStockReceived(msg)
    PROVE  \E k \in 1..MaxInquiries, m \in Others : Exchange!Receive(k, m)
<1>1. UNCHANGED <<asked, inquiry>>
  BY DEF OnRespStockReceived
<1>2. /\ msg.src \in Others /\ msg.inquiry \in 1..MaxInquiries
      /\ UnderWay(msg.src, Me, msg.inquiry)
      /\ Flows({<<msg.src, Me, msg.inquiry>>}, {})
  BY ResponseFlow
<1>3. PICK k0 \in 1..MaxInquiries, p \in Others : k0 = msg.inquiry /\ p = msg.src
  BY <1>2
<1>4. ASSUME NEW k \in 1..MaxInquiries, NEW m \in Others
      PROVE  /\ UnderWay(Me, m, k)' <=> UnderWay(Me, m, k)
             /\ UnderWay(m, Me, k)' <=> UnderWay(m, Me, k) /\ ~(k = k0 /\ m = p)
             /\ Begun(k, m)' <=> Begun(k, m)
  <2>1. Me \in Machines /\ m \in Machines /\ m # Me
    BY InquiryAssumption DEF Machines
  <2>2. /\ UnderWay(Me, m, k)' <=> UnderWay(Me, m, k)
        /\ UnderWay(m, Me, k)' <=> UnderWay(m, Me, k) /\ ~(k = k0 /\ m = p)
    BY <1>2, <1>3, <2>1 DEF Flows
  <2>3. Begun(k, m)' <=> Begun(k, m)
    BY <1>1 DEF Begun
  <2> QED
    BY <2>2, <2>3
<1>5. UnderWay(p, Me, k0) /\ ~UnderWay(Me, p, k0) /\ Begun(k0, p)
  BY <1>2, <1>3 DEF OneEach
<1>6. Stage(k0, p)' = "over"
  BY <1>4, <1>5 DEF Stage
<1>7. \A k \in 1..MaxInquiries, m \in Others :
         (k = k0 /\ m = p) \/ Stage(k, m)' = Stage(k, m)
  BY <1>4 DEF Stage
<1>8. ExchangeOf' = [ExchangeOf EXCEPT ![k0][p] = "over"]
  BY <1>6, <1>7, OneStage
<1>9. ExchangeOf[k0][p] = "answered"
  BY <1>5 DEF ExchangeOf, Stage
<1> QED
  BY <1>8, <1>9 DEF Exchange!Receive

\* Other steps leave every exchange where it is.
LEMMA NothingMoves ==
    ASSUME Flows({}, {}), UNCHANGED <<asked, inquiry>>
    PROVE  UNCHANGED ExchangeOf
<1>1. ASSUME NEW k \in 1..MaxInquiries, NEW m \in Others
      PROVE  Stage(k, m)' = Stage(k, m)
  <2>1. Me \in Machines /\ m \in Machines
    BY DEF Machines
  <2> QED
    BY <2>1 DEF Stage, Begun, Flows
<1> QED
  BY <1>1 DEF ExchangeOf

\* Every step is a step of the exchange, or none.
LEMMA ExchangeStep ==
    ASSUME Inv, OneEach, OneEach', [Next]_vars
    PROVE  [Exchange!Next]_ExchangeOf
<1>1. CASE \E d \in Drinks : BeginInquiry(d)
  BY <1>1, BeginLoses DEF Exchange!Next
<1>2. CASE SendToNext
  BY <1>2, SendAsks DEF Exchange!Next
<1>3. CASE AwaitResponses \/ OfferNearest \/ HandleTimeout \/ ReturnToMenu
           \/ StayAtMenu \/ UNCHANGED vars
           \/ (\E m \in Others : Start(m))
           \/ \E m \in Others, d \in Drinks : SellLast(m, d)
  <2>1. UNCHANGED <<connections, sockets, asked, inquiry>>
    BY <1>3
       DEF AwaitResponses, OfferNearest, HandleTimeout, ReturnToMenu, StayAtMenu,
           Start, SellLast, vars, network, history
  <2> QED
    BY <2>1, NoFlow, NothingMoves
<1>4. CASE \E m \in Machines : Accept(m)
  <2>1. Flows({}, {}) /\ UNCHANGED <<asked, inquiry>>
    BY <1>4, AcceptFlow DEF Accept, history
  <2> QED
    BY <2>1, NothingMoves
<1>5. CASE \E m \in Machines : \E q \in sockets[m] :
              Read(m, q) /\ q.type = "REQ_STOCK" /\ OnReqStockReceived(m, q)
  BY <1>5, RequestAnswers DEF Exchange!Next
<1>6. CASE \E m \in Machines : \E msg \in sockets[m] :
              Read(m, msg) /\ msg.type = "RESP_STOCK" /\ OnRespStockReceived(msg)
  BY <1>6, ResponseIsReceived DEF Exchange!Next
<1>7. CASE \E m \in Others : Stop(m)
  BY <1>7, StopLoses DEF Exchange!Next
<1> QED
  BY <1>1, <1>2, <1>3, <1>4, <1>5, <1>6, <1>7 DEF Next, MainThread, IoThread, Handle

\* Sender and receiver implement the exchange: whatever stops and starts, each
\* request and answer is sent, delivered and handled at most once.
THEOREM ImplementsExchange == Spec => FollowsExchange
<1>1. Inv /\ OneEach /\ OneEach' /\ [Next]_vars => [Exchange!Next]_ExchangeOf
  BY ExchangeStep
<1> QED
  BY ExchangeInit, <1>1, Invariance, SingleMessages, PTL
     DEF Spec, FollowsExchange, Exchange!Spec

\* What the refinement is good for: once a request is lost or its answer handled,
\* no message of that inquiry is under way with that machine again.
THEOREM NothingComesAgain ==
    Spec => [][\A k \in 1..MaxInquiries, m \in Others :
                  ExchangeOf[k][m] = "over" => ExchangeOf'[k][m] = "over"]_ExchangeOf
<1> DEFINE Final == \A k \in 1..MaxInquiries, m \in Others :
                       ExchangeOf[k][m] = "over" => ExchangeOf'[k][m] = "over"
<1>1. OneEach /\ OneEach' /\ [Exchange!Next]_ExchangeOf => [Final]_ExchangeOf
  <2> SUFFICES ASSUME OneEach, OneEach', Exchange!Next,
                      NEW k \in 1..MaxInquiries, NEW m \in Others,
                      ExchangeOf[k][m] = "over"
               PROVE  ExchangeOf'[k][m] = "over"
    OBVIOUS
  <2>1. ExchangeOf \in [1..MaxInquiries -> [Others -> Exchange!Stages]]
    BY StagesOf
  <2>2. CASE Exchange!Lose
    BY <2>2 DEF Exchange!Lose
  <2>3. ASSUME NEW j \in 1..MaxInquiries, NEW n \in Others, NEW v,
               ExchangeOf[j][n] # "over",
               ExchangeOf' = [ExchangeOf EXCEPT ![j][n] = v]
        PROVE  ExchangeOf'[k][m] = "over"
    BY <2>1, <2>3
  <2> QED
    BY <2>2, <2>3 DEF Exchange!Next, Exchange!Ask, Exchange!Answer, Exchange!Receive
<1> QED
  BY <1>1, ImplementsExchange, SingleMessages, PTL DEF FollowsExchange, Exchange!Spec
=============================================================================
