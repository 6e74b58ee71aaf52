------------------------ MODULE ConfirmPromptProofs ------------------------
(***************************************************************************)
(* Proofs about ConfirmPrompt: what a prompt has stored and which threads  *)
(* are left when it comes back.                                            *)
(***************************************************************************)
EXTENDS ConfirmPrompt, FiniteSetTheorems, TLAPS

\* While the main thread is inside a prompt, that prompt has no result.
InsideAPrompt ==
    main \in {"reading", "waiting", "joining", "hung"} =>
        current \in DOMAIN calls /\ calls[current].result = "none"

\* The bounds the types speak of.
WithinBounds == Len(calls) <= MaxCalls /\ typed.yes <= typed.lines

\* The inductive invariant.
Inv == /\ TypeOK /\ InsideAPrompt /\ WithinBounds
       /\ AnswersLeaveNoThread /\ AnswersInTimeCount

\* The calls before and after a step, as functions.
LEMMA CallsFunction ==
    ASSUME TypeOK
    PROVE  /\ calls \in [DOMAIN calls -> Calls]
           /\ DOMAIN calls = 1..Len(calls)
           /\ current \in Nat
           /\ \A e \in [DOMAIN calls -> Calls] : e \in Seq(Calls) /\ Len(e) = Len(calls)
<1>1. calls \in Seq(Calls)
  BY DEF TypeOK
<1>2. Len(calls) \in Nat /\ DOMAIN calls = 1..Len(calls) /\ calls \in [DOMAIN calls -> Calls]
  BY <1>1
<1>3. ASSUME NEW e \in [DOMAIN calls -> Calls] PROVE e \in Seq(Calls) /\ Len(e) = Len(calls)
  BY <1>2, <1>3
<1> QED
  BY <1>2, <1>3 DEF current

\* What a step that shows no prompt must do to keep the invariant: the calls keep
\* their types; results are given to the prompt in hand only, an answer when its
\* thread has ended, a time-out when nothing is stored; a thread that has ended stays
\* so, and a prompt with a result stores nothing.
SafeStep ==
    /\ calls' \in [DOMAIN calls -> Calls]
    /\ \A k \in DOMAIN calls :
         /\ calls'[k].result # calls[k].result =>
               /\ k = current /\ main' = "idle"
               /\ calls'[k].result \in {"yes", "no"} => calls'[k].reader = "ended"
               /\ calls'[k].result = "timeout" => ~calls'[k].ready
         /\ calls[k].reader = "ended" => calls'[k].reader = "ended"
         /\ calls'[k].ready # calls[k].ready => calls[k].result = "none"
    /\ main' \in {main, "idle", "crashed"}
         \/ /\ main = "waiting" /\ main' \in {"joining", "hung"}

\* Such a step keeps the invariant, whatever it does to lines.
LEMMA SafeStepInv ==
    ASSUME Inv, SafeStep,
           stdin' \in Seq(Texts),
           typed' \in [lines : 0..MaxLines, yes : 0..MaxLines], typed'.yes <= typed'.lines
    PROVE  Inv'
<1>0. TypeOK /\ InsideAPrompt /\ WithinBounds /\ AnswersLeaveNoThread /\ AnswersInTimeCount
  BY DEF Inv
<1>1. calls' \in Seq(Calls) /\ Len(calls') = Len(calls) /\ DOMAIN calls' = DOMAIN calls
      /\ current' = current
  BY <1>0, CallsFunction DEF SafeStep, current
<1>2. TypeOK'
  BY <1>0, <1>1 DEF TypeOK, SafeStep
<1>3. InsideAPrompt'
  <2>1. CASE main' \in {"reading", "waiting", "joining", "hung"}
    <3>1. main \in {"reading", "waiting", "joining", "hung"}
      BY <2>1 DEF SafeStep
    <3>2. current \in DOMAIN calls /\ calls[current].result = "none"
      BY <1>0, <3>1 DEF InsideAPrompt
    <3>3. calls'[current].result = "none"
      BY <2>1, <3>2 DEF SafeStep
    <3> QED
      BY <1>1, <3>2, <3>3 DEF InsideAPrompt
  <2> QED
    BY <2>1 DEF InsideAPrompt
<1>4. WithinBounds'
  BY <1>0, <1>1 DEF WithinBounds
<1>5. AnswersLeaveNoThread'
  BY <1>0, <1>1 DEF AnswersLeaveNoThread, SafeStep
<1>6. AnswersInTimeCount'
  <2> SUFFICES ASSUME NEW k \in DOMAIN calls, calls'[k].result = "timeout"
               PROVE  ~calls'[k].ready
    BY <1>1 DEF AnswersInTimeCount
  <2>1. CASE calls[k].result = "timeout"
    <3>1. ~calls[k].ready
      BY <1>0, <2>1 DEF AnswersInTimeCount
    <3>2. calls'[k].ready = calls[k].ready
      BY <2>1 DEF SafeStep
    <3> QED
      BY <3>1, <3>2
  <2>2. CASE calls[k].result # "timeout"
    BY <2>2 DEF SafeStep
  <2> QED
    BY <2>1, <2>2
<1> QED
  BY <1>2, <1>3, <1>4, <1>5, <1>6 DEF Inv

-----------------------------------------------------------------------------
\* A new prompt has no result, and nothing stored.
LEMMA ShowInv ==
    ASSUME Inv, NEW p \in TimedPrompts \cup EntryPrompts, Show(p) PROVE Inv'
<1>0. TypeOK /\ WithinBounds /\ AnswersLeaveNoThread /\ AnswersInTimeCount
  BY DEF Inv
<1>1. Locals(p) \in Calls
  BY DEF Locals, Calls, Texts
<1>2. /\ calls' = Append(calls, Locals(p))
      /\ main' \in {"waiting", "reading"}
      /\ UNCHANGED <<stdin, typed>>
      /\ Len(calls) < MaxCalls
  BY DEF Show, current
<1>3. /\ calls' \in Seq(Calls) /\ Len(calls) \in Nat
      /\ DOMAIN calls = 1..Len(calls) /\ DOMAIN calls' = 1..(Len(calls) + 1)
      /\ Len(calls') = Len(calls) + 1
      /\ \A k \in 1..Len(calls) : calls'[k] = calls[k]
      /\ calls'[Len(calls) + 1] = Locals(p)
  BY <1>0, <1>1, <1>2 DEF TypeOK
<1>4. /\ Locals(p).result = "none"
  BY DEF Locals
<1>5. TypeOK'
  BY <1>0, <1>2, <1>3 DEF TypeOK
<1>6. InsideAPrompt'
  BY <1>3, <1>4 DEF InsideAPrompt, current
<1>7. WithinBounds'
  BY <1>0, <1>2, <1>3, PromptAssumption DEF WithinBounds
<1>8. AnswersLeaveNoThread' /\ AnswersInTimeCount'
  BY <1>0, <1>3, <1>4 DEF AnswersLeaveNoThread, AnswersInTimeCount
<1> QED
  BY <1>5, <1>6, <1>7, <1>8 DEF Inv

\* Typing changes no call.
LEMMA TypeInv == ASSUME Inv, NEW t \in Texts, Type(t) PROVE Inv'
<1>0. TypeOK /\ WithinBounds
  BY DEF Inv
<1>1. SafeStep
  BY <1>0, CallsFunction DEF SafeStep, Type
<1>2. stdin' \in Seq(Texts)
  BY <1>0 DEF TypeOK, Type
<1>3. typed' \in [lines : 0..MaxLines, yes : 0..MaxLines] /\ typed'.yes <= typed'.lines
  BY <1>0, PromptAssumption DEF TypeOK, WithinBounds, Type
<1> QED
  BY <1>1, <1>2, <1>3, SafeStepInv

\* Characters of several lines make up a text again.
LEMMA JoinedText == \A s, t \in Texts : Joined(s, t) \in Texts
  BY DEF Joined, Texts

\* What is left of a queue, and what is taken from it, has the type of its elements.
LEMMA HeadAndTail ==
    ASSUME NEW S, NEW q \in Seq(S), q # <<>>
    PROVE  Head(q) \in S /\ Tail(q) \in Seq(S)
  OBVIOUS

\* Reading touches neither results nor what is stored.
LEMMA ReadLineInv ==
    ASSUME Inv, NEW k \in Readers, NEW other \in Readers, ReadLine(k, other) PROVE Inv'
<1>0. TypeOK /\ WithinBounds
  BY DEF Inv
<1> DEFINE got == [calls EXCEPT ![other].line = Joined(@, Head(stdin))]
<1>1. /\ calls' = [got EXCEPT ![k].reader = "read"]
      /\ stdin # <<>> /\ stdin' = Tail(stdin) /\ UNCHANGED <<main, typed>>
  BY DEF ReadLine
<1>2. /\ k \in DOMAIN calls /\ other \in DOMAIN calls /\ calls[k].reader = "reading"
  BY DEF Readers
<1>3. Head(stdin) \in Texts
      /\ stdin' \in Seq(Texts)
  <2>1. stdin \in Seq(Texts) /\ stdin # <<>>
    BY <1>0, <1>1 DEF TypeOK
  <2> QED
    BY <1>1, <2>1, HeadAndTail
<1>4. Joined(calls[other].line, Head(stdin)) \in Texts
  BY <1>0, <1>2, <1>3, CallsFunction, JoinedText DEF Calls
<1>5. got \in [DOMAIN calls -> Calls]
      /\ \A j \in DOMAIN calls : /\ got[j].result = calls[j].result
                                 /\ got[j].reader = calls[j].reader
                                 /\ got[j].ready = calls[j].ready
  BY <1>0, <1>2, <1>4, CallsFunction DEF Calls
<1> HIDE DEF got
<1>6. /\ calls' \in [DOMAIN calls -> Calls]
      /\ \A j \in DOMAIN calls : /\ calls'[j].result = calls[j].result
                                 /\ calls'[j].ready = calls[j].ready
                                 /\ calls[j].reader = "ended" => calls'[j].reader = "ended"
  <2> DEFINE r == [got[k] EXCEPT !.reader = "read"]
  <2>1. r \in Calls /\ r.result = got[k].result /\ r.ready = got[k].ready
    BY <1>2, <1>5 DEF Calls
  <2>2. calls' = [got EXCEPT ![k] = r]
    BY <1>1, <1>2, <1>5
  <2> HIDE DEF r
  <2> QED
    BY <1>2, <1>5, <2>1, <2>2
<1>7. SafeStep
  BY <1>1, <1>6 DEF SafeStep
<1> QED
  BY <1>0, <1>1, <1>3, <1>7, SafeStepInv DEF TypeOK, WithinBounds

\* The steps that touch neither stdin nor what was typed.
LEMMA QuietStepInv == ASSUME Inv, SafeStep, UNCHANGED <<stdin, typed>> PROVE Inv'
<1>1. /\ stdin' \in Seq(Texts)
      /\ typed' \in [lines : 0..MaxLines, yes : 0..MaxLines] /\ typed'.yes <= typed'.lines
  BY DEF Inv, TypeOK, WithinBounds
<1> QED
  BY <1>1, SafeStepInv

\* A prompt without a time-out returns an entry, or reads again.
LEMMA TakeEntryInv == ASSUME Inv, TakeEntry PROVE Inv'
<1>0. TypeOK /\ current \in DOMAIN calls /\ calls[current].result = "none"
      /\ calls[current].reader = "read" /\ UNCHANGED <<stdin, typed>>
  BY DEF Inv, InsideAPrompt, TakeEntry
<1>1. CASE /\ calls' = [calls EXCEPT ![current].result = "entry",
                                     ![current].reader = "ended"]
           /\ main' = "idle"
  <2>1. SafeStep
    BY <1>0, <1>1, CallsFunction DEF SafeStep, Calls
  <2> QED
    BY <1>0, <2>1, QuietStepInv
<1>2. CASE /\ calls' = [calls EXCEPT ![current].line = "", ![current].reader = "reading"]
           /\ main' = main
  <2> DEFINE r == [calls[current] EXCEPT !.line = "", !.reader = "reading"]
  <2>1. r \in Calls
    BY <1>0, CallsFunction DEF Calls, Texts
  <2>2. calls' = [calls EXCEPT ![current] = r]
    BY <1>0, <1>2, CallsFunction
  <2>3. r.result = "none" /\ r.ready = calls[current].ready
    BY <1>0, CallsFunction DEF Calls
  <2> HIDE DEF r
  <2>4. SafeStep
    BY <1>0, <1>2, <2>1, <2>2, <2>3, CallsFunction DEF SafeStep
  <2> QED
    BY <1>0, <2>4, QuietStepInv
<1> QED
  BY <1>1, <1>2 DEF TakeEntry

\* A thread stores for a prompt that has not come back.
LEMMA StoreInv == ASSUME Inv, NEW k \in DOMAIN calls, Store(k) PROVE Inv'
<1>0. TypeOK /\ calls[k].result = "none"
  BY DEF Inv, Store
<1> DEFINE r == [calls[k] EXCEPT !.userInput = calls[k].line, !.ready = TRUE,
                                 !.reader = "stored"]
<1>1. r \in Calls /\ r.result = "none"
  BY <1>0, CallsFunction DEF Calls
<1>2. calls' = [calls EXCEPT ![k] = r] /\ calls[k].reader = "read" /\ main' = main
  BY <1>0, CallsFunction DEF Store
<1> HIDE DEF r
<1>3. SafeStep
  BY <1>0, <1>1, <1>2, CallsFunction DEF SafeStep
<1> QED
  BY <1>3, QuietStepInv DEF Store

\* A thread that ends stores nothing more.
LEMMA EndInputInv == ASSUME Inv, NEW k \in DOMAIN calls, EndInput(k) PROVE Inv'
<1>0. TypeOK
  BY DEF Inv
<1>1. SafeStep
  BY <1>0, CallsFunction DEF SafeStep, Calls, EndInput, Set
<1> QED
  BY <1>1, QuietStepInv DEF EndInput

\* Waking leaves the prompt without a result.
LEMMA WakeUpInv == ASSUME Inv, WakeUp PROVE Inv'
<1>0. TypeOK /\ current \in DOMAIN calls
  BY DEF Inv, InsideAPrompt, WakeUp
<1>1. SafeStep
  BY <1>0, CallsFunction DEF SafeStep, Calls, WakeUp, Set
<1> QED
  BY <1>1, QuietStepInv DEF WakeUp

\* An answer is returned when the thread has ended.
LEMMA ReturnAnswerInv == ASSUME Inv, ReturnAnswer PROVE Inv'
<1>0. TypeOK /\ current \in DOMAIN calls /\ calls[current].reader = "ended"
  BY DEF Inv, InsideAPrompt, ReturnAnswer
<1>1. SafeStep
  BY <1>0, CallsFunction DEF SafeStep, Calls, ReturnAnswer, Set
<1> QED
  BY <1>1, QuietStepInv DEF ReturnAnswer

\* A prompt expires with nothing stored.
LEMMA ExpireInv == ASSUME Inv, ExpirePayment \/ ExpirePrepayment PROVE Inv'
<1>0. /\ TypeOK /\ current \in DOMAIN calls /\ main = "waiting"
      /\ ~calls[current].ready /\ UNCHANGED <<stdin, typed>>
  BY DEF Inv, InsideAPrompt, ExpirePayment, ExpirePrepayment, TimeIsUp
<1>1. CASE ExpirePayment
  BY <1>0, <1>1, CallsFunction, QuietStepInv DEF SafeStep, Calls, ExpirePayment, Set
<1>2. CASE ExpirePrepayment
  BY <1>0, <1>2, CallsFunction, QuietStepInv DEF SafeStep, Calls, ExpirePrepayment, Set
<1> QED
  BY <1>1, <1>2

\* A thread left behind may store into the prompt in hand, which has no result yet.
LEMMA LeftBehindInv ==
    ASSUME Inv, NEW k \in DOMAIN calls, StoreNowhere(k) \/ StoreElsewhere(k) PROVE Inv'
<1>0. TypeOK /\ UNCHANGED <<stdin, typed>>
      /\ calls[k].reader = "read" /\ calls[k].result = "timeout"
  BY DEF Inv, StoreNowhere, StoreElsewhere, LeftBehind
<1>1. CASE StoreNowhere(k)
  <2>1. SafeStep
    BY <1>0, <1>1, CallsFunction DEF SafeStep, Calls, StoreNowhere, Set
  <2> QED
    BY <1>0, <2>1, QuietStepInv
<1>2. CASE StoreElsewhere(k)
  <2>1. current \in DOMAIN calls /\ calls[current].result = "none" /\ k # current
        /\ main' = main
    BY <1>0, <1>2 DEF Inv, InsideAPrompt, StoreElsewhere
  <2>2. calls[k].line \in Texts
    BY <1>0, CallsFunction DEF Calls
  <2>3. /\ calls' \in [DOMAIN calls -> Calls]
        /\ \A j \in DOMAIN calls : /\ calls'[j].result = calls[j].result
                                   /\ calls[j].reader = "ended" => calls'[j].reader = "ended"
                                   /\ j # current => calls'[j].ready = calls[j].ready
    <3> DEFINE r == [calls[current] EXCEPT !.userInput = calls[k].line, !.ready = TRUE]
               e == [calls[k] EXCEPT !.reader = "ended"]
    <3>1. r \in Calls /\ r.result = calls[current].result /\ r.reader = calls[current].reader
      BY <1>0, <2>1, <2>2, CallsFunction DEF Calls
    <3>2. e \in Calls /\ e.result = calls[k].result /\ e.reader = "ended"
          /\ e.ready = calls[k].ready
      BY <1>0, CallsFunction DEF Calls
    <3>3. calls' = [calls EXCEPT ![current] = r, ![k] = e]
      BY <1>0, <1>2, <2>1, CallsFunction DEF StoreElsewhere
    <3> HIDE DEF r, e
    <3> QED
      BY <1>0, <2>1, <3>1, <3>2, <3>3, CallsFunction
  <2>4. SafeStep
    BY <1>0, <2>1, <2>3 DEF SafeStep
  <2> QED
    BY <1>0, <2>4, QuietStepInv
<1> QED
  BY <1>1, <1>2

\* The invariant is inductive.
THEOREM Invariance == Spec => []Inv
<1>1. Init => Inv
  <2>1. <<>> \in Seq(Calls) /\ <<>> \in Seq(Texts)
    OBVIOUS
  <2> QED
    BY <2>1, PromptAssumption DEF Init, Inv, TypeOK, InsideAPrompt, WithinBounds,
                                   AnswersLeaveNoThread, AnswersInTimeCount
<1>2. Inv /\ [Next]_vars => Inv'
  <2> SUFFICES ASSUME Inv, [Next]_vars PROVE Inv'
    OBVIOUS
  <2>1. CASE \E p \in TimedPrompts \cup EntryPrompts : Show(p)
    BY <2>1, ShowInv
  <2>2. CASE \E t \in Texts \ {"other"} : Type(t)
    BY <2>2, TypeInv
  <2>3. CASE InputThreads
    BY <2>3, StoreInv, EndInputInv, LeftBehindInv DEF InputThreads
  <2>4. CASE Reading
    BY <2>4, ReadLineInv DEF Reading
  <2>5. CASE MainThread
    BY <2>5, WakeUpInv, ReturnAnswerInv, ExpireInv, TakeEntryInv DEF MainThread
  <2>6. CASE UNCHANGED vars
    BY <2>6 DEF vars, Inv, TypeOK, InsideAPrompt, WithinBounds, current,
                AnswersLeaveNoThread, AnswersInTimeCount
  <2> QED
    BY <2>1, <2>2, <2>3, <2>4, <2>5, <2>6 DEF Next
<1> QED
  BY <1>1, <1>2, PTL DEF Spec

\* Types, for any number of prompts and lines.
THEOREM TypeCorrect == Spec => []TypeOK
<1>1. Inv => TypeOK
  BY DEF Inv
<1> QED
  BY Invariance, <1>1, PTL

\* A prompt that came back with an answer has no thread that could use its locals.
THEOREM NoThreadIsLeft == Spec => []AnswersLeaveNoThread
<1>1. Inv => AnswersLeaveNoThread
  BY DEF Inv
<1> QED
  BY Invariance, <1>1, PTL

\* A prompt that timed out had no answer.
THEOREM NoAnswerIsLost == Spec => []AnswersInTimeCount
<1>1. Inv => AnswersInTimeCount
  BY DEF Inv
<1> QED
  BY Invariance, <1>1, PTL

-----------------------------------------------------------------------------
(* Where a Y can be: in a line that waits, with a reader, or stored.  Lines are  *)
(* numbered as they were typed, so that reading one renumbers none.              *)

LinesRead == typed.lines - Len(stdin)
WaitingYs == {n \in LinesRead + 1..typed.lines : stdin[n - LinesRead] = "Y"}
HeldYs == {k \in DOMAIN calls : calls[k].reader \in {"reading", "read"} /\ calls[k].line = "Y"}
StoredYs == {k \in DOMAIN calls : calls[k].userInput = "Y"}
Yeses == {k \in DOMAIN calls : calls[k].result = "yes"}

\* The strengthening: no Y is in two places.
YesAccounts ==
    /\ Yeses \subseteq StoredYs
    /\ Cardinality(WaitingYs) + Cardinality(HeldYs) + Cardinality(StoredYs) <= typed.yes

\* The three sets are finite.
LEMMA YsAreFinite ==
    ASSUME TypeOK
    PROVE  /\ IsFiniteSet(WaitingYs) /\ IsFiniteSet(HeldYs) /\ IsFiniteSet(StoredYs)
           /\ Cardinality(WaitingYs) \in Nat
           /\ Cardinality(HeldYs) \in Nat
           /\ Cardinality(StoredYs) \in Nat
<1>1. LinesRead + 1 \in Int /\ typed.lines \in Int /\ Len(calls) \in Int
      /\ DOMAIN calls = 1..Len(calls)
  BY CallsFunction DEF TypeOK, LinesRead, current
<1>2. IsFiniteSet(LinesRead + 1..typed.lines) /\ IsFiniteSet(DOMAIN calls)
  <2>1. IsFiniteSet(LinesRead + 1..typed.lines)
    BY <1>1, FS_Interval
  <2>2. IsFiniteSet(1..Len(calls))
    BY <1>1, FS_Interval
  <2> QED
    BY <1>1, <2>1, <2>2
<1>3. /\ WaitingYs \in SUBSET (LinesRead + 1..typed.lines)
      /\ HeldYs \in SUBSET (DOMAIN calls)
      /\ StoredYs \in SUBSET (DOMAIN calls)
  BY DEF WaitingYs, HeldYs, StoredYs
<1>4. IsFiniteSet(WaitingYs) /\ IsFiniteSet(HeldYs) /\ IsFiniteSet(StoredYs)
  BY <1>2, <1>3, FS_Subset
<1> QED
  BY <1>4, FS_CardinalityType

\* One more element adds one at most.
LEMMA OneMore ==
    ASSUME NEW S, NEW x, IsFiniteSet(S)
    PROVE  /\ IsFiniteSet(S \cup {x})
           /\ Cardinality(S \cup {x}) \in Nat
           /\ Cardinality(S \cup {x}) <= Cardinality(S) + 1
<1>1. IsFiniteSet(S \cup {x})
  BY FS_AddElement
<1>2. Cardinality(S) \in Nat /\ Cardinality(S \cup {x}) \in Nat
  BY <1>1, FS_CardinalityType
<1>3. CASE x \in S
  <2>1. S \cup {x} = S
    BY <1>3
  <2> QED
    BY <1>2, <2>1
<1>4. CASE x \notin S
  <2>1. Cardinality(S \cup {x}) = Cardinality(S) + 1
    BY <1>4, FS_AddElement
  <2> QED
    BY <1>1, <1>2, <2>1
<1> QED
  BY <1>1, <1>2, <1>3, <1>4

\* A step that moves no Y to a place of its own.
LEMMA YsMoveNowhere ==
    ASSUME TypeOK, YesAccounts, typed' = typed, WaitingYs' = WaitingYs,
           HeldYs' \subseteq HeldYs, StoredYs' \subseteq StoredYs,
           Yeses' \subseteq StoredYs'
    PROVE  YesAccounts'
<1>1. IsFiniteSet(HeldYs) /\ IsFiniteSet(StoredYs)
      /\ Cardinality(WaitingYs) \in Nat
      /\ Cardinality(HeldYs) \in Nat
      /\ Cardinality(StoredYs) \in Nat
  BY YsAreFinite
<1>2. /\ IsFiniteSet(HeldYs') /\ Cardinality(HeldYs') <= Cardinality(HeldYs)
      /\ IsFiniteSet(StoredYs') /\ Cardinality(StoredYs') <= Cardinality(StoredYs)
  BY <1>1, FS_Subset
<1>3. Cardinality(HeldYs') \in Nat /\ Cardinality(StoredYs') \in Nat
  BY <1>2, FS_CardinalityType
<1> QED
  BY <1>1, <1>2, <1>3 DEF YesAccounts, TypeOK

\* A step that takes a Y from reader k and may store it for j.
LEMMA HeldIsStored ==
    ASSUME TypeOK, YesAccounts, typed' = typed, WaitingYs' = WaitingYs,
           NEW k, NEW j, HeldYs' = HeldYs \ {k},
           StoredYs' \subseteq StoredYs \cup (IF k \in HeldYs THEN {j} ELSE {}),
           Yeses' \subseteq StoredYs'
    PROVE  YesAccounts'
<1>1. IsFiniteSet(HeldYs) /\ IsFiniteSet(StoredYs)
      /\ Cardinality(WaitingYs) \in Nat
      /\ Cardinality(HeldYs) \in Nat
      /\ Cardinality(StoredYs) \in Nat
  BY YsAreFinite
<1>2. CASE k \in HeldYs
  <2>1. Cardinality(HeldYs') = Cardinality(HeldYs) - 1
    BY <1>1, <1>2, FS_RemoveElement
  <2>2. /\ IsFiniteSet(StoredYs \cup {j})
        /\ Cardinality(StoredYs \cup {j}) <= Cardinality(StoredYs) + 1
    BY <1>1, OneMore
  <2>3. StoredYs' \in SUBSET (StoredYs \cup {j})
    BY <1>2
  <2>4. IsFiniteSet(StoredYs') /\ Cardinality(StoredYs') <= Cardinality(StoredYs \cup {j})
    BY <2>2, <2>3, FS_Subset
  <2>5. Cardinality(StoredYs') \in Nat /\ Cardinality(StoredYs \cup {j}) \in Nat
    BY <2>2, <2>4, FS_CardinalityType
  <2> QED
    BY <1>1, <2>1, <2>2, <2>4, <2>5 DEF YesAccounts, TypeOK
<1>3. CASE k \notin HeldYs
  BY <1>3, YsMoveNowhere
<1> QED
  BY <1>2, <1>3

\* What the steps of threads need: stdin as it was.
LEMMA WaitingStays ==
    ASSUME UNCHANGED <<stdin, typed>> PROVE WaitingYs' = WaitingYs /\ typed' = typed
  BY DEF WaitingYs, LinesRead

\* A new prompt has no Y.
LEMMA ShowYs ==
    ASSUME TypeOK, YesAccounts, NEW p \in TimedPrompts \cup EntryPrompts, Show(p)
    PROVE  YesAccounts'
<1>1. /\ Len(calls) \in Nat /\ DOMAIN calls = 1..Len(calls)
      /\ DOMAIN calls' = 1..(Len(calls) + 1)
      /\ \A k \in 1..Len(calls) : calls'[k] = calls[k]
      /\ calls'[Len(calls) + 1] = Locals(p)
  BY DEF TypeOK, Show
<1>2. /\ Locals(p).userInput = "" /\ Locals(p).line = "" /\ Locals(p).result = "none"
  BY DEF Locals
<1>3. /\ \A k \in 1..(Len(calls) + 1) : k \notin 1..Len(calls) =>
            /\ calls'[k].line # "Y"
            /\ calls'[k].userInput # "Y"
            /\ calls'[k].result # "yes"
      /\ \A k \in 1..Len(calls) : k \in 1..(Len(calls) + 1)
  <2>1. \A k \in 1..(Len(calls) + 1) : k \notin 1..Len(calls) => k = Len(calls) + 1
    BY <1>1
  <2>2. /\ calls'[Len(calls) + 1].line # "Y"
        /\ calls'[Len(calls) + 1].userInput # "Y"
        /\ calls'[Len(calls) + 1].result # "yes"
    BY <1>1, <1>2
  <2>3. \A k \in 1..Len(calls) : k \in 1..(Len(calls) + 1)
    BY <1>1
  <2> QED
    BY <2>1, <2>2, <2>3
<1>4. HeldYs' = HeldYs
  BY <1>1, <1>3 DEF HeldYs
<1>5. StoredYs' = StoredYs
  BY <1>1, <1>3 DEF StoredYs
<1>6. Yeses' = Yeses
  BY <1>1, <1>3 DEF Yeses
<1> QED
  BY <1>4, <1>5, <1>6, WaitingStays, YsMoveNowhere DEF Show, YesAccounts

\* What is typed waits at the end of stdin.
LEMMA TypeYs ==
    ASSUME TypeOK, YesAccounts, NEW t \in Texts, Type(t)
    PROVE  YesAccounts'
<1>1. /\ stdin \in Seq(Texts) /\ Len(stdin) \in Nat
      /\ typed.lines \in Nat /\ typed.yes \in Nat
      /\ stdin' = Append(stdin, t) /\ Len(stdin') = Len(stdin) + 1
      /\ \A i \in 1..Len(stdin) : stdin'[i] = stdin[i]
      /\ stdin'[Len(stdin) + 1] = t
      /\ typed'.lines = typed.lines + 1
      /\ typed'.yes = typed.yes + IF t = "Y" THEN 1 ELSE 0
  BY DEF TypeOK, Type
<1>2. LinesRead' = LinesRead /\ LinesRead \in Int
      /\ typed'.lines - LinesRead = Len(stdin) + 1
  BY <1>1 DEF LinesRead
<1>3. WaitingYs' = WaitingYs \cup (IF t = "Y" THEN {typed.lines + 1} ELSE {})
  <2>1. ASSUME NEW n \in LinesRead + 1..typed.lines
        PROVE  stdin'[n - LinesRead] = stdin[n - LinesRead]
    <3>1. n - LinesRead \in 1..Len(stdin)
      BY <1>1 DEF LinesRead
    <3> QED
      BY <1>1, <3>1
  <2>2. stdin'[(typed.lines + 1) - LinesRead] = t
    BY <1>1, <1>2
  <2>3. LinesRead' + 1..typed'.lines = (LinesRead + 1..typed.lines) \cup {typed.lines + 1}
    BY <1>1, <1>2 DEF LinesRead
  <2> QED
    BY <1>2, <2>1, <2>2, <2>3 DEF WaitingYs
<1>4. typed.lines + 1 \notin WaitingYs
  BY <1>1, <1>2 DEF WaitingYs
<1>5. HeldYs' = HeldYs /\ StoredYs' = StoredYs /\ Yeses' = Yeses
  BY DEF HeldYs, StoredYs, Yeses, Type
<1>6. Cardinality(WaitingYs') = Cardinality(WaitingYs) + IF t = "Y" THEN 1 ELSE 0
  <2>1. IsFiniteSet(WaitingYs) /\ Cardinality(WaitingYs) \in Nat
    BY YsAreFinite
  <2>2. Cardinality(WaitingYs \cup {typed.lines + 1}) = Cardinality(WaitingYs) + 1
    BY <1>4, <2>1, FS_AddElement
  <2>3. CASE t = "Y"
    BY <1>3, <2>2, <2>3
  <2>4. CASE t # "Y"
    <3>1. WaitingYs' = WaitingYs
      BY <1>3, <2>4
    <3> QED
      BY <2>1, <2>4, <3>1
  <2> QED
    BY <2>3, <2>4
<1> QED
  BY <1>1, <1>5, <1>6, YsAreFinite DEF YesAccounts

\* A Y that is read leaves stdin for one reader; no reader gets a Y otherwise.
LEMMA ReadLineYs ==
    ASSUME TypeOK, YesAccounts, NEW k \in Readers, NEW other \in Readers, ReadLine(k, other)
    PROVE  YesAccounts'
<1> DEFINE h == Head(stdin)
           got == [calls EXCEPT ![other].line = Joined(@, h)]
<1>1. /\ stdin \in Seq(Texts) /\ Len(stdin) \in Nat \ {0} /\ stdin' = Tail(stdin)
      /\ Len(stdin') = Len(stdin) - 1 /\ h = stdin[1]
      /\ \A i \in 1..Len(stdin) - 1 : stdin'[i] = stdin[i + 1]
      /\ typed' = typed /\ typed.lines \in Nat /\ typed.yes \in Nat
  BY DEF TypeOK, ReadLine
<1>2. LinesRead' = LinesRead + 1 /\ LinesRead \in Int
      /\ LinesRead + 1 <= typed.lines
  BY <1>1 DEF LinesRead
<1>3. WaitingYs' = WaitingYs \ {LinesRead + 1}
      /\ (h = "Y" => LinesRead + 1 \in WaitingYs)
  <2>1. ASSUME NEW n \in LinesRead' + 1..typed.lines
        PROVE  stdin'[n - LinesRead'] = stdin[n - LinesRead]
    <3>1. n - LinesRead' \in 1..Len(stdin) - 1 /\ (n - LinesRead') + 1 = n - LinesRead
      BY <1>1, <1>2 DEF LinesRead
    <3> QED
      BY <1>1, <3>1
  <2>2. stdin[(LinesRead + 1) - LinesRead] = h
    BY <1>1, <1>2
  <2>3. LinesRead + 1..typed.lines = (LinesRead' + 1..typed'.lines) \cup {LinesRead + 1}
        /\ LinesRead + 1 \notin LinesRead' + 1..typed'.lines
    BY <1>1, <1>2
  <2> QED
    BY <1>1, <2>1, <2>2, <2>3 DEF WaitingYs
<1>4. /\ DOMAIN calls' = DOMAIN calls
      /\ \A j \in DOMAIN calls :
           /\ calls'[j].userInput = calls[j].userInput
           /\ calls'[j].result = calls[j].result
           /\ calls'[j].line = IF j = other THEN Joined(calls[j].line, h) ELSE calls[j].line
           /\ calls'[j].reader = IF j = k THEN "read" ELSE calls[j].reader
           /\ j \in {k, other} => calls[j].reader = "reading"
  <2>0. k \in DOMAIN calls /\ other \in DOMAIN calls
        /\ calls[k].reader = "reading" /\ calls[other].reader = "reading"
    BY DEF Readers
  <2>1. /\ got \in [DOMAIN calls -> Calls]
        /\ \A j \in DOMAIN calls :
             /\ got[j].userInput = calls[j].userInput /\ got[j].result = calls[j].result
             /\ got[j].line = IF j = other THEN Joined(calls[j].line, h) ELSE calls[j].line
             /\ got[j].reader = calls[j].reader
    <3>1. Joined(calls[other].line, h) \in Texts
      BY <1>1, <2>0, CallsFunction, JoinedText DEF Calls
    <3> QED
      BY <2>0, <3>1, CallsFunction DEF Calls
  <2>2. calls' = [got EXCEPT ![k].reader = "read"]
    BY DEF ReadLine
  <2> HIDE DEF got, h
  <2> QED
    BY <2>0, <2>1, <2>2 DEF Calls
<1> HIDE DEF got, h
<1>5. StoredYs' = StoredYs /\ Yeses' = Yeses
  BY <1>4 DEF StoredYs, Yeses
<1>6. HeldYs' \subseteq HeldYs \cup (IF h = "Y" THEN {other} ELSE {})
  <2>1. \A s : Joined(s, h) = "Y" => h = "Y" \/ s = "Y"
    BY DEF Joined
  <2> QED
    BY <1>4, <2>1 DEF HeldYs
<1>7. CASE h = "Y"
  <2>1. Cardinality(WaitingYs') = Cardinality(WaitingYs) - 1
    BY <1>3, <1>7, YsAreFinite, FS_RemoveElement
  <2>0. IsFiniteSet(HeldYs) /\ Cardinality(HeldYs) \in Nat
    BY YsAreFinite
  <2>2. /\ IsFiniteSet(HeldYs \cup {other})
        /\ Cardinality(HeldYs \cup {other}) <= Cardinality(HeldYs) + 1
    BY <2>0, OneMore
  <2>3. HeldYs' \in SUBSET (HeldYs \cup {other})
    BY <1>6, <1>7
  <2>4. IsFiniteSet(HeldYs') /\ Cardinality(HeldYs') <= Cardinality(HeldYs \cup {other})
    BY <2>2, <2>3, FS_Subset
  <2>5. Cardinality(HeldYs') \in Nat /\ Cardinality(HeldYs \cup {other}) \in Nat
    BY <2>2, <2>4, FS_CardinalityType
  <2> QED
    BY <1>1, <1>5, <2>1, <2>2, <2>4, <2>5, YsAreFinite DEF YesAccounts
<1>8. CASE h # "Y"
  <2>1. LinesRead + 1 \notin WaitingYs
    <3>1. stdin[(LinesRead + 1) - LinesRead] = h
      BY <1>1, <1>2
    <3> QED
      BY <1>8, <3>1 DEF WaitingYs
  <2> QED
    BY <1>1, <1>3, <1>5, <1>6, <1>8, <2>1, YsMoveNowhere DEF YesAccounts
<1> QED
  BY <1>7, <1>8

\* An entry that is taken, or refused, is not a Y any more.
LEMMA TakeEntryYs == ASSUME Inv, YesAccounts, TakeEntry PROVE YesAccounts'
<1>1. TypeOK /\ current \in DOMAIN calls
  BY DEF Inv, InsideAPrompt, TakeEntry
<1>2. /\ DOMAIN calls' = DOMAIN calls
      /\ \A j \in DOMAIN calls :
           /\ calls'[j].userInput = calls[j].userInput
           /\ calls'[j].line \in {calls[j].line, ""}
           /\ j # current => calls'[j] = calls[j]
           /\ calls'[j].result \in {calls[j].result, "entry"}
      /\ calls[current].reader = "read"
  <2> DEFINE r == [calls[current] EXCEPT !.result = "entry", !.reader = "ended"]
             e == [calls[current] EXCEPT !.line = "", !.reader = "reading"]
  <2>1. calls' \in {[calls EXCEPT ![current] = r], [calls EXCEPT ![current] = e]}
        /\ calls[current].reader = "read"
    BY <1>1, CallsFunction DEF TakeEntry
  <2>2. /\ r.userInput = calls[current].userInput /\ e.userInput = calls[current].userInput
        /\ r.line = calls[current].line /\ e.line = ""
        /\ r.result = "entry" /\ e.result = calls[current].result
    BY <1>1, CallsFunction DEF Calls
  <2> HIDE DEF r, e
  <2> QED
    BY <1>1, <2>1, <2>2, CallsFunction
<1>3. HeldYs' \subseteq HeldYs
  BY <1>2 DEF HeldYs
<1>4. StoredYs' = StoredYs
  BY <1>2 DEF StoredYs
<1>5. Yeses' \subseteq Yeses
  BY <1>2 DEF Yeses
<1> QED
  BY <1>1, <1>3, <1>4, <1>5, WaitingStays, YsMoveNowhere DEF TakeEntry, YesAccounts

\* A thread stores the line it holds.
LEMMA StoreYs ==
    ASSUME Inv, YesAccounts, NEW k \in DOMAIN calls, Store(k) PROVE YesAccounts'
<1>1. TypeOK
  BY DEF Inv
<1>2. /\ DOMAIN calls' = DOMAIN calls
      /\ \A j \in DOMAIN calls : j # k => calls'[j] = calls[j]
      /\ calls'[k].userInput = calls[k].line
      /\ calls'[k].reader = "stored" /\ calls'[k].result = calls[k].result
      /\ calls[k].reader = "read" /\ calls[k].result = "none"
  BY <1>1, CallsFunction DEF Store, Calls
<1>3. HeldYs' = HeldYs \ {k}
  BY <1>2 DEF HeldYs
<1>4. StoredYs' \subseteq StoredYs \cup (IF k \in HeldYs THEN {k} ELSE {})
  BY <1>2 DEF StoredYs, HeldYs
<1>5. Yeses' \subseteq StoredYs'
  BY <1>2 DEF Yeses, StoredYs, YesAccounts
<1> QED
  BY <1>1, <1>3, <1>4, <1>5, WaitingStays, HeldIsStored DEF Store

\* A thread left behind stores nowhere, or what it holds for the prompt in hand.
LEMMA LeftBehindYs ==
    ASSUME Inv, YesAccounts, NEW k \in DOMAIN calls, StoreNowhere(k) \/ StoreElsewhere(k)
    PROVE  YesAccounts'
<1>1. TypeOK /\ calls[k].reader = "read" /\ UNCHANGED <<stdin, typed>>
  BY DEF Inv, StoreNowhere, StoreElsewhere, LeftBehind
<1>2. CASE StoreNowhere(k)
  <2>1. /\ DOMAIN calls' = DOMAIN calls
        /\ \A j \in DOMAIN calls : j # k => calls'[j] = calls[j]
        /\ calls'[k].userInput = calls[k].userInput
        /\ calls'[k].reader = "ended" /\ calls'[k].result = calls[k].result
    BY <1>1, <1>2, CallsFunction DEF StoreNowhere, Set, Calls
  <2>2. HeldYs' \subseteq HeldYs
    BY <2>1 DEF HeldYs
  <2>3. StoredYs' = StoredYs /\ Yeses' = Yeses
    BY <2>1 DEF StoredYs, Yeses
  <2> QED
    BY <1>1, <2>2, <2>3, WaitingStays, YsMoveNowhere DEF YesAccounts
<1>3. CASE StoreElsewhere(k)
  <2>1. current \in DOMAIN calls /\ calls[current].result = "none" /\ k # current
    BY <1>3 DEF Inv, InsideAPrompt, StoreElsewhere, LeftBehind
  <2>2. /\ DOMAIN calls' = DOMAIN calls
        /\ \A j \in DOMAIN calls : j \notin {k, current} => calls'[j] = calls[j]
        /\ calls'[k].userInput = calls[k].userInput
        /\ calls'[k].reader = "ended" /\ calls'[k].result = calls[k].result
        /\ calls'[current].userInput = calls[k].line
        /\ calls'[current].reader = calls[current].reader
        /\ calls'[current].line = calls[current].line
        /\ calls'[current].result = "none"
    <3> DEFINE r == [calls[current] EXCEPT !.userInput = calls[k].line, !.ready = TRUE]
               e == [calls[k] EXCEPT !.reader = "ended"]
    <3>1. /\ r.userInput = calls[k].line /\ r.reader = calls[current].reader
          /\ r.line = calls[current].line /\ r.result = "none"
      BY <1>1, <2>1, CallsFunction DEF Calls
    <3>2. e.result = calls[k].result /\ e.reader = "ended" /\ e.userInput = calls[k].userInput
      BY <1>1, CallsFunction DEF Calls
    <3>3. calls' = [calls EXCEPT ![current] = r, ![k] = e]
      BY <1>1, <1>3, <2>1, CallsFunction DEF StoreElsewhere
    <3> HIDE DEF r, e
    <3> QED
      BY <1>1, <2>1, <3>1, <3>2, <3>3, CallsFunction
  <2>3. HeldYs' = HeldYs \ {k}
    BY <2>1, <2>2 DEF HeldYs
  <2>4. StoredYs' \subseteq StoredYs \cup (IF k \in HeldYs THEN {current} ELSE {})
    BY <1>1, <2>1, <2>2 DEF StoredYs, HeldYs
  <2>5. Yeses' \subseteq StoredYs'
    BY <2>1, <2>2 DEF Yeses, StoredYs, YesAccounts
  <2> QED
    BY <1>1, <2>3, <2>4, <2>5, WaitingStays, HeldIsStored
<1> QED
  BY <1>2, <1>3

\* The other steps move no Y; a confirmation is a Y that was stored.
LEMMA QuietYs ==
    ASSUME Inv, YesAccounts,
           \/ \E k \in DOMAIN calls : EndInput(k)
           \/ WakeUp \/ ReturnAnswer \/ ExpirePayment \/ ExpirePrepayment
    PROVE  YesAccounts'
<1>0. TypeOK /\ UNCHANGED <<stdin, typed>>
  BY DEF Inv, EndInput, WakeUp, ReturnAnswer, ExpirePayment, ExpirePrepayment
<1>1. /\ DOMAIN calls' = DOMAIN calls
      /\ \A j \in DOMAIN calls :
           /\ calls'[j].userInput = calls[j].userInput
           /\ calls'[j].line = calls[j].line
           /\ calls'[j].reader \in {calls[j].reader, "ended"}
           /\ calls'[j].result = "yes" /\ calls[j].result # "yes" =>
                 calls[j].userInput = "Y"
  <2> USE CallsFunction DEF Calls, Set
  <2>1. CASE \E k \in DOMAIN calls : EndInput(k)
    BY <1>0, <2>1 DEF EndInput
  <2>2. CASE WakeUp
    BY <1>0, <2>2 DEF WakeUp, Inv, InsideAPrompt
  <2>3. CASE ReturnAnswer
    BY <1>0, <2>3 DEF ReturnAnswer, IsYes, Inv, InsideAPrompt
  <2>4. CASE ExpirePayment
    BY <1>0, <2>4 DEF ExpirePayment
  <2>5. CASE ExpirePrepayment
    BY <1>0, <2>5 DEF ExpirePrepayment
  <2> QED
    BY <2>1, <2>2, <2>3, <2>4, <2>5
<1>2. HeldYs' \subseteq HeldYs
  BY <1>1 DEF HeldYs
<1>3. StoredYs' = StoredYs
  BY <1>1 DEF StoredYs
<1>4. Yeses' \subseteq StoredYs'
  BY <1>1, <1>3 DEF Yeses, StoredYs, YesAccounts
<1> QED
  BY <1>0, <1>2, <1>3, <1>4, WaitingStays, YsMoveNowhere

\* Never more confirmations than Ys typed, whichever threads read them.
THEOREM NoYesCountsTwice == Spec => []EachYesConfirmsOnce
<1>1. Init => YesAccounts
  <2> SUFFICES ASSUME Init PROVE YesAccounts
    OBVIOUS
  <2>1. WaitingYs = {} /\ HeldYs = {} /\ StoredYs = {} /\ Yeses = {}
    BY DEF Init, WaitingYs, HeldYs, StoredYs, Yeses, LinesRead
  <2> QED
    BY <2>1, FS_EmptySet DEF Init, YesAccounts
<1>2. Inv /\ YesAccounts /\ [Next]_vars => YesAccounts'
  <2> SUFFICES ASSUME Inv, YesAccounts, [Next]_vars PROVE YesAccounts'
    OBVIOUS
  <2>0. TypeOK
    BY DEF Inv
  <2>1. CASE \E p \in TimedPrompts \cup EntryPrompts : Show(p)
    BY <2>0, <2>1, ShowYs
  <2>2. CASE \E t \in Texts \ {"other"} : Type(t)
    BY <2>0, <2>2, TypeYs
  <2>3. CASE InputThreads
    BY <2>3, StoreYs, LeftBehindYs, QuietYs DEF InputThreads
  <2>4. CASE Reading
    BY <2>0, <2>4, ReadLineYs DEF Reading
  <2>5. CASE MainThread
    BY <2>5, TakeEntryYs, QuietYs DEF MainThread
  <2>6. CASE UNCHANGED vars
    BY <2>6 DEF vars, YesAccounts, WaitingYs, HeldYs, StoredYs, Yeses, LinesRead
  <2> QED
    BY <2>1, <2>2, <2>3, <2>4, <2>5, <2>6 DEF Next
<1>3. Inv /\ YesAccounts => EachYesConfirmsOnce
  <2> SUFFICES ASSUME Inv, YesAccounts PROVE EachYesConfirmsOnce
    OBVIOUS
  <2>1. /\ IsFiniteSet(StoredYs) /\ Cardinality(WaitingYs) \in Nat
        /\ Cardinality(HeldYs) \in Nat /\ Cardinality(StoredYs) \in Nat
    BY YsAreFinite DEF Inv
  <2>2. IsFiniteSet(Yeses) /\ Cardinality(Yeses) <= Cardinality(StoredYs)
    BY <2>1, FS_Subset DEF YesAccounts
  <2>3. Cardinality(Yeses) \in Nat /\ typed.yes \in Nat
    BY <2>2, FS_CardinalityType DEF Inv, TypeOK
  <2>4. Cardinality(Yeses) <= typed.yes
    BY <2>1, <2>2, <2>3 DEF YesAccounts
  <2> QED
    BY <2>4 DEF EachYesConfirmsOnce, Yeses
<1> QED
  BY <1>1, <1>2, <1>3, Invariance, PTL DEF Spec

-----------------------------------------------------------------------------
(* The lock and the join.                                                   *)

\* Who joins has seen `ready`; and as long as no thread was left behind, a prompt is
\* made ready only by its own thread, in the section that thread then leaves.
ReadyMeansStored ==
    /\ main = "waiting" => calls[current].mtx = "free"
    /\ main = "joining" => calls[current].ready
    /\ NobodyLeft => \A k \in DOMAIN calls :
                        calls[k].ready => calls[k].reader \in {"stored", "ended"}

\* What a step that shows no prompt must do to keep this.
CarefulStep ==
    /\ calls' \in [DOMAIN calls -> Calls]
    /\ \A k \in DOMAIN calls :
         /\ calls[k].result = "timeout" => calls'[k].result = "timeout"
         /\ NobodyLeft /\ calls'[k].ready =>
               \/ calls'[k].reader \in {"stored", "ended"}
               \/ calls[k].ready /\ calls'[k].reader = calls[k].reader
    /\ main' = "waiting" => main = "waiting" /\ calls'[current].mtx = calls[current].mtx
    /\ main' = "joining" => calls'[current].ready

\* Such a step keeps it.
LEMMA CarefulStepReady ==
    ASSUME Inv, ReadyMeansStored, CarefulStep PROVE ReadyMeansStored'
<1>1. TypeOK
  BY DEF Inv
<1>2. DOMAIN calls' = DOMAIN calls /\ current' = current
  BY <1>1, CallsFunction DEF CarefulStep, current
<1>3. NobodyLeft' => NobodyLeft
  BY <1>2 DEF NobodyLeft, CarefulStep
<1>4. (main = "waiting" => calls[current].mtx = "free")'
      /\ (main = "joining" => calls[current].ready)'
  BY <1>2 DEF ReadyMeansStored, CarefulStep
<1>5. ASSUME NobodyLeft', NEW k \in DOMAIN calls, calls'[k].ready
      PROVE  calls'[k].reader \in {"stored", "ended"}
  BY <1>3, <1>5 DEF ReadyMeansStored, CarefulStep
<1> QED
  BY <1>2, <1>4, <1>5 DEF ReadyMeansStored

\* A new prompt is not ready, and its mtx is free.
LEMMA ShowReady ==
    ASSUME Inv, ReadyMeansStored, NEW p \in TimedPrompts \cup EntryPrompts, Show(p)
    PROVE  ReadyMeansStored'
<1>1. Locals(p).mtx = "free" /\ Locals(p).ready = FALSE
  BY DEF Locals
<1>2. calls \in Seq(Calls) /\ Locals(p) \in Calls
  BY DEF Inv, TypeOK, Locals, Calls, Texts
<1>3. calls' = Append(calls, Locals(p)) /\ main' \in {"waiting", "reading"}
  BY DEF Show
<1>4. /\ Len(calls) \in Nat /\ Len(calls') = Len(calls) + 1
      /\ DOMAIN calls = 1..Len(calls) /\ DOMAIN calls' = 1..(Len(calls) + 1)
      /\ \A k \in 1..Len(calls) : calls'[k] = calls[k]
      /\ calls'[Len(calls) + 1] = Locals(p)
  BY <1>2, <1>3
<1>5. NobodyLeft' => NobodyLeft
  BY <1>4 DEF NobodyLeft
<1>6. ASSUME NobodyLeft', NEW k \in DOMAIN calls', calls'[k].ready
      PROVE  calls'[k].reader \in {"stored", "ended"}
  BY <1>1, <1>4, <1>5, <1>6 DEF ReadyMeansStored
<1> QED
  BY <1>1, <1>3, <1>4, <1>6 DEF ReadyMeansStored, current

\* A line changes what its reader knows, nothing else.
LEMMA ReadLineReady ==
    ASSUME Inv, ReadyMeansStored, NEW k \in Readers, NEW other \in Readers,
           ReadLine(k, other)
    PROVE  ReadyMeansStored'
<1>0. TypeOK /\ stdin \in Seq(Texts) /\ stdin # <<>>
  BY DEF Inv, TypeOK, ReadLine
<1> DEFINE got == [calls EXCEPT ![other].line = Joined(@, Head(stdin))]
<1>1. calls' = [got EXCEPT ![k].reader = "read"] /\ main' = main
  BY DEF ReadLine
<1>2. k \in DOMAIN calls /\ other \in DOMAIN calls /\ calls[k].reader = "reading"
  BY DEF Readers
<1>3. Joined(calls[other].line, Head(stdin)) \in Texts
  BY <1>0, <1>2, CallsFunction, HeadAndTail, JoinedText DEF Calls
<1>4. got \in [DOMAIN calls -> Calls]
      /\ \A j \in DOMAIN calls : /\ got[j].result = calls[j].result
                                 /\ got[j].reader = calls[j].reader
                                 /\ got[j].ready = calls[j].ready
                                 /\ got[j].mtx = calls[j].mtx
  BY <1>0, <1>2, <1>3, CallsFunction DEF Calls
<1> DEFINE r == [got[k] EXCEPT !.reader = "read"]
<1>5. /\ r \in Calls /\ r.result = got[k].result /\ r.ready = got[k].ready
      /\ r.mtx = got[k].mtx
  BY <1>2, <1>4 DEF Calls
<1>6. calls' = [got EXCEPT ![k] = r]
  BY <1>1, <1>2, <1>4
<1> HIDE DEF got, r
<1>7. /\ calls' \in [DOMAIN calls -> Calls]
      /\ \A j \in DOMAIN calls : /\ calls'[j].result = calls[j].result
                                 /\ calls'[j].ready = calls[j].ready
                                 /\ calls'[j].mtx = calls[j].mtx
                                 /\ j # k => calls'[j].reader = calls[j].reader
  BY <1>2, <1>4, <1>5, <1>6
<1>8. NobodyLeft => ~calls[k].ready
  BY <1>2 DEF ReadyMeansStored
<1>9. main \in {"waiting", "joining"} => current \in DOMAIN calls
  BY DEF Inv, InsideAPrompt
<1>10. CarefulStep
  BY <1>1, <1>7, <1>8, <1>9 DEF CarefulStep, ReadyMeansStored
<1> QED
  BY <1>10, CarefulStepReady

\* An entry prompt has no input thread that waits for a lock.
LEMMA TakeEntryReady ==
    ASSUME Inv, ReadyMeansStored, TakeEntry PROVE ReadyMeansStored'
<1>0. /\ TypeOK /\ current \in DOMAIN calls /\ calls[current].result = "none"
      /\ calls[current].reader = "read" /\ main' \in {"reading", "idle"}
  BY DEF Inv, InsideAPrompt, TakeEntry
<1>1. NobodyLeft => ~calls[current].ready
  BY <1>0 DEF ReadyMeansStored
<1> DEFINE e == [calls[current] EXCEPT !.result = "entry", !.reader = "ended"]
           r == [calls[current] EXCEPT !.line = "", !.reader = "reading"]
<1>2. calls' = [calls EXCEPT ![current] = e] \/ calls' = [calls EXCEPT ![current] = r]
  BY <1>0, CallsFunction DEF TakeEntry
<1>3. /\ e \in Calls /\ e.ready = calls[current].ready
      /\ r \in Calls /\ r.ready = calls[current].ready
  BY <1>0, CallsFunction DEF Calls, Texts
<1> HIDE DEF e, r
<1>4. CarefulStep
  BY <1>0, <1>1, <1>2, <1>3, CallsFunction DEF CarefulStep
<1> QED
  BY <1>4, CarefulStepReady

\* The section of the input thread stores and makes ready at once.
LEMMA StoreReady ==
    ASSUME Inv, ReadyMeansStored, NEW k \in DOMAIN calls, Store(k) \/ EndInput(k)
    PROVE  ReadyMeansStored'
<1>0. /\ TypeOK /\ main' = main
      /\ main \in {"waiting", "joining"} => current \in DOMAIN calls
  BY DEF Inv, InsideAPrompt, Store, EndInput
<1> DEFINE r == [calls[k] EXCEPT !.userInput = calls[k].line, !.ready = TRUE,
                                 !.reader = "stored"]
           e == [calls[k] EXCEPT !.reader = "ended"]
<1>1. calls' = [calls EXCEPT ![k] = r] \/ calls' = [calls EXCEPT ![k] = e]
  BY <1>0, CallsFunction DEF Store, EndInput, Set
<1>2. /\ r \in Calls /\ r.result = calls[k].result /\ r.mtx = calls[k].mtx
      /\ r.ready /\ r.reader = "stored"
      /\ e \in Calls /\ e.result = calls[k].result /\ e.mtx = calls[k].mtx
      /\ e.ready = calls[k].ready /\ e.reader = "ended"
  BY <1>0, CallsFunction DEF Calls
<1> HIDE DEF r, e
<1>3. CarefulStep
  BY <1>0, <1>1, <1>2, CallsFunction DEF CarefulStep, ReadyMeansStored
<1> QED
  BY <1>3, CarefulStepReady

\* The main thread takes mtx when it stops waiting, and joins only what is ready.
LEMMA MainReady ==
    ASSUME Inv, ReadyMeansStored,
           WakeUp \/ ReturnAnswer \/ ExpirePayment \/ ExpirePrepayment
    PROVE  ReadyMeansStored'
<1>0. TypeOK /\ current \in DOMAIN calls /\ calls[current].result = "none"
  BY DEF Inv, InsideAPrompt, WakeUp, ReturnAnswer, ExpirePayment, ExpirePrepayment, TimeIsUp
<1> DEFINE h == [calls[current] EXCEPT !.mtx = "held"]
<1>1. /\ h \in Calls /\ h.result = "none" /\ h.ready = calls[current].ready
      /\ h.reader = calls[current].reader
  BY <1>0, CallsFunction DEF Calls
<1>2. CASE WakeUp \/ ExpirePayment
  <2>1. /\ calls' = [calls EXCEPT ![current] = h]
        /\ main' = "hung" \/ (main' = "joining" /\ calls[current].ready)
    BY <1>0, <1>2, CallsFunction DEF WakeUp, ExpirePayment, Set
  <2> HIDE DEF h
  <2>2. CarefulStep
    BY <1>0, <1>1, <2>1, CallsFunction DEF CarefulStep
  <2> QED
    BY <2>2, CarefulStepReady
<1>3. CASE ReturnAnswer \/ ExpirePrepayment
  <2>1. PICK v \in {"yes", "no", "timeout"} : calls' = [calls EXCEPT ![current].result = v]
    BY <1>3 DEF ReturnAnswer, ExpirePrepayment, Set
  <2> DEFINE a == [calls[current] EXCEPT !.result = v]
  <2>2. /\ a \in Calls /\ a.ready = calls[current].ready
        /\ a.reader = calls[current].reader
    BY <1>0, CallsFunction DEF Calls
  <2>3. calls' = [calls EXCEPT ![current] = a]
    BY <1>0, <2>1, CallsFunction
  <2>4. main' = "idle"
    BY <1>3 DEF ReturnAnswer, ExpirePrepayment
  <2> HIDE DEF a
  <2>5. CarefulStep
    BY <1>0, <2>2, <2>3, <2>4, CallsFunction DEF CarefulStep
  <2> QED
    BY <2>5, CarefulStepReady
<1> QED
  BY <1>2, <1>3

\* What a thread left behind does is excused.
LEMMA LeftBehindReady ==
    ASSUME Inv, ReadyMeansStored, NEW k \in DOMAIN calls,
           StoreNowhere(k) \/ StoreElsewhere(k)
    PROVE  ReadyMeansStored'
<1>0. /\ TypeOK /\ calls[k].result = "timeout" /\ ~NobodyLeft
      /\ main' \in {main, "crashed"}
      /\ main \in {"waiting", "joining"} => current \in DOMAIN calls
  BY DEF Inv, InsideAPrompt, StoreNowhere, StoreElsewhere, LeftBehind, NobodyLeft
<1> DEFINE e == [calls[k] EXCEPT !.reader = "ended"]
<1>1. /\ e \in Calls /\ e.result = calls[k].result /\ e.mtx = calls[k].mtx
      /\ e.ready = calls[k].ready
  BY <1>0, CallsFunction DEF Calls
<1>2. CASE StoreNowhere(k)
  <2>1. calls' = [calls EXCEPT ![k] = e]
    BY <1>0, <1>2, CallsFunction DEF StoreNowhere, Set
  <2> HIDE DEF e
  <2>2. CarefulStep
    BY <1>0, <1>1, <2>1, CallsFunction DEF CarefulStep, ReadyMeansStored
  <2> QED
    BY <2>2, CarefulStepReady
<1>3. CASE StoreElsewhere(k)
  <2> DEFINE r == [calls[current] EXCEPT !.userInput = calls[k].line, !.ready = TRUE]
  <2>1. /\ current \in DOMAIN calls /\ k # current /\ main' = "waiting"
        /\ main = "waiting"
    BY <1>0, <1>3 DEF Inv, InsideAPrompt, StoreElsewhere
  <2>2. r \in Calls /\ r.result = calls[current].result /\ r.mtx = calls[current].mtx
    BY <1>0, <2>1, CallsFunction DEF Calls
  <2>3. calls' = [calls EXCEPT ![current] = r, ![k] = e]
    BY <1>0, <1>3, <2>1, CallsFunction DEF StoreElsewhere
  <2> HIDE DEF r, e
  <2>4. CarefulStep
    BY <1>0, <1>1, <2>1, <2>2, <2>3, CallsFunction DEF CarefulStep
  <2> QED
    BY <2>4, CarefulStepReady
<1> QED
  BY <1>2, <1>3

\* Neither the main thread nor the input thread of its prompt waits for a lock the
\* other one holds.
THEOREM NoDeadlockOfJoin == Spec => []JoinWaitsForNoLock
<1>1. Init => ReadyMeansStored
  BY DEF Init, ReadyMeansStored
<1>2. Inv /\ ReadyMeansStored /\ [Next]_vars => ReadyMeansStored'
  <2> SUFFICES ASSUME Inv, ReadyMeansStored, [Next]_vars PROVE ReadyMeansStored'
    OBVIOUS
  <2>1. CASE \E p \in TimedPrompts \cup EntryPrompts : Show(p)
    BY <2>1, ShowReady
  <2>2. CASE UNCHANGED vars \/ \E t \in Texts \ {"other"} : Type(t)
    BY <2>2 DEF vars, Type, ReadyMeansStored, NobodyLeft, current
  <2>3. CASE InputThreads
    BY <2>3, StoreReady, LeftBehindReady DEF InputThreads
  <2>4. CASE Reading
    BY <2>4, ReadLineReady DEF Reading
  <2>5. CASE MainThread
    BY <2>5, MainReady, TakeEntryReady DEF MainThread
  <2> QED
    BY <2>1, <2>2, <2>3, <2>4, <2>5 DEF Next
<1>3. Inv /\ ReadyMeansStored => JoinWaitsForNoLock
  BY DEF Inv, InsideAPrompt, ReadyMeansStored, JoinWaitsForNoLock
<1> QED
  BY <1>1, <1>2, <1>3, Invariance, PTL DEF Spec
=============================================================================
