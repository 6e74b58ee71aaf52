---------------------------- MODULE ConfirmPrompt ----------------------------
(***************************************************************************)
(* The prompts of src/presentation/UserInterface.cpp and the threads that  *)
(* read the console for them.  The Y/N prompts wait for a thread of their  *)
(* own; the others read in the main thread.  All share std::cin, and a     *)
(* prompt that is given up leaves its thread behind.                       *)
(***************************************************************************)
EXTENDS Integers, Sequences, FiniteSets

CONSTANTS
    MaxCalls,   \* bound: prompts shown
    MaxLines    \* bound: lines typed

ASSUME PromptAssumption == MaxCalls \in Nat /\ MaxLines \in Nat

TimedPrompts == {"confirmPayment", "confirmPrepayment"}
EntryPrompts == {"getUserChoice", "selectDrink", "getAuthCodeInput"}

\* A line as it reads once it is trimmed: empty, a Y, an entry of one character
\* the entry prompts take (a menu number, c), and anything else.
Texts == {"", "Y", "entry", "other"}

VARIABLES
    calls,   \* the prompts shown so far, with the locals and the thread of each
    main,    \* what the main thread does
    stdin,   \* lines typed and not yet read
    typed    \* number of lines typed, and of Ys among them

vars == <<calls, main, stdin, typed>>

Init ==
    /\ calls = <<>> /\ main = "idle"
    /\ stdin = <<>> /\ typed = [lines |-> 0, yes |-> 0]

-----------------------------------------------------------------------------
current == Len(calls)

Locals(p) ==
    [ prompt    |-> p,
      mtx       |-> "free",
      ready     |-> FALSE,
      userInput |-> "",
      reader    |-> "reading",  \* inputThread, or the main thread at an entry prompt
      line      |-> "",
      result    |-> "none" ]

Set(k, f, v) == [calls EXCEPT ![k][f] = v]

\* The prompts that may follow the last one, as the controller calls them.  An error
\* leads to the menu from every state; while a drink is in hand, from its selection
\* or redemption until the menu drops it, a late stock answer leads to the options.
MayFollow ==
    IF calls = <<>> THEN {"getUserChoice"} ELSE
    LET last    == calls[current]
        payable == \/ last.prompt = "selectDrink"
                   \/ last.prompt = "confirmPrepayment" /\ last.result = "yes"
    IN  CASE last.prompt = "getUserChoice" -> EntryPrompts
          [] payable                       -> TimedPrompts \cup {"getUserChoice"}
          [] OTHER                         -> {"getUserChoice", "confirmPrepayment"}

\* A prompt is printed; a Y/N prompt starts its thread and waits on cv.  The first
\* look at `ready` is the first one of the wait.
Show(p) ==
    /\ main = "idle"
    /\ current < MaxCalls
    /\ p \in MayFollow
    /\ calls' = Append(calls, Locals(p))
    /\ main' = IF p \in TimedPrompts THEN "waiting" ELSE "reading"
    /\ UNCHANGED <<stdin, typed>>

\* The customer types a line, with or without a prompt on the screen.
Type(t) ==
    /\ typed.lines < MaxLines
    /\ typed' = [lines |-> typed.lines + 1, yes |-> typed.yes + IF t = "Y" THEN 1 ELSE 0]
    /\ stdin' = Append(stdin, t)
    /\ UNCHANGED <<calls, main>>

Readers == { k \in DOMAIN calls : calls[k].reader = "reading" }

Joined(s, t) == IF s = "" THEN t ELSE IF t = "" THEN s ELSE "other"

\* std::getline on std::cin: of several readers one gets the character of the line
\* and one, maybe another, the end of it.
ReadLine(k, other) ==
    /\ stdin # <<>>
    /\ LET got == [calls EXCEPT ![other].line = Joined(@, Head(stdin))]
       IN  calls' = [got EXCEPT ![k].reader = "read"]
    /\ stdin' = Tail(stdin)
    /\ UNCHANGED <<main, typed>>

\* Mutant: what is entered is not checked.
TakeAnyEntry ==
    /\ main = "reading" /\ calls[current].reader = "read"
    /\ calls' = [calls EXCEPT ![current].result = calls[current].line,
                             ![current].reader = "ended"]
    /\ main' = "idle"
    /\ UNCHANGED <<stdin, typed>>

\* What an entry prompt returns with, a c that means back to the menu included.
Accepted(text) == text = "entry"

\* The loops of getIntegerInput, selectDrink and getAuthCodeInput.
TakeEntry ==
    /\ main = "reading" /\ calls[current].reader = "read"
    /\ IF Accepted(calls[current].line)
       THEN calls' = [calls EXCEPT ![current].result = "entry",
                                   ![current].reader = "ended"] /\ main' = "idle"
       ELSE calls' = [calls EXCEPT ![current].line = "",
                                   ![current].reader = "reading"] /\ UNCHANGED main
    /\ UNCHANGED <<stdin, typed>>

-----------------------------------------------------------------------------
InputThread(k) == calls[k].prompt \in TimedPrompts

\* Mutant: the lock outlives the section.
StoreAndKeepLock(k) ==
    /\ InputThread(k) /\ calls[k].reader = "read" /\ calls[k].result = "none"
    /\ calls[k].mtx = "free"
    /\ calls' = [calls EXCEPT ![k].userInput = calls[k].line, ![k].ready = TRUE,
                              ![k].reader = "stored", ![k].mtx = "held"]
    /\ UNCHANGED <<main, stdin, typed>>

\* The locked section of inputThread.  timed_out is still FALSE: the only thread
\* that would set it hangs just before.
Store(k) ==
    /\ InputThread(k) /\ calls[k].reader = "read" /\ calls[k].result = "none"
    /\ calls[k].mtx = "free"
    /\ calls' = [calls EXCEPT ![k].userInput = calls[k].line, ![k].ready = TRUE,
                              ![k].reader = "stored"]
    /\ UNCHANGED <<main, stdin, typed>>

\* Mutant: the thread needs the lock once more before it ends.
EndInputLocked(k) ==
    /\ calls[k].reader = "stored" /\ calls[k].mtx = "free"
    /\ calls' = Set(k, "reader", "ended")
    /\ UNCHANGED <<main, stdin, typed>>

\* notify_one, and the end of the thread
EndInput(k) ==
    /\ calls[k].reader = "stored"
    /\ calls' = Set(k, "reader", "ended")
    /\ UNCHANGED <<main, stdin, typed>>

\* Mutant: cv wakes up on its own, and the wait has no predicate.
WakeUpUnready ==
    /\ main = "waiting" /\ calls[current].mtx = "free"
    /\ calls' = Set(current, "mtx", "held")
    /\ main' = "joining"
    /\ UNCHANGED <<stdin, typed>>

\* The wait ends with `ready`, mtx taken again.
WakeUp ==
    /\ main = "waiting"
    /\ calls[current].ready /\ calls[current].mtx = "free"
    /\ calls' = Set(current, "mtx", "held")
    /\ main' = "joining"
    /\ UNCHANGED <<stdin, typed>>

\* Mutants: the thread is not waited for; an empty line means yes.
ReturnUnjoined ==
    /\ main = "joining"
    /\ calls' = Set(current, "result", IF calls[current].userInput = "Y" THEN "yes" ELSE "no")
    /\ main' = "idle"
    /\ UNCHANGED <<stdin, typed>>
YesByDefault(text) == text \in {"Y", ""}

\* The comparison both prompts end in.
IsYes(text) == text = "Y"

\* join, and the return with mtx released
ReturnAnswer ==
    /\ main = "joining" /\ calls[current].reader = "ended"
    /\ calls' = Set(current, "result", IF IsYes(calls[current].userInput) THEN "yes" ELSE "no")
    /\ main' = "idle"
    /\ UNCHANGED <<stdin, typed>>

\* Mutant: the predicate is not looked at again when the time is over.
TimeIsUpUnchecked == main = "waiting" /\ calls[current].mtx = "free"

\* wait_for gives up: mtx is taken and `ready` still FALSE.
TimeIsUp ==
    /\ main = "waiting"
    /\ calls[current].mtx = "free" /\ ~calls[current].ready

\* confirmPayment locks mtx, which its own unique_lock holds.
ExpirePayment ==
    /\ TimeIsUp /\ calls[current].prompt = "confirmPayment"
    /\ calls' = Set(current, "mtx", "held")
    /\ main' = "hung"
    /\ UNCHANGED <<stdin, typed>>

\* confirmPrepayment detaches its thread and returns; its locals are gone.
ExpirePrepayment ==
    /\ TimeIsUp /\ calls[current].prompt = "confirmPrepayment"
    /\ calls' = Set(current, "result", "timeout")
    /\ main' = "idle"
    /\ UNCHANGED <<stdin, typed>>

LeftBehind(k) == calls[k].result = "timeout" /\ calls[k].reader = "read"

\* A thread left behind goes on with references to locals that are gone.  Undefined:
\* nothing is seen of it, or the program crashes, ...
StoreNowhere(k) ==
    /\ LeftBehind(k)
    /\ calls' = Set(k, "reader", "ended")
    /\ main' \in {main, "crashed"}
    /\ UNCHANGED <<stdin, typed>>

\* ... or the references lead to the locals of the same prompt, shown again: it is
\* called from the same place, at the same depth of the stack.
StoreElsewhere(k) ==
    /\ LeftBehind(k)
    /\ main = "waiting" /\ calls[current].prompt = "confirmPrepayment"
    /\ calls[current].mtx = "free"
    /\ calls' = [calls EXCEPT ![current].userInput = calls[k].line,
                              ![current].ready = TRUE, ![k].reader = "ended"]
    /\ UNCHANGED <<main, stdin, typed>>

-----------------------------------------------------------------------------
InputThreads ==
    \E k \in DOMAIN calls :
        \/ Store(k) \/ EndInput(k) \/ StoreNowhere(k) \/ StoreElsewhere(k)

Reading == \E k, other \in Readers : ReadLine(k, other)

MainThread == WakeUp \/ ReturnAnswer \/ ExpirePayment \/ ExpirePrepayment \/ TakeEntry

Next ==
    /\ main # "crashed"
    /\ \/ \E p \in TimedPrompts \cup EntryPrompts : Show(p)
       \/ \E t \in Texts \ {"other"} : Type(t)
       \/ InputThreads \/ Reading \/ MainThread

Spec == Init /\ [][Next]_vars

\* The threads run and time passes; nobody needs to type.
FairSpec == Spec /\ WF_vars(MainThread) /\ WF_vars(InputThreads) /\ WF_vars(Reading)

-----------------------------------------------------------------------------
Calls == [ prompt    : TimedPrompts \cup EntryPrompts,
           mtx       : {"free", "held"},
           ready     : BOOLEAN,
           userInput : Texts,
           reader    : {"reading", "read", "stored", "ended"},
           line      : Texts,
           result    : {"none", "yes", "no", "timeout", "entry"} ]

TypeOK ==
    /\ calls \in Seq(Calls)
    /\ main \in {"idle", "reading", "waiting", "joining", "hung", "crashed"}
    /\ stdin \in Seq(Texts)
    /\ typed \in [lines : 0..MaxLines, yes : 0..MaxLines]

\* A Y confirms one prompt at most, whichever threads it passes through: there are
\* never more confirmations than Ys typed.
EachYesConfirmsOnce ==
    Cardinality({ k \in DOMAIN calls : calls[k].result = "yes" }) <= typed.yes

\* A prompt that came back with an answer has left no thread behind that could still
\* use its locals, and the answer is the one stored last.
AnswersLeaveNoThread ==
    \A k \in DOMAIN calls :
        calls[k].result \in {"yes", "no"} => calls[k].reader = "ended"

\* An answer that was stored before the time was up is never lost to the time-out.
AnswersInTimeCount ==
    \A k \in DOMAIN calls : calls[k].result = "timeout" => ~calls[k].ready

NobodyLeft == \A k \in DOMAIN calls : calls[k].result # "timeout"

\* The main thread waits with mtx released, and when it joins the input thread it
\* holds mtx: that thread is past its locked section then, so that neither waits for
\* the other, unless a thread left behind has made the prompt believe it is ready
\* (UserInterface.cpp:221).
JoinWaitsForNoLock ==
    /\ main = "waiting" => calls[current].mtx = "free"
    /\ main = "joining" /\ NobodyLeft => calls[current].reader \in {"stored", "ended"}

\* The wait for an answer ends, whether or not somebody types.
WaitsEnd == main = "waiting" ~> main # "waiting"

\* The main thread holds mtx while it joins the input thread; this cannot block the
\* two, unless a thread was left behind that took the part of the one joined.
AnsweredPromptReturns ==
    main = "joining" /\ NobodyLeft ~> main # "joining"

-----------------------------------------------------------------------------
(* What comments say and the code does not do.                              *)

\* confirmPayment comes back from its time-out.
PaymentPromptReturns == main # "hung"
=============================================================================
