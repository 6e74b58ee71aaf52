---------------------------- MODULE CodeLifeCycle ----------------------------
(***************************************************************************)
(* What the store of authentication codes promises: a code is granted,     *)
(* then used once; only a new grant makes a used code usable again.        *)
(***************************************************************************)
CONSTANT AuthCodes

VARIABLE status

Init == status = [c \in AuthCodes |-> "ABSENT"]

\* Another machine has paid for a drink under this code.
Grant(c) == status' = [status EXCEPT ![c] = "ACTIVE"]

\* The drink is given out.
Use(c) ==
    /\ status[c] = "ACTIVE"
    /\ status' = [status EXCEPT ![c] = "USED"]

Next == \E c \in AuthCodes : Grant(c) \/ Use(c)

Spec == Init /\ [][Next]_status
=============================================================================
