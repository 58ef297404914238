----------------------------- MODULE WakerSpec ------------------------------
(***************************************************************************)
(* What async_waker promises: one latched token, and one wait at a time    *)
(* that every wake() either completes or leaves a token for.  A token and  *)
(* a waiter never coexist, so no wakeup is lost, and a wait that is        *)
(* canceled consumes none.                                                 *)
(***************************************************************************)
VARIABLES token, waiting   \* waiting: "no", "yes", "woken" or "canceled"

vars == <<token, waiting>>

Init == token = "no" /\ waiting = "no"

Suspend == waiting = "no" /\ token = "no" /\ waiting' = "yes" /\ UNCHANGED token

Consume == waiting = "no" /\ token = "yes" /\ waiting' = "woken" /\ token' = "no"

Wake == waiting = "yes" /\ waiting' = "woken" /\ UNCHANGED token

Latch == waiting # "yes" /\ token = "no" /\ token' = "yes" /\ UNCHANGED waiting

Cancel == waiting \in {"no", "yes"} /\ waiting' = "canceled" /\ UNCHANGED token

\* The coroutine resumes, or it is destroyed.
Return == waiting \in {"yes", "woken", "canceled"} /\ waiting' = "no" /\ UNCHANGED token

Next == Suspend \/ Consume \/ Wake \/ Latch \/ Cancel \/ Return

\* A wait that was woken or canceled returns.
Spec ==
    /\ Init /\ [][Next]_vars
    /\ WF_vars(waiting \in {"woken", "canceled"} /\ Return)
=============================================================================
