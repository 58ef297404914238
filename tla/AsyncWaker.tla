----------------------------- MODULE AsyncWaker -----------------------------
(***************************************************************************)
(* async_waker: a coroutine that waits again and again, threads that call  *)
(* wake(), the stop callback of the wait, and the owner that destroys the  *)
(* waker.  The atomic st_ arbitrates between them, and one action is one   *)
(* access to it or to the stop callback.                                   *)
(*                                                                         *)
(* A load of st_ followed by a compare-exchange that retries on failure is *)
(* one step: the exchange succeeds only on the value that was loaded.      *)
(***************************************************************************)
EXTENDS Naturals

CONSTANTS
    Threads,    \* callers of wake()
    MaxWaits,   \* bound: waits of the coroutine
    MaxWakes    \* bound: calls of wake() in all

ASSUME BoundsAssumption == MaxWaits \in Nat /\ MaxWakes \in Nat

VARIABLES
    alive,     \* "yes", "claimed" in ~async_waker past its claim, "no"
    st_,
    flags,     \* the members of the wait_awaiter that are true
    co,        \* where the coroutine is
    cb,        \* the stop callback of this wait
    stop,      \* "yes" once stop was requested
    wk,        \* where each caller of wake() is
    waits, wakes

counters == <<waits, wakes>>
vars == <<alive, st_, flags, co, cb, stop, wk, counters>>

Init ==
    /\ alive = "yes" /\ st_ = "empty" /\ flags = {} /\ co = "idle" /\ cb = "none"
    /\ stop = "no" /\ wk = [t \in Threads |-> "idle"]
    /\ waits = 0 /\ wakes = 0

Goto(t, l) == wk' = [wk EXCEPT ![t] = l]

\* ~stop_callback waits for a callback that is running on another thread.
DestroyCallback == cb \notin {"running", "won"} /\ cb' = "none"

-----------------------------------------------------------------------------
(* wait(), on the executor thread.                                         *)

await_ready ==
    /\ co = "idle" /\ alive = "yes" /\ waits < MaxWaits /\ waits' = waits + 1
    /\ flags' = {}
    /\ \/ st_ = "token" /\ st_' = "empty" /\ co' = "resuming"
       \/ st_ # "token" /\ co' = "suspending" /\ UNCHANGED st_
    /\ UNCHANGED <<alive, cb, stop, wk, wakes>>

\* await_suspend(): the first look at the stop token, and the registration.  A
\* stop requested in between runs the callback inside the registration, where
\* it finds nothing to claim.
suspend_register ==
    /\ co = "suspending"
    /\ \/ /\ stop = "yes" /\ flags' = flags \cup {"canceled"} /\ co' = "resuming"
          /\ UNCHANGED cb
       \/ /\ stop = "no" /\ cb' = "registered" /\ co' = "registered"
          /\ flags' = flags \cup {"active", "published"}
    /\ UNCHANGED <<alive, st_, stop, wk, counters>>

\* Mutant: the slot is taken whatever it holds.
suspend_arm_blind ==
    /\ co = "registered" /\ st_' = "arming" /\ co' = "arming"
    /\ UNCHANGED <<alive, flags, cb, stop, wk, counters>>

\* The compare-exchange from empty to arming, which fails on a token latched
\* since await_ready().
suspend_arm ==
    /\ co = "registered"
    /\ \/ st_ = "empty" /\ st_' = "arming" /\ co' = "arming"
       \/ st_ # "empty" /\ co' = "unpublish" /\ UNCHANGED st_
    /\ UNCHANGED <<alive, flags, cb, stop, wk, counters>>

\* The token is consumed: the callback goes first, then the slot is emptied.
suspend_consume ==
    /\ co = "unpublish" /\ DestroyCallback
    /\ flags' = flags \ {"active", "published"}
    /\ st_' = "empty" /\ co' = "resuming"
    /\ UNCHANGED <<alive, stop, wk, counters>>

\* Mutant: a stop requested during the registration is not looked for.
suspend_check_not ==
    /\ co = "arming" /\ co' = "publishing"
    /\ UNCHANGED <<alive, st_, flags, cb, stop, wk, counters>>

\* Arming: a stop requested meanwhile is settled here, where nothing else can
\* claim the waiter.
suspend_check ==
    /\ co = "arming"
    /\ \/ /\ stop = "yes" /\ st_' = "empty" /\ co' = "resuming"
          /\ flags' = (flags \ {"published"}) \cup {"canceled"}
       \/ stop = "no" /\ co' = "publishing" /\ UNCHANGED <<st_, flags>>
    /\ UNCHANGED <<alive, cb, stop, wk, counters>>

\* The store of armed, the last touch of the waker by the waiter.
suspend_publish ==
    /\ co = "publishing" /\ st_' = "armed" /\ co' = "suspended"
    /\ UNCHANGED <<alive, flags, cb, stop, wk, counters>>

\* await_resume(), at once or when the executor runs the posted coroutine.
await_resume ==
    /\ co \in {"resuming", "posted"} /\ co' = "idle"
    /\ IF "active" \in flags THEN DestroyCallback ELSE UNCHANGED cb
    /\ flags' = flags \ {"active", "published"}
    /\ UNCHANGED <<alive, st_, stop, wk, counters>>

-----------------------------------------------------------------------------
(* The stop callback, on the thread that requests the stop.                *)

request_stop ==
    /\ stop = "no" /\ stop' = "yes"
    /\ cb' = (IF cb = "registered" THEN "running" ELSE cb)
    /\ UNCHANGED <<alive, st_, flags, co, wk, counters>>

\* Mutant: claim_armed() succeeds on an empty slot.
cancel_claim_empty ==
    /\ cb = "running"
    /\ \/ st_ \in {"armed", "empty"} /\ st_' = "empty" /\ cb' = "won"
       \/ st_ = "token" /\ cb' = "ran" /\ UNCHANGED st_
    /\ UNCHANGED <<alive, flags, co, stop, wk, counters>>

\* cancel_fn: claim_armed().
cancel_claim ==
    /\ cb = "running"
    /\ \/ st_ = "armed" /\ st_' = "empty" /\ cb' = "won"
       \/ st_ \in {"empty", "token"} /\ cb' = "ran" /\ UNCHANGED st_
    /\ UNCHANGED <<alive, flags, co, stop, wk, counters>>

\* cancel_fn, having claimed, posts the coroutine.
cancel_post ==
    /\ cb = "won" /\ cb' = "ran"
    /\ flags' = flags \cup {"canceled", "claimed"} /\ co' = "posted"
    /\ UNCHANGED <<alive, st_, stop, wk, counters>>

-----------------------------------------------------------------------------
(* wake(), on any thread.                                                  *)

wake(t) ==
    /\ wk[t] = "idle" /\ alive = "yes" /\ wakes < MaxWakes /\ wakes' = wakes + 1
    /\ Goto(t, "try")
    /\ UNCHANGED <<alive, st_, flags, co, cb, stop, waits>>

\* One turn of the loop: a token is there or is latched, or the armed waiter is
\* claimed; while the waiter is arming the loop spins.
wake_try(t) ==
    /\ wk[t] = "try"
    /\ \/ st_ = "token" /\ Goto(t, "idle") /\ UNCHANGED st_
       \/ st_ = "empty" /\ st_' = "token" /\ Goto(t, "idle")
       \/ st_ = "armed" /\ st_' = "empty" /\ Goto(t, "claimed")
    /\ UNCHANGED <<alive, flags, co, cb, stop, counters>>

\* Mutant: the stop callback is left to the resumed coroutine.
wake_deregister_not(t) ==
    /\ wk[t] = "claimed" /\ Goto(t, "deregistered")
    /\ UNCHANGED <<alive, st_, flags, co, cb, stop, counters>>

\* The winner destroys the stop callback, waiting out one that is running.
wake_deregister(t) ==
    /\ wk[t] = "claimed" /\ DestroyCallback /\ flags' = flags \ {"active"}
    /\ Goto(t, "deregistered")
    /\ UNCHANGED <<alive, st_, co, stop, counters>>

wake_post(t) ==
    /\ wk[t] = "deregistered" /\ Goto(t, "idle")
    /\ flags' = flags \cup {"claimed"} /\ co' = "posted"
    /\ UNCHANGED <<alive, st_, cb, stop, counters>>

-----------------------------------------------------------------------------
(* Destruction.  No wake() is in progress, or comes later.                 *)

NoWake == \A t \in Threads : wk[t] = "idle"

\* The executor thread is not inside await_suspend() or await_resume().
Free == co \in {"idle", "suspended", "posted", "gone"}

\* A suspended frame is torn down with no wake() or stop callback under way:
\* ~wait_awaiter takes it out of the slot.
destroy_suspended ==
    /\ co = "suspended" /\ NoWake /\ alive # "claimed" /\ cb \notin {"running", "won"}
    /\ co' = "gone" /\ cb' = "none" /\ flags' = flags \ {"active"}
    /\ st_' = (IF st_ = "armed" THEN "empty" ELSE st_)
    /\ UNCHANGED <<alive, stop, wk, counters>>

\* The executor abandons a coroutine it has queued; the waker may be gone.
abandon_posted ==
    /\ co = "posted" /\ co' = "gone"
    /\ IF "active" \in flags THEN DestroyCallback ELSE UNCHANGED cb
    /\ flags' = flags \ {"active"}
    /\ UNCHANGED <<alive, st_, stop, wk, counters>>

\* ~async_waker: claim_armed().
destroy_waker ==
    /\ alive = "yes" /\ NoWake /\ Free
    /\ \/ st_ = "armed" /\ st_' = "empty" /\ alive' = "claimed"
       \/ st_ # "armed" /\ alive' = "no" /\ UNCHANGED st_
    /\ UNCHANGED <<flags, co, cb, stop, wk, counters>>

\* ~async_waker deregisters the callback and posts the waiter, which the
\* executor may abandon at once.
destroy_waker_post ==
    /\ alive = "claimed" /\ DestroyCallback /\ alive' = "no"
    /\ flags' = (flags \ {"active"}) \cup {"canceled", "claimed"}
    /\ co' \in {"posted", "gone"}
    /\ UNCHANGED <<st_, stop, wk, counters>>

-----------------------------------------------------------------------------
CoroutineStep ==
    \/ suspend_register \/ suspend_arm \/ suspend_consume \/ suspend_check
    \/ suspend_publish \/ await_resume

CallbackStep == cancel_claim \/ cancel_post

WakeStep(t) == wake_try(t) \/ wake_deregister(t) \/ wake_post(t)

Next ==
    \/ await_ready \/ CoroutineStep \/ request_stop \/ CallbackStep
    \/ \E t \in Threads : wake(t) \/ WakeStep(t)
    \/ destroy_suspended \/ abandon_posted \/ destroy_waker \/ destroy_waker_post

Spec == Init /\ [][Next]_vars

\* Every thread that is inside the waker's code keeps running, and the executor
\* resumes what it was given.
FairSpec ==
    /\ Spec /\ WF_vars(CoroutineStep) /\ WF_vars(CallbackStep)
    /\ WF_vars(destroy_waker_post)
    /\ \A t \in Threads : WF_vars(WakeStep(t))

-----------------------------------------------------------------------------
(* Properties.                                                             *)

\* The type of every variable.
TypeOK ==
    /\ alive \in {"yes", "claimed", "no"}
    /\ st_ \in {"empty", "token", "armed", "arming"}
    /\ flags \subseteq {"canceled", "active", "published", "claimed"}
    /\ co \in {"idle", "suspending", "registered", "unpublish", "arming", "publishing",
               "resuming", "suspended", "posted", "gone"}
    /\ cb \in {"none", "registered", "running", "won", "ran"}
    /\ stop \in {"yes", "no"}
    /\ wk \in [Threads -> {"idle", "try", "claimed", "deregistered"}]
    /\ waits \in Nat /\ wakes \in Nat

\* The calls of wake() that have claimed the waiter.
Claiming == {t \in Threads : wk[t] \in {"claimed", "deregistered"}}

\* One winner: among the wake() calls, the stop callback and ~async_waker at
\* most one has claimed the waiter, and then the waiter is suspended, out of
\* the slot, and stays so until that one posts it.  The slot says whether a waiter
\* is there, and await_suspend() finds it empty or with a token, as its assertion
\* says.
OneWinner ==
    /\ \A t, u \in Claiming : t = u
    /\ Claiming # {} => cb # "won" /\ alive = "yes"
    /\ cb = "won" => alive # "claimed"
    /\ (Claiming # {} \/ cb = "won" \/ alive = "claimed")
           => co = "suspended" /\ st_ \in {"empty", "token"}
    /\ co \in {"registered", "unpublish"} => st_ \in {"empty", "token"}
    /\ co = "unpublish" => st_ = "token"
    /\ st_ = "arming" <=> co \in {"arming", "publishing"}
    /\ st_ = "armed" => co = "suspended"

\* Once the waker is gone nothing reaches it: no stop callback is on its way
\* to the slot, and a queued waiter is marked claimed, so that its destructor
\* leaves the slot alone.
NothingReachesDeadWaker ==
    alive = "no" =>
        /\ cb # "running" /\ NoWake
        /\ co \in {"idle", "posted", "suspended", "gone"}
        /\ co = "posted" => "claimed" \in flags
        /\ co = "suspended" => cb = "won"

\* Nobody waits for ever.  A stop request ends the wait, even one made while
\* the callback is being registered or the waiter is being published; and every
\* wake() returns, as its loops that wait for an arming waiter and for a running
\* stop callback end.
NobodyStuck ==
    /\ (stop = "yes" /\ co = "suspended") ~> (co # "suspended")
    /\ \A t \in Threads : (wk[t] # "idle") ~> (wk[t] = "idle")

\* The refinement mapping: the result of a wait that is over, and the state of
\* the wait.
Outcome == IF "canceled" \in flags THEN "canceled" ELSE "woken"

Waiting ==
    IF co \in {"resuming", "posted"} THEN Outcome
    ELSE IF co # "suspended" THEN "no"
    ELSE IF st_ = "armed" THEN "yes"
    ELSE IF Claiming # {} THEN "woken" ELSE "canceled"

Abstract == INSTANCE WakerSpec WITH
    token <- IF st_ = "token" THEN "yes" ELSE "no", waiting <- Waiting

\* The waker implements its abstract specification: a wake() that loses to a
\* cancellation, or comes between await_ready() and await_suspend(), leaves a
\* token or completes the wait, and a claimed wait returns.
ImplementsWakerSpec == Abstract!Spec
=============================================================================
