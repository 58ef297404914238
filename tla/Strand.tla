------------------------------- MODULE Strand -------------------------------
(***************************************************************************)
(* One strand: its strand_impl, the strand_service that owns it, and the   *)
(* threads that post to it, dispatch through it and run its invoker.       *)
(*                                                                         *)
(* A critical section of the impl's mutex is one action.  What the code    *)
(* does outside the mutex (the first load of service_, the post of the     *)
(* invoker, the resumption of a batch, the store that clears the dispatch  *)
(* thread) is an action of its own, so every interleaving of those with    *)
(* the critical sections of other threads is explored.                     *)
(***************************************************************************)
EXTENDS Naturals, Sequences

CONSTANTS
    Threads,        \* the threads that call the strand or run its invoker
    Conts,          \* the continuations handed to the strand, once each
    None,           \* "no thread" and "no continuation"
    DropRace        \* may the last handle go while shutdown() closes the strand?

ASSUME NoneAssumption == None \notin Threads \cup Conts
ASSUME DropAssumption == DropRace \in BOOLEAN

VARIABLES
    impl,              \* "unborn", "alive", "freed": the strand_impl's storage
    handle,            \* "held" while user code holds a strand handle
    service_,          \* the impl's service_ pointer: "null" or "svc"
    locked_,           \* the impl's locked_: "yes" or "no"
    pending_,          \* the impl's queue
    dispatch_thread_,  \* the impl's dispatch_thread_
    sd,                \* where the service's shutdown() and destruction stand
    doomed,            \* shutdown()'s local batch
    posted,            \* invokers waiting in the inner executor's queue
    inv, batch, exec,  \* per thread: its invoker's step, batch and coroutine
    callpc, callc,     \* per thread: the post/dispatch call in progress
    ran, abandoned, thrown  \* what became of each continuation

impl_vars == <<impl, handle, service_, locked_, pending_, dispatch_thread_>>
service_vars == <<sd, doomed>>
invoker_vars == <<posted, inv, batch, exec>>
call_vars == <<callpc, callc>>
fate_vars == <<ran, abandoned, thrown>>
vars == <<impl_vars, service_vars, invoker_vars, call_vars, fate_vars>>

-----------------------------------------------------------------------------
(* Where a continuation is.                                                *)

Contents(s) == {s[i] : i \in DOMAIN s}

\* Held by a call that has not queued it (yet), or that took it back.
InCall(t) == callpc[t] \in {"check", "lock", "repost", "giveup"}

Finished == ran \cup abandoned \cup thrown

Batched == UNION {Contents(batch[t]) : t \in Threads}

Called == {callc[t] : t \in {u \in Threads : InCall(u)}}

Live == Contents(pending_) \cup Contents(doomed) \cup Batched \cup Called

Fresh(c) == c \notin Finished \cup Live

\* The strand's service is up, as far as service_ says.
Open == service_ = "svc"

\* The impl's mutex is free: only shutdown() holds it across two steps.
MutexFree == sd # "closing"

Init ==
    /\ impl = "unborn" /\ handle = "none"
    /\ service_ = "null" /\ locked_ = "no" /\ pending_ = <<>>
    /\ dispatch_thread_ = None
    /\ sd = "no" /\ doomed = <<>>
    /\ posted = 0
    /\ inv = [t \in Threads |-> "none"]
    /\ batch = [t \in Threads |-> <<>>]
    /\ exec = [t \in Threads |-> None]
    /\ callpc = [t \in Threads |-> "idle"]
    /\ callc = [t \in Threads |-> None]
    /\ ran = {} /\ abandoned = {} /\ thrown = {}

-----------------------------------------------------------------------------
(* The strand handle.                                                      *)

\* strand::strand: a strand created after shutdown() is born closed.
create_implementation ==
    /\ impl = "unborn" /\ sd \in {"no", "abandon", "done"}
    /\ impl' = "alive" /\ handle' = "held"
    /\ IF sd = "no"
       THEN locked_' = "no" /\ service_' = "svc"
       ELSE locked_' = "yes" /\ service_' = "null"
    /\ UNCHANGED <<pending_, dispatch_thread_,
                   service_vars, invoker_vars, call_vars, fate_vars>>

\* The last strand handle goes; a call borrows its caller's handle.
DropHandle ==
    /\ handle = "held" /\ \A t \in Threads : callpc[t] = "idle"
    /\ handle' = "none"
    /\ UNCHANGED <<impl, service_, locked_, pending_, dispatch_thread_,
                   service_vars, invoker_vars, call_vars, fate_vars>>

\* ~strand_impl, run by whoever drops the last shared_ptr: the invoker's
\* frame holds one too.  It takes the service's mutex, which shutdown()
\* holds while it closes the strand, only when service_ is not null.
destroy_impl ==
    /\ impl = "alive" /\ handle # "held"
    /\ posted = 0 /\ \A t \in Threads : inv[t] = "none"
    /\ MutexFree \/ (DropRace /\ ~Open)
    /\ impl' = "freed"
    /\ abandoned' = abandoned \cup Contents(pending_) /\ pending_' = <<>>
    /\ UNCHANGED <<handle, service_, locked_, dispatch_thread_,
                   service_vars, invoker_vars, call_vars, ran, thrown>>

-----------------------------------------------------------------------------
(* post() and dispatch().                                                  *)

\* A thread calls from outside the strand, or from a coroutine it runs.
MayCall(t) ==
    /\ handle = "held" /\ callpc[t] = "idle"
    /\ inv[t] = "none" \/ exec[t] # None

Goto(t, l) == callpc' = [callpc EXCEPT ![t] = l]

\* The call of t is over: its continuation is no longer in t's hands.
Return(t) == Goto(t, "idle") /\ callc' = [callc EXCEPT ![t] = None]

post(t, c) ==
    /\ MayCall(t) /\ Fresh(c)
    /\ Goto(t, "check") /\ callc' = [callc EXCEPT ![t] = c]
    /\ UNCHANGED <<impl_vars, service_vars, invoker_vars, fate_vars>>

\* Mutant: dispatch() asks whether the strand is dispatching, not who is.
dispatch_any_thread(t, c) ==
    \/ /\ MayCall(t) /\ Fresh(c) /\ dispatch_thread_ # None
       /\ exec' = [exec EXCEPT ![t] = c] /\ ran' = ran \cup {c}
       /\ UNCHANGED <<impl_vars, service_vars, posted, inv, batch, call_vars,
                      abandoned, thrown>>
    \/ dispatch_thread_ = None /\ post(t, c)

\* dispatch(): a caller already in the strand transfers to c (the handle
\* returned is c.h) without queueing it; any other call posts.
dispatch(t, c) ==
    \/ /\ MayCall(t) /\ Fresh(c) /\ dispatch_thread_ = t
       /\ exec' = [exec EXCEPT ![t] = c] /\ ran' = ran \cup {c}
       /\ UNCHANGED <<impl_vars, service_vars, posted, inv, batch, call_vars,
                      abandoned, thrown>>
    \/ dispatch_thread_ # t /\ post(t, c)

\* strand_queue::push.
push(c) == pending_' = Append(pending_, c)

\* enqueue()'s first load of service_, which no mutex covers.
enqueue_check(t) ==
    /\ callpc[t] = "check"
    /\ \/ Open /\ Goto(t, "lock") /\ UNCHANGED <<callc, abandoned>>
       \/ /\ ~Open /\ Return(t)
          /\ abandoned' = abandoned \cup {callc[t]}
    /\ UNCHANGED <<impl_vars, service_vars, invoker_vars, ran, thrown>>

\* Mutant: service_ is not loaded again under the mutex.
enqueue_lock_no_recheck(t) ==
    /\ callpc[t] = "lock" /\ MutexFree
    /\ push(callc[t]) /\ locked_' = "yes"
    /\ IF locked_ = "yes" THEN Return(t) ELSE Goto(t, "post") /\ UNCHANGED callc
    /\ UNCHANGED <<impl, handle, service_, dispatch_thread_,
                   service_vars, invoker_vars, fate_vars>>

\* enqueue()'s critical section: service_ is loaded again under the mutex.
enqueue_lock(t) ==
    /\ callpc[t] = "lock" /\ MutexFree
    /\ \/ /\ Open
          /\ push(callc[t])
          /\ locked_' = "yes"
          /\ IF locked_ = "yes" THEN Return(t) ELSE Goto(t, "post") /\ UNCHANGED callc
          /\ UNCHANGED abandoned
       \/ /\ ~Open /\ Return(t)
          /\ abandoned' = abandoned \cup {callc[t]}
          /\ UNCHANGED <<pending_, locked_>>
    /\ UNCHANGED <<impl, handle, service_, dispatch_thread_,
                   service_vars, invoker_vars, ran, thrown>>

\* post_invoker() from post_or_withdraw(); making or posting it may throw.
post_invoker(t) ==
    /\ callpc[t] = "post"
    /\ \/ posted' = posted + 1 /\ Return(t)
       \/ Goto(t, "withdraw") /\ UNCHANGED <<posted, callc>>
    /\ UNCHANGED <<impl_vars, service_vars, inv, batch, exec, fate_vars>>

\* Mutant: a withdrawal unlocks the strand even when others are queued.
withdraw_unlocks(t) ==
    /\ callpc[t] = "withdraw" /\ MutexFree /\ Open
    /\ pending_' = Tail(pending_) /\ locked_' = "no"
    /\ Return(t) /\ thrown' = thrown \cup {callc[t]}
    /\ UNCHANGED <<impl, handle, service_, dispatch_thread_,
                   service_vars, invoker_vars, ran, abandoned>>

\* withdraw(): "taken" returns, "alone" rethrows, "followed" posts again.
withdraw(t) ==
    /\ callpc[t] = "withdraw" /\ MutexFree
    /\ \/ /\ ~Open /\ Return(t)
          /\ UNCHANGED <<pending_, locked_, thrown>>
       \/ /\ Open /\ pending_' = Tail(pending_)
          /\ IF Tail(pending_) = <<>>
             THEN /\ locked_' = "no" /\ Return(t)
                  /\ thrown' = thrown \cup {callc[t]}
             ELSE Goto(t, "repost") /\ UNCHANGED <<locked_, callc, thrown>>
    /\ UNCHANGED <<impl, handle, service_, dispatch_thread_,
                   service_vars, invoker_vars, ran, abandoned>>

\* The second post_invoker(), for the work queued behind the withdrawn c.
repost_invoker(t) ==
    /\ callpc[t] = "repost"
    /\ \/ /\ posted' = posted + 1 /\ Return(t)
          /\ thrown' = thrown \cup {callc[t]}
       \/ Goto(t, "giveup") /\ UNCHANGED <<posted, callc, thrown>>
    /\ UNCHANGED <<impl_vars, service_vars, inv, batch, exec, ran, abandoned>>

\* abandon_pending(), then the rethrow that hands c back to its caller.
abandon_pending(t) ==
    /\ callpc[t] = "giveup" /\ MutexFree
    /\ \/ /\ Open /\ locked_' = "no" /\ pending_' = <<>>
          /\ abandoned' = abandoned \cup Contents(pending_)
       \/ ~Open /\ UNCHANGED <<locked_, pending_, abandoned>>
    /\ Return(t) /\ thrown' = thrown \cup {callc[t]}
    /\ UNCHANGED <<impl, handle, service_, dispatch_thread_,
                   service_vars, invoker_vars, ran>>

-----------------------------------------------------------------------------
(* The invoker, as the inner executor runs it on some thread.              *)

InvokerAt(t, l) == inv[t] = l /\ exec[t] = None

Step(t, l) == inv' = [inv EXCEPT ![t] = l]

\* The inner executor resumes a posted invoker on an idle thread.
run_invoker(t) ==
    /\ posted > 0 /\ InvokerAt(t, "none") /\ callpc[t] = "idle"
    /\ posted' = posted - 1 /\ Step(t, "set")
    /\ UNCHANGED <<impl_vars, service_vars, batch, exec, call_vars, fate_vars>>

\* A context that is going away abandons its queue after shutdown().
drop_invoker ==
    /\ posted > 0 /\ sd = "done"
    /\ posted' = posted - 1
    /\ UNCHANGED <<impl_vars, service_vars, inv, batch, exec, call_vars,
                   fate_vars>>

set_dispatch_thread(t) ==
    /\ InvokerAt(t, "set") /\ Step(t, "take")
    /\ dispatch_thread_' = t
    /\ UNCHANGED <<impl, handle, service_, locked_, pending_, service_vars,
                   posted, batch, exec, call_vars, fate_vars>>

\* dispatch_pending()'s critical section.
take_all(t) ==
    /\ InvokerAt(t, "take") /\ MutexFree /\ Step(t, "batch")
    /\ batch' = [batch EXCEPT ![t] = pending_] /\ pending_' = <<>>
    /\ UNCHANGED <<impl, handle, service_, locked_, dispatch_thread_,
                   service_vars, posted, exec, call_vars, fate_vars>>

\* Mutant: the batch is resumed from its other end.
dispatch_batch_lifo(t) ==
    /\ InvokerAt(t, "batch") /\ batch[t] # <<>>
    /\ exec' = [exec EXCEPT ![t] = batch[t][Len(batch[t])]]
    /\ ran' = ran \cup {batch[t][Len(batch[t])]}
    /\ batch' = [batch EXCEPT ![t] = SubSeq(@, 1, Len(@) - 1)]
    /\ UNCHANGED <<impl_vars, service_vars, posted, inv, call_vars,
                   abandoned, thrown>>

\* dispatch_batch() advances past the node before it resumes it.
dispatch_batch(t) ==
    /\ InvokerAt(t, "batch") /\ batch[t] # <<>>
    /\ exec' = [exec EXCEPT ![t] = Head(batch[t])]
    /\ ran' = ran \cup {Head(batch[t])}
    /\ batch' = [batch EXCEPT ![t] = Tail(@)]
    /\ UNCHANGED <<impl_vars, service_vars, posted, inv, call_vars,
                   abandoned, thrown>>

\* The coroutine suspends or finishes and control comes back.
coroutine_returns(t) ==
    /\ exec[t] # None /\ callpc[t] = "idle"
    /\ exec' = [exec EXCEPT ![t] = None]
    /\ UNCHANGED <<impl_vars, service_vars, posted, inv, batch, call_vars,
                   fate_vars>>

\* Mutant: the strand is released without looking at the queue.
try_unlock_unchecked(t) ==
    /\ InvokerAt(t, "batch") /\ batch[t] = <<>> /\ MutexFree
    /\ locked_' = "no" /\ Step(t, "clear")
    /\ UNCHANGED <<impl, handle, service_, pending_, dispatch_thread_,
                   service_vars, posted, batch, exec, call_vars, fate_vars>>

\* After the batch: try_unlock() fails when work arrived meanwhile.
try_unlock(t) ==
    /\ InvokerAt(t, "batch") /\ batch[t] = <<>> /\ MutexFree
    /\ \/ pending_ = <<>> /\ locked_' = "no" /\ Step(t, "clear")
       \/ pending_ # <<>> /\ Step(t, "set") /\ UNCHANGED locked_
    /\ UNCHANGED <<impl, handle, service_, pending_, dispatch_thread_,
                   service_vars, posted, batch, exec, call_vars, fate_vars>>

\* The strand is already unlocked when its dispatch thread is cleared.
clear_dispatch_thread(t) ==
    /\ InvokerAt(t, "clear") /\ Step(t, "none")
    /\ dispatch_thread_' = None
    /\ UNCHANGED <<impl, handle, service_, locked_, pending_, service_vars,
                   posted, batch, exec, call_vars, fate_vars>>

-----------------------------------------------------------------------------
(* The service's shutdown() and destruction.                               *)

\* shutdown() closes a strand in its list: it holds both mutexes from here
\* to shutdown_take, and the store to service_ is visible before that.
shutdown_close ==
    /\ sd = "no"
    /\ \/ /\ impl = "alive" /\ sd' = "closing"
          /\ locked_' = "yes" /\ service_' = "null"
       \/ impl # "alive" /\ sd' = "abandon" /\ UNCHANGED <<locked_, service_>>
    /\ UNCHANGED <<impl, handle, pending_, dispatch_thread_, doomed,
                   invoker_vars, call_vars, fate_vars>>

shutdown_take ==
    /\ sd = "closing" /\ sd' = "abandon"
    /\ doomed' = pending_ /\ pending_' = <<>>
    /\ UNCHANGED <<impl, handle, service_, locked_, dispatch_thread_,
                   invoker_vars, call_vars, fate_vars>>

\* abandon_batch(doomed), outside the mutexes.
shutdown_abandon ==
    /\ sd = "abandon" /\ sd' = "done"
    /\ abandoned' = abandoned \cup Contents(doomed) /\ doomed' = <<>>
    /\ UNCHANGED <<impl_vars, invoker_vars, call_vars, ran, thrown>>

\* The context destroys its services.  The strand's documentation asks that
\* no post or dispatch and no invoker be under way on another thread.
service_destroyed ==
    /\ sd = "done" /\ posted = 0
    /\ \A t \in Threads : callpc[t] = "idle" /\ inv[t] = "none"
    /\ sd' = "destroyed"
    /\ UNCHANGED <<impl_vars, doomed, invoker_vars, call_vars, fate_vars>>

-----------------------------------------------------------------------------
CallStep(t) ==
    \/ enqueue_check(t) \/ enqueue_lock(t) \/ post_invoker(t) \/ withdraw(t)
    \/ repost_invoker(t) \/ abandon_pending(t)

InvokerStep(t) ==
    \/ set_dispatch_thread(t) \/ take_all(t) \/ dispatch_batch(t)
    \/ coroutine_returns(t) \/ try_unlock(t) \/ clear_dispatch_thread(t)

Next ==
    \/ create_implementation \/ DropHandle \/ destroy_impl
    \/ \E t \in Threads, c \in Conts :
           post(t, c) \/ dispatch(t, c)
    \/ \E t \in Threads : CallStep(t) \/ InvokerStep(t) \/ run_invoker(t)
    \/ drop_invoker
    \/ shutdown_close \/ shutdown_take \/ shutdown_abandon
    \/ service_destroyed

Spec == Init /\ [][Next]_vars

\* The threads are scheduled and the inner executor runs what is posted to
\* it; nothing obliges anyone to call, to drop a handle or to shut down.
FairSpec ==
    /\ Spec
    /\ \A t \in Threads : WF_vars(CallStep(t)) /\ WF_vars(InvokerStep(t))
    /\ WF_vars(\E t \in Threads : run_invoker(t))
    /\ WF_vars(shutdown_take) /\ WF_vars(shutdown_abandon)

-----------------------------------------------------------------------------
(* Properties.                                                             *)

Pcs == {"idle", "check", "lock", "post", "withdraw", "repost", "giveup"}

\* The type of every variable.
TypeOK ==
    /\ impl \in {"unborn", "alive", "freed"} /\ handle \in {"held", "none"}
    /\ service_ \in {"svc", "null"} /\ locked_ \in {"yes", "no"}
    /\ pending_ \in Seq(Conts) /\ doomed \in Seq(Conts)
    /\ dispatch_thread_ \in Threads \cup {None}
    /\ sd \in {"no", "closing", "abandon", "done", "destroyed"}
    /\ posted \in Nat
    /\ inv \in [Threads -> {"none", "set", "take", "batch", "clear"}]
    /\ batch \in [Threads -> Seq(Conts)]
    /\ exec \in [Threads -> Conts \cup {None}]
    /\ callpc \in [Threads -> Pcs]
    /\ callc \in [Threads -> Conts \cup {None}]
    /\ \A t \in Threads : callpc[t] # "idle" => callc[t] # None
    /\ ran \subseteq Conts /\ abandoned \subseteq Conts /\ thrown \subseteq Conts

\* "Coroutines resumed through a strand shall not run concurrently": however
\* posts, dispatches, failed posts and a shutdown interleave, at most one
\* thread is inside a coroutine of the strand.
MutualExclusion ==
    \A t, u \in Threads : exec[t] # None /\ exec[u] # None => t = u

\* A thread runs the strand's invoker, up to the try_unlock() that releases it.
Invoking(t) == inv[t] \in {"set", "take", "batch"}

\* A thread locked the strand in enqueue() and still owes it an invoker.
Owing(t) == callpc[t] \in {"post", "withdraw", "repost", "giveup"}

Responsible(t) == Invoking(t) \/ Owing(t)

\* What locked_ means: while the service is up, the strand is locked exactly
\* when one party (an invoker in the executor's queue, an invoker running, or
\* a caller about to post one) is responsible for the queue, and there are
\* never two, not even after a shutdown cleared service_ under them.  Queued
\* work of an open strand is therefore never stranded: it keeps it locked.
LockedMeansOneResponsible ==
    /\ posted <= 1
    /\ \A t \in Threads : Responsible(t) => posted = 0
    /\ \A t, u \in Threads : Responsible(t) /\ Responsible(u) => t = u
    /\ \A t \in Threads : ~(Invoking(t) /\ Owing(t))
    /\ Open => (locked_ = "yes" <=> posted = 1 \/ \E t \in Threads : Responsible(t))
    /\ Open /\ pending_ # <<>> => locked_ = "yes"

\* The assertion of withdraw(): nothing takes from the queue while it waits
\* for its invoker, so the withdrawn continuation is still the first.
WithdrawnIsFirst ==
    \A t \in Threads :
        callpc[t] \in {"post", "withdraw"} /\ Open =>
            pending_ # <<>> /\ Head(pending_) = callc[t]

\* The queue of an open strand has one party responsible for it while there is
\* anything in it, however posts, failed posts and withdrawals interleave, and that
\* party finds in it what it relies on (strand_service.cpp, enqueue() to
\* abandon_pending()).
QueueHasOneOwner == LockedMeansOneResponsible /\ WithdrawnIsFirst

\* After shutdown() nothing is queued on the strand, whatever raced it: each
\* continuation was taken by an invoker before, or abandoned.
ClosedIsEmpty == ~Open /\ MutexFree => pending_ = <<>>

\* The mutex a strand borrows goes with the service; a call on a strand whose
\* service is gone never reaches a critical section.
NoLockAfterDestroy ==
    sd = "destroyed" => \A t \in Threads : callpc[t] \in {"idle", "check"}

\* Shutdown is final: a call that raced it neither leaves work behind on the closed
\* strand nor reaches a mutex that went with the service (strand_service.cpp,
\* enqueue() and shutdown()).
ShutdownIsFinal == ClosedIsEmpty /\ NoLockAfterDestroy

\* running_in_this_thread() as documented: "true if the current thread is
\* executing a coroutine within this strand's dispatch loop".
RunningInThisThread ==
    \A t \in Threads : inv[t] = "batch" /\ exec[t] # None => dispatch_thread_ = t

\* The converse: dispatch() only runs a continuation in place on a thread that
\* is inside the dispatch loop.
NoForeignInline ==
    \A t \in Threads : exec[t] # None => inv[t] = "batch"

\* "Destroying the strand handle itself is always safe": shutdown() is not
\* using a strand_impl that its last handle has freed.
ImplOutlivesShutdown == sd = "closing" => impl = "alive"

\* Every continuation handed to the strand is eventually resumed, abandoned or
\* handed back by an exception.
EveryCallSettled ==
    \A c \in Conts : (c \in Live) ~> (c \in Finished)

=============================================================================
