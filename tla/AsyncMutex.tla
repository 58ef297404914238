----------------------------- MODULE AsyncMutex -----------------------------
(***************************************************************************)
(* async_mutex: one mutex, the coroutines that lock it, each once, and the *)
(* stop callbacks that cancel their waits.                                 *)
(*                                                                         *)
(* Everything but the stop callback runs on one executor thread, and one   *)
(* action is what that thread does up to the next point where it calls     *)
(* out: posting a waiter may abandon it on the spot, which runs the        *)
(* waiter's destructor, and with it unlock() or ~async_mutex, inside the   *)
(* unlock() that posted it.  The stop callback runs on any thread, and its *)
(* claim and its post are two actions.                                     *)
(*                                                                         *)
(* A quitter whose stop token was triggered does not get the result of its *)
(* lock(): it unwinds from there, and the awaiter's destructor is all that *)
(* runs.                                                                   *)
(***************************************************************************)
EXTENDS Naturals, FiniteSets, Sequences, Functions

CONSTANTS
    Waiters,     \* the coroutines
    Stoppable,   \* those whose stop token has a stop source
    Quitters,    \* those that are quitters
    None

ASSUME WaitersAssumption ==
    Stoppable \subseteq Waiters /\ Quitters \subseteq Waiters /\ None \notin Waiters

VARIABLES
    alive,                 \* "yes", "dying" inside ~async_mutex, "no"
    locked_, waiters_, granted_to_,
    unlocking_,            \* "yes" while an unlock() is in progress
    claimed, canceled, active, granted, in_list,  \* flags of the lock_awaiters
    st,                    \* where each coroutine is
    queue,                 \* the executor's queue
    stopped,               \* whose stop token was triggered
    fired, firing,         \* stop callbacks that ran, and that are running
    got, refused,          \* results: locked, error::canceled
    lost,                  \* "yes" once a quitter unwound with a lock it just took
    arrived                \* the order in which the waiters suspended

mutex_vars == <<alive, locked_, granted_to_, unlocking_>>
flag_vars == <<canceled, active, in_list>>
stop_vars == <<stopped, fired, firing>>
result_vars == <<got, refused, lost, arrived>>
vars == <<mutex_vars, waiters_, claimed, granted, flag_vars, st, queue,
          stop_vars, result_vars>>

Init ==
    /\ alive = "yes" /\ locked_ = "no" /\ waiters_ = <<>> /\ granted_to_ = None
    /\ unlocking_ = "no"
    /\ claimed = {} /\ canceled = {} /\ active = {} /\ granted = {} /\ in_list = {}
    /\ st = [w \in Waiters |-> "new"] /\ queue = <<>>
    /\ stopped = {} /\ fired = {} /\ firing = {}
    /\ got = {} /\ refused = {} /\ lost = "no" /\ arrived = <<>>

-----------------------------------------------------------------------------
\* The executor thread is between coroutines.
Free == unlocking_ = "no" /\ alive # "dying"

Goto(w, l) == st' = [st EXCEPT ![w] = l]

\* quitter's transform_awaiter::await_resume() throws instead of the result.
Quits(w) == w \in Quitters \cap stopped

\* A queue without w, which is in it once.
Without(s, w) ==
    LET i == CHOOSE k \in DOMAIN s : s[k] = w
    IN  SubSeq(s, 1, i - 1) \o SubSeq(s, i + 1, Len(s))

\* waiters_.remove(w).
Unlinked(w) == Without(waiters_, w)

-----------------------------------------------------------------------------
(* lock().                                                                 *)

\* Mutant: a waiter goes to the front of the queue.
enqueue_front(w) == waiters_' = <<w>> \o waiters_

enqueue(w) == waiters_' = Append(waiters_, w)

\* await_ready() and await_suspend(), on the executor thread.  await_ready() takes a
\* free lock, and a quitter that was stopped unwinds from await_resume() without it.
lock(w) ==
    /\ st[w] = "new" /\ Free /\ alive = "yes"
    /\ \/ /\ locked_ = "no" /\ locked_' = "yes" /\ ~Quits(w)
          /\ Goto(w, "holding") /\ got' = got \cup {w}
          /\ UNCHANGED <<waiters_, canceled, active, in_list, refused, lost, arrived>>
       \/ /\ locked_ = "no" /\ locked_' = "yes" /\ Quits(w)
          /\ Goto(w, "done") /\ lost' = "yes"
          /\ UNCHANGED <<waiters_, canceled, active, in_list, got, refused, arrived>>
       \/ /\ locked_ = "yes" /\ w \in stopped
          /\ canceled' = canceled \cup {w}
          /\ refused' = (IF Quits(w) THEN refused ELSE refused \cup {w})
          /\ Goto(w, "done")
          /\ UNCHANGED <<locked_, waiters_, active, in_list, got, lost, arrived>>
       \/ /\ locked_ = "yes" /\ w \notin stopped
          /\ enqueue(w) /\ in_list' = in_list \cup {w}
          /\ active' = active \cup {w} /\ Goto(w, "waiting")
          /\ arrived' = Append(arrived, w)
          /\ UNCHANGED <<locked_, canceled, got, refused, lost>>
    /\ UNCHANGED <<alive, granted_to_, unlocking_, claimed, granted, queue,
                   stop_vars>>

\* The executor resumes w: await_resume().
await_resume(w) ==
    /\ st[w] = "posted" /\ Free /\ Head(queue) = w /\ queue' = Tail(queue) /\ ~Quits(w)
    /\ granted' = granted \ {w} /\ active' = active \ {w}
    /\ granted_to_' = (IF w \in granted THEN None ELSE granted_to_)
    /\ IF w \in canceled
       THEN /\ waiters_' = (IF w \in in_list THEN Unlinked(w) ELSE waiters_)
            /\ in_list' = in_list \ {w}
            /\ Goto(w, "done") /\ refused' = refused \cup {w} /\ UNCHANGED got
       ELSE /\ Goto(w, "holding") /\ got' = got \cup {w}
            /\ UNCHANGED <<waiters_, in_list, refused>>
    /\ UNCHANGED <<alive, locked_, unlocking_, claimed, canceled, stop_vars, lost, arrived>>

-----------------------------------------------------------------------------
(* Cancellation, from any thread.                                          *)

request_stop(w) ==
    /\ w \in Stoppable \ stopped /\ stopped' = stopped \cup {w}
    /\ UNCHANGED <<mutex_vars, waiters_, claimed, granted, flag_vars, st, queue,
                   fired, firing, result_vars>>

\* cancel_fn: claimed_.exchange(true).
cancel_claim(w) ==
    /\ w \in (stopped \cap active) \ fired /\ fired' = fired \cup {w}
    /\ claimed' = claimed \cup {w}
    /\ firing' = (IF w \in claimed THEN firing ELSE firing \cup {w})
    /\ UNCHANGED <<mutex_vars, waiters_, granted, flag_vars, st, queue, stopped,
                   result_vars>>

\* cancel_fn, having claimed: canceled_ = true and the post.
cancel_post(w) ==
    /\ w \in firing /\ firing' = firing \ {w}
    /\ canceled' = canceled \cup {w}
    /\ Goto(w, "posted") /\ queue' = Append(queue, w)
    /\ UNCHANGED <<mutex_vars, waiters_, claimed, granted, active, in_list,
                   stopped, fired, result_vars>>

-----------------------------------------------------------------------------
(* unlock().                                                               *)

\* The holder calls unlock().
unlock(w) ==
    /\ st[w] = "holding" /\ Free /\ alive = "yes"
    /\ unlocking_' = "yes" /\ Goto(w, "done")
    /\ UNCHANGED <<alive, locked_, granted_to_, waiters_, claimed, granted,
                   flag_vars, queue, stop_vars, result_vars>>

\* grant_next() pops the waiters that a stop callback has claimed, and hands the
\* lock to the next one.
grant_next(w) ==
    \E i \in DOMAIN waiters_ :
        /\ waiters_[i] = w /\ w \notin claimed
        /\ \A j \in 1 .. i - 1 : waiters_[j] \in claimed
        /\ waiters_' = SubSeq(waiters_, i + 1, Len(waiters_))
        /\ in_list' = in_list \ {waiters_[j] : j \in 1 .. i}
        /\ claimed' = claimed \cup {w}

\* grant_next() finds nobody: the mutex becomes unlocked.
release ==
    /\ unlocking_ = "yes" /\ Range(waiters_) \subseteq claimed
    /\ waiters_' = <<>> /\ in_list' = {}
    /\ locked_' = "no" /\ unlocking_' = "no"
    /\ UNCHANGED <<alive, granted_to_, claimed, granted, canceled, active, st,
                   queue, stop_vars, result_vars>>

\* grant_next() finds w, and the executor takes its post.
grant(w) ==
    /\ unlocking_ = "yes" /\ grant_next(w)
    /\ granted' = granted \cup {w} /\ granted_to_' = w
    /\ Goto(w, "posted") /\ queue' = Append(queue, w)
    /\ unlocking_' = "no"
    /\ UNCHANGED <<alive, locked_, canceled, active, stop_vars, result_vars>>

\* Mutant: the outer unlock() does not look at scope.again.
grant_abandoned_stops(w) ==
    /\ unlocking_ = "yes" /\ grant_next(w)
    /\ active' = active \ {w} /\ Goto(w, "destroyed")
    /\ \/ unlocking_' = "no" /\ UNCHANGED alive
       \/ alive' = "dying" /\ unlocking_' = "no"
    /\ UNCHANGED <<locked_, granted_to_, granted, canceled, queue, stop_vars,
                   result_vars>>

\* grant_next() finds w, and the executor abandons it on the spot: its
\* ~lock_awaiter passes the lock on by re-entering unlock(), which sets
\* scope.again and makes the outer call look for another waiter.  The frame
\* may own the mutex, whose destructor then sets scope.gone.
grant_abandoned(w) ==
    /\ unlocking_ = "yes" /\ grant_next(w)
    /\ active' = active \ {w} /\ Goto(w, "destroyed")
    /\ \/ UNCHANGED <<alive, unlocking_>>
       \/ alive' = "dying" /\ unlocking_' = "no"
    /\ UNCHANGED <<locked_, granted_to_, granted, canceled, queue, stop_vars,
                   result_vars>>

-----------------------------------------------------------------------------
(* Destruction of frames and of the mutex, on the executor thread.         *)

\* A suspended frame is destroyed, possibly inside the post of another one.
\* No stop callback may be firing at it.
destroy_waiting(w) ==
    /\ st[w] = "waiting" /\ w \notin claimed
    /\ Goto(w, "destroyed")
    /\ active' = active \ {w} /\ in_list' = in_list \ {w}
    /\ waiters_' = Unlinked(w)
    /\ UNCHANGED <<mutex_vars, claimed, granted, canceled, queue, stop_vars,
                   result_vars>>

\* Mutant: the destroyed awaiter keeps the lock it was handed.
destroy_awaiter_keeps(w, l) ==
    /\ queue' = Without(queue, w) /\ Goto(w, l)
    /\ active' = active \ {w} /\ in_list' = in_list \ {w}
    /\ waiters_' = (IF w \in in_list THEN Unlinked(w) ELSE waiters_)
    /\ granted' = granted \ {w}
    /\ granted_to_' = (IF w \in granted THEN None ELSE granted_to_)
    /\ UNCHANGED <<alive, locked_, unlocking_, claimed, canceled, stop_vars,
                   result_vars>>

\* ~lock_awaiter of a waiter that was queued: it unlinks it, and passes on the lock if
\* it was handed over.
destroy_awaiter(w, l) ==
    /\ queue' = Without(queue, w) /\ Goto(w, l)
    /\ active' = active \ {w} /\ in_list' = in_list \ {w}
    /\ waiters_' = (IF w \in in_list THEN Unlinked(w) ELSE waiters_)
    /\ IF w \in granted
       THEN granted_to_' = None /\ granted' = granted \ {w} /\ unlocking_' = "yes"
       ELSE UNCHANGED <<granted_to_, granted, unlocking_>>
    /\ UNCHANGED <<alive, locked_, claimed, canceled, stop_vars, result_vars>>

\* The executor abandons a waiter it has queued.
abandon_posted(w) == st[w] = "posted" /\ Free /\ destroy_awaiter(w, "destroyed")

\* The executor resumes a quitter that was stopped meanwhile: it unwinds.
quit(w) ==
    /\ st[w] = "posted" /\ Free /\ Head(queue) = w /\ Quits(w)
    /\ destroy_awaiter(w, "done")

\* Mutant: the destructor forgets a waiter that was handed the lock.
destroy_mutex_forgets ==
    /\ alive = "yes" /\ Free /\ \A w \in Waiters : st[w] # "holding"
    /\ alive' = "dying"
    /\ UNCHANGED <<locked_, granted_to_, unlocking_, waiters_, claimed, granted,
                   flag_vars, st, queue, stop_vars, result_vars>>

\* ~async_mutex: a waiter handed the lock is told that it no longer exists.
destroy_mutex ==
    /\ alive = "yes" /\ Free /\ \A w \in Waiters : st[w] # "holding"
    /\ alive' = "dying"
    /\ granted' = {} /\ canceled' = canceled \cup granted
    /\ UNCHANGED <<locked_, granted_to_, unlocking_, waiters_, claimed, active,
                   in_list, st, queue, stop_vars, result_vars>>

\* ~async_mutex pops a waiter and cancels it if nobody has claimed it; the
\* executor takes the post or abandons the waiter.
destroy_pop ==
    /\ alive = "dying"
    /\ IF waiters_ = <<>>
       THEN alive' = "no" /\ UNCHANGED <<waiters_, claimed, flag_vars, st, queue>>
       ELSE LET w == Head(waiters_) IN
            /\ waiters_' = Tail(waiters_) /\ in_list' = in_list \ {w}
            /\ claimed' = claimed \cup {w}
            /\ \/ w \in claimed /\ UNCHANGED <<canceled, active, st, queue>>
               \/ /\ w \notin claimed /\ canceled' = canceled \cup {w}
                  /\ Goto(w, "posted") /\ queue' = Append(queue, w)
                  /\ UNCHANGED active
               \/ /\ w \notin claimed /\ canceled' = canceled \cup {w}
                  /\ Goto(w, "destroyed") /\ active' = active \ {w}
                  /\ UNCHANGED queue
            /\ UNCHANGED alive
    /\ UNCHANGED <<locked_, granted_to_, unlocking_, granted, stop_vars,
                   result_vars>>

-----------------------------------------------------------------------------
UnlockStep == release \/ \E w \in Waiters : grant(w) \/ grant_abandoned(w)

ExecutorStep ==
    \/ UnlockStep \/ destroy_pop
    \/ \E w \in Waiters : await_resume(w) \/ quit(w) \/ unlock(w)

CancelStep(w) == cancel_claim(w) \/ cancel_post(w)

Next ==
    \/ ExecutorStep \/ destroy_mutex
    \/ \E w \in Waiters :
           \/ lock(w) \/ request_stop(w) \/ CancelStep(w)
           \/ destroy_waiting(w) \/ abandon_posted(w)

Spec == Init /\ [][Next]_vars

\* The executor thread and the threads that request stops keep running, and a
\* coroutine that holds the lock unlocks it.
FairSpec ==
    /\ Spec /\ WF_vars(ExecutorStep)
    /\ \A w \in Waiters : WF_vars(CancelStep(w))

-----------------------------------------------------------------------------
(* Properties.                                                             *)

\* Who answers for the lock: a holder, a waiter it was handed to, an unlock().
Holders == {w \in Waiters : st[w] = "holding"}

\* What a quitter promises of a stop, "the body never sees the result and RAII
\* destructors run normally", means for a lock: while it is locked the mutex has an
\* owner, whatever stops come.
StoppedQuitterReleases ==
    alive = "yes" /\ locked_ = "yes" => Holders \cup granted # {} \/ unlocking_ = "yes"

\* The lock has exactly one owner while it is locked: it is never held twice,
\* and it is never lost, whatever cancellation, abandonment, unwinding or destruction
\* comes between the hand-over and the resumption.  (A quitter that unwinds from an
\* uncontended lock() does lose it, see StoppedQuitterReleases.)
LockIsOwned ==
    /\ \A w, u \in Holders \cup granted : w = u
    /\ Holders \cup granted # {} => unlocking_ = "no"
    /\ alive = "yes" /\ lost = "no" =>
         (locked_ = "yes" <=> Holders \cup granted # {} \/ unlocking_ = "yes")

\* A waiter is where its flags say, once.  unlock() and the stop callback never
\* both resume it: it is queued at most once, only while suspended there, and
\* never by an unfinished callback.  The list holds only frames that exist,
\* in_list_ says who is in it, and after ~async_mutex no waiter is linked or
\* believes that it was handed the lock.
WaiterInOnePlace ==
    /\ \A i, j \in DOMAIN queue : queue[i] = queue[j] => i = j
    /\ \A w \in Waiters : st[w] = "posted" <=> w \in Range(queue)
    /\ \A w \in firing : st[w] = "waiting"
    /\ got \cap refused = {}
    /\ in_list = Range(waiters_)
    /\ \A w \in in_list : st[w] \in {"waiting", "posted"}
    /\ \A w \in Waiters : st[w] \in {"new", "done", "destroyed"} => w \notin active
    /\ alive = "yes" => granted = {granted_to_} \ {None}
    /\ alive = "no" => in_list = {} /\ granted = {}

\* Fair queueing: the lock goes to the waiter that has waited longest among
\* those that are still waiting.
FirstInFirstOut ==
    [][\A w, u \in Waiters :
           (/\ w \in granted' \ granted
            /\ \E i, j \in DOMAIN arrived :
                   i < j /\ arrived[i] = u /\ arrived[j] = w)
           => u \in claimed \/ st[u] = "destroyed"]_vars

\* A queued waiter does not wait for ever: it is resumed or destroyed, when
\* whoever holds the lock releases it, unless a quitter lost the lock.
EveryWaiterSettles ==
    \A w \in Waiters :
        (st[w] = "waiting") ~> (st[w] \in {"holding", "done", "destroyed"} \/ lost = "yes")

=============================================================================
