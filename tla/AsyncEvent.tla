----------------------------- MODULE AsyncEvent -----------------------------
(***************************************************************************)
(* async_event: one event, the coroutines that wait for it, each once, and *)
(* the stop callbacks that cancel their waits.                             *)
(*                                                                         *)
(* As in AsyncMutex, one executor thread runs everything but the stop      *)
(* callbacks.  set() moves the waiters it claims to a list of its own and  *)
(* posts them one by one; a post may abandon its waiter on the spot, and   *)
(* the unwinding may destroy other waiters, linked in either list, or the  *)
(* event itself, under the loop.                                           *)
(***************************************************************************)
EXTENDS Naturals, Sequences, Functions

CONSTANTS
    Waiters,     \* the coroutines
    Stoppable    \* those whose stop token has a stop source

VARIABLES
    alive,                \* "yes", "dying" inside ~async_event, "no"
    set_, waiters_,
    setting, claimed_by_set,   \* set() in progress, and its list
    claimed, canceled, active, list_,  \* members of the wait_awaiters
    st,                   \* where each coroutine is
    queue,                \* the executor's queue
    stopped, fired, firing,    \* stop requests; callbacks run; callbacks running
    got, refused          \* results: success, error::canceled

event_vars == <<alive, set_, setting>>
lists == <<waiters_, claimed_by_set, list_>>
stop_vars == <<stopped, fired, firing>>
result_vars == <<got, refused>>
vars == <<event_vars, lists, claimed, canceled, active, st, queue, stop_vars,
          result_vars>>

Init ==
    /\ alive = "yes" /\ set_ = "no" /\ setting = "no"
    /\ waiters_ = <<>> /\ claimed_by_set = <<>>
    /\ list_ = [w \in Waiters |-> "none"]
    /\ claimed = {} /\ canceled = {} /\ active = {}
    /\ st = [w \in Waiters |-> "new"] /\ queue = <<>>
    /\ stopped = {} /\ fired = {} /\ firing = {}
    /\ got = {} /\ refused = {}

-----------------------------------------------------------------------------
\* The executor thread is between coroutines.
Free == setting = "no" /\ alive # "dying"

Goto(w, l) == st' = [st EXCEPT ![w] = l]

\* A list when the waiters D have left it.
Without(s, D) ==
    LET kept[k \in 0 .. Len(s)] ==
            IF k = 0 THEN <<>>
            ELSE IF s[k] \in D THEN kept[k - 1] ELSE Append(kept[k - 1], s[k])
    IN  kept[Len(s)]

\* list_ of the waiters D becomes l.
Relink(D, l) == list_' = [w \in Waiters |-> IF w \in D THEN l ELSE list_[w]]

-----------------------------------------------------------------------------
(* wait().                                                                 *)

\* await_ready() and await_suspend().
wait(w) ==
    /\ st[w] = "new" /\ Free /\ alive = "yes"
    /\ \/ /\ set_ = "yes" /\ Goto(w, "done") /\ got' = got \cup {w}
          /\ UNCHANGED <<waiters_, list_, canceled, active, refused>>
       \/ /\ set_ = "no" /\ w \in stopped
          /\ canceled' = canceled \cup {w} /\ refused' = refused \cup {w}
          /\ Goto(w, "done")
          /\ UNCHANGED <<waiters_, list_, active, got>>
       \/ /\ set_ = "no" /\ w \notin stopped
          /\ waiters_' = Append(waiters_, w) /\ Relink({w}, "event")
          /\ active' = active \cup {w} /\ Goto(w, "waiting")
          /\ UNCHANGED <<canceled, got, refused>>
    /\ UNCHANGED <<event_vars, claimed_by_set, claimed, queue, stop_vars>>

\* The executor resumes w: await_resume().
await_resume(w) ==
    /\ st[w] = "posted" /\ Free /\ Head(queue) = w /\ queue' = Tail(queue)
    /\ active' = active \ {w} /\ Goto(w, "done")
    /\ IF w \in canceled
       THEN /\ waiters_' = Without(waiters_, {w}) /\ Relink({w}, "none")
            /\ refused' = refused \cup {w} /\ UNCHANGED got
       ELSE got' = got \cup {w} /\ UNCHANGED <<waiters_, list_, refused>>
    /\ UNCHANGED <<event_vars, claimed_by_set, claimed, canceled, stop_vars>>

-----------------------------------------------------------------------------
(* Cancellation, from any thread.                                          *)

request_stop(w) ==
    /\ w \in Stoppable \ stopped /\ stopped' = stopped \cup {w}
    /\ UNCHANGED <<event_vars, lists, claimed, canceled, active, st, queue, fired,
                   firing, result_vars>>

\* cancel_fn: claimed_.exchange(true).
cancel_claim(w) ==
    /\ w \in (stopped \cap active) \ fired /\ fired' = fired \cup {w}
    /\ claimed' = claimed \cup {w}
    /\ firing' = (IF w \in claimed THEN firing ELSE firing \cup {w})
    /\ UNCHANGED <<event_vars, lists, canceled, active, st, queue, stopped,
                   result_vars>>

\* cancel_fn, having claimed: canceled_ = true and the post.
cancel_post(w) ==
    /\ w \in firing /\ firing' = firing \ {w}
    /\ canceled' = canceled \cup {w}
    /\ Goto(w, "posted") /\ queue' = Append(queue, w)
    /\ UNCHANGED <<event_vars, lists, claimed, active, stopped, fired, result_vars>>

-----------------------------------------------------------------------------
(* Destruction of frames, on the executor thread.                          *)

\* The frames that an unwinding may take with it: suspended, with no stop
\* callback about to post them.
Destroyable == {w \in Waiters : st[w] = "waiting" /\ (w \in claimed => list_[w] = "set")}

\* Mutant: a destroyed waiter unlinks itself from the event's list only.
destroy_frames_event_only(D) ==
    /\ waiters_' = Without(waiters_, D)
    /\ UNCHANGED claimed_by_set
    /\ Relink(D, "none") /\ active' = active \ D
    /\ st' = [w \in Waiters |-> IF w \in D THEN "destroyed" ELSE st[w]]

\* ~wait_awaiter of the waiters D: each leaves the list that it is linked in.
destroy_frames(D) ==
    /\ waiters_' = Without(waiters_, D)
    /\ claimed_by_set' = Without(claimed_by_set, D)
    /\ Relink(D, "none") /\ active' = active \ D
    /\ st' = [w \in Waiters |-> IF w \in D THEN "destroyed" ELSE st[w]]

\* A suspended frame is destroyed, or the executor abandons one it has queued.
destroy(w) ==
    /\ Free /\ (w \in Destroyable \/ st[w] = "posted")
    /\ destroy_frames({w}) /\ queue' = Without(queue, {w})
    /\ UNCHANGED <<event_vars, claimed, canceled, stop_vars, result_vars>>

-----------------------------------------------------------------------------
(* set(), clear() and ~async_event.                                        *)

\* claim_all(): every waiter is unlinked, and those not yet claimed are claimed.
claim_all ==
    /\ claimed_by_set' = Without(waiters_, claimed)
    /\ claimed' = claimed \cup Range(waiters_)
    /\ list_' = [w \in Waiters |->
                    IF list_[w] # "event" THEN list_[w]
                    ELSE IF w \in claimed THEN "none" ELSE "set"]
    /\ waiters_' = <<>>

\* set() up to its first post.
set ==
    /\ Free /\ alive = "yes"
    /\ set_' = "yes" /\ setting' = "yes" /\ claim_all
    /\ UNCHANGED <<alive, canceled, active, st, queue, stop_vars, result_vars>>

\* set() posts the next waiter of its list and the executor takes it.
set_post ==
    /\ setting = "yes" /\ alive # "dying" /\ claimed_by_set # <<>>
    /\ LET w == Head(claimed_by_set) IN
       Goto(w, "posted") /\ queue' = Append(queue, w) /\ Relink({w}, "none")
    /\ claimed_by_set' = Tail(claimed_by_set)
    /\ UNCHANGED <<event_vars, waiters_, claimed, canceled, active, stop_vars,
                   result_vars>>

\* set() posts the next waiter and the executor abandons it, and with it D and
\* possibly the event.
set_abandoned ==
    /\ setting = "yes" /\ alive # "dying" /\ claimed_by_set # <<>>
    /\ \E D \in SUBSET (Destroyable \ {Head(claimed_by_set)}) :
           destroy_frames(D \cup {Head(claimed_by_set)})
    /\ \/ UNCHANGED alive
       \/ alive = "yes" /\ alive' = "dying"
    /\ UNCHANGED <<set_, setting, claimed, canceled, queue, stop_vars, result_vars>>

set_return ==
    /\ setting = "yes" /\ alive # "dying" /\ claimed_by_set = <<>>
    /\ setting' = "no"
    /\ UNCHANGED <<alive, set_, lists, claimed, canceled, active, st, queue,
                   stop_vars, result_vars>>

clear ==
    /\ Free /\ alive = "yes" /\ set_ = "yes" /\ set_' = "no"
    /\ UNCHANGED <<alive, setting, lists, claimed, canceled, active, st, queue,
                   stop_vars, result_vars>>

destroy_event ==
    /\ Free /\ alive = "yes" /\ alive' = "dying"
    /\ UNCHANGED <<set_, setting, lists, claimed, canceled, active, st, queue,
                   stop_vars, result_vars>>

\* ~async_event pops a waiter and cancels it if nobody has claimed it; the
\* executor takes the post or abandons the waiter, and with it D.
destroy_pop ==
    /\ alive = "dying" /\ waiters_ # <<>>
    /\ LET w == Head(waiters_) IN
       /\ claimed' = claimed \cup {w}
       /\ \/ /\ w \in claimed
             /\ waiters_' = Tail(waiters_) /\ Relink({w}, "none")
             /\ UNCHANGED <<claimed_by_set, canceled, active, st, queue>>
          \/ /\ w \notin claimed /\ canceled' = canceled \cup {w}
             /\ waiters_' = Tail(waiters_) /\ Relink({w}, "none")
             /\ Goto(w, "posted") /\ queue' = Append(queue, w)
             /\ UNCHANGED <<claimed_by_set, active>>
          \/ /\ w \notin claimed /\ canceled' = canceled \cup {w}
             /\ \E D \in SUBSET (Destroyable \ {w}) : destroy_frames(D \cup {w})
             /\ UNCHANGED queue
    /\ UNCHANGED <<event_vars, stop_vars, result_vars>>

destroyed_event ==
    /\ alive = "dying" /\ waiters_ = <<>> /\ alive' = "no"
    /\ UNCHANGED <<set_, setting, lists, claimed, canceled, active, st, queue,
                   stop_vars, result_vars>>

-----------------------------------------------------------------------------
LoopStep ==
    set_post \/ set_abandoned \/ set_return \/ destroy_pop \/ destroyed_event

CancelStep(w) == cancel_claim(w) \/ cancel_post(w)

Next ==
    \/ LoopStep \/ set \/ clear \/ destroy_event
    \/ \E w \in Waiters :
           \/ wait(w) \/ await_resume(w) \/ destroy(w)
           \/ request_stop(w) \/ CancelStep(w)

Spec == Init /\ [][Next]_vars

\* The executor thread and the threads that request stops keep running, and no
\* coroutine keeps the executor from its queue by calling set() without end.
FairSpec ==
    /\ Spec /\ WF_vars(LoopStep) /\ SF_vars(\E w \in Waiters : await_resume(w))
    /\ \A w \in Waiters : WF_vars(CancelStep(w))

-----------------------------------------------------------------------------
(* Properties.                                                             *)

\* A waiter is where its flags say, once: set(), ~async_event and the stop
\* callback never both resume it; list_ names the list it is linked in; neither
\* list holds a frame that is gone, nor the list of an event that is gone a
\* waiter; and a wait that was canceled does not report success.  The broadcast
\* reaches everybody: while the event is set nobody waits whom set() or a stop
\* callback has not claimed, and whoever was claimed is in the hands of the one
\* that will post it.
WaiterInOnePlace ==
    /\ \A i, j \in DOMAIN queue : queue[i] = queue[j] => i = j
    /\ \A w \in Waiters :
           /\ st[w] = "posted" <=> w \in Range(queue)
           /\ list_[w] = "event" <=> w \in Range(waiters_)
           /\ list_[w] = "set" <=> w \in Range(claimed_by_set)
           /\ list_[w] # "none" => st[w] \in {"waiting", "posted"}
           /\ st[w] = "waiting" =>
                  /\ set_ = "yes" => w \in claimed
                  /\ w \in claimed => w \in firing \/ list_[w] = "set"
    /\ \A w \in firing : st[w] = "waiting"
    /\ alive = "no" => waiters_ = <<>>
    /\ got \cap canceled = {}

\* A wait under way when the event is set comes to an end.
SetIsNoticed ==
    \A w \in Waiters :
        (st[w] = "waiting" /\ set_ = "yes") ~> (st[w] \in {"done", "destroyed"})
=============================================================================
