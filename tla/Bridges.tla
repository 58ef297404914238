------------------------------- MODULE Bridges ------------------------------
(***************************************************************************)
(* Coroutines that wait for work outside the library, through one of the   *)
(* bridges of the examples: awaitables for senders (of beman, which posts  *)
(* the coroutine, and of stdexec, which resumes it), for Asio operations,  *)
(* for a CUDA stream (by a callback of the driver, by a service that       *)
(* polls, by a service that blocks, by the operations of a stream shared   *)
(* by all), and for the answer to a dialog of a GUI toolkit.               *)
(*                                                                         *)
(* The work may end on any thread, also before await_suspend() has         *)
(* returned; the coroutine's end takes the awaitable with it.  The         *)
(* executor may be closed, and abandons then what it is given; that of the *)
(* GUI is modelled with its queue, its loop and its end.                   *)
(***************************************************************************)
EXTENDS Naturals, Sequences, Functions

CONSTANT Waiters

VARIABLES
    bridge,   \* "beman", "stdexec", "asio", "callback", "copy", "poll", "deferred"
              \* or "dialog"
    has_ec,   \* "yes" if the senders can end with an error code
    aw,       \* await_suspend() of each waiter: "before", "inside", "over"
    op,       \* its work: "none", "pending", "ready" on the device, "stored", "over"
    sent,     \* what the work ended with
    result_,  \* what the awaitable holds: the index of a variant, or ec_: 1 if it is
              \* no error, and 2
    done_,    \* the waiters whose flag is set (stdexec)
    co,       \* "running", "suspended", "queued", "resumed", "given up", "gone"
    hands,    \* how often the waiter was resumed, posted or given up
    got,      \* what its co_await gave it
    error_,   \* "yes" if the shared stream holds an error
    list,     \* the service's entries_ or jobs_, or the GUI's queue_
    at,       \* where poll_service::run() is in it
    ready_,   \* poll_service's, or the job at hand
    worker,   \* the service's thread: "unlocked", "scan", "post", or "check",
              \* "asleep", "job", "posting", "exited"; the GUI's, also "closed"
    stop_     \* of sync_service; the GUI's quit_

op_vars == <<op, sent, result_, done_, error_>>
service_vars == <<list, at, ready_, worker, stop_>>
vars == <<bridge, has_ec, aw, op_vars, co, hands, got, service_vars>>

Senders == {"beman", "stdexec"}

Init ==
    /\ bridge \in Senders \cup {"asio", "callback", "copy", "poll", "deferred", "dialog"}
    /\ has_ec \in {"yes", "no"} /\ (bridge \notin Senders => has_ec = "yes")
    /\ aw = [w \in Waiters |-> "before"] /\ co = [w \in Waiters |-> "running"]
    /\ op = [w \in Waiters |-> "none"] /\ sent = [w \in Waiters |-> "none"]
    /\ result_ = [w \in Waiters |-> 0] /\ done_ = {} /\ error_ = "no"
    /\ hands = [w \in Waiters |-> 0] /\ got = [w \in Waiters |-> "none"]
    /\ list = <<>> /\ at = 1 /\ ready_ = <<>> /\ stop_ = "no"
    /\ worker = IF bridge = "poll" THEN "unlocked" ELSE "check"

-----------------------------------------------------------------------------
(* Handing on a coroutine.                                                 *)

Hand(w, to) ==
    /\ co' = [co EXCEPT ![w] = to]
    /\ hands' = [hands EXCEPT ![w] = @ + 1]

\* The owner of the waiter's segment is posted, and will unwind it.
abandon(w) == Hand(w, "given up")

\* An executor's post(): a closed one abandons what it is given.
post(w) == Hand(w, "queued") \/ abandon(w)

\* net::post() of a guard: it is queued; or the call throws, and the guard was destroyed
\* in it, or never taken.
net_post == {"queued", "destroyed", "not taken"}

\* asio_executor::post() throws in turn only if its own guard still has the waiter.
asio_post_throws(o) == o = "not taken"

\* The executor runs what it holds, or is torn down with it.
run(w) ==
    /\ co[w] = "queued" /\ bridge # "dialog"
    /\ \/ co' = [co EXCEPT ![w] = "resumed"]
       \/ co' = [co EXCEPT ![w] = "given up"]
    /\ UNCHANGED <<bridge, has_ec, aw, op_vars, hands, got, service_vars>>

unwind(w) ==
    /\ co[w] = "given up" /\ co' = [co EXCEPT ![w] = "gone"]
    /\ UNCHANGED <<bridge, has_ec, aw, op_vars, hands, got, service_vars>>

\* The GUI's executor: the waiter is queued, whether or not the loop still runs.
post_to_gui_thread(w) ==
    /\ Hand(w, "queued") /\ list' = Append(list, w)
    /\ worker' = IF worker = "asleep" THEN "check" ELSE worker

\* No coroutine is running on the GUI's thread.
Idle == \A w \in Waiters : co[w] # "resumed" /\ aw[w] # "inside"

-----------------------------------------------------------------------------
(* await_suspend().                                                        *)

Start(w) ==
    /\ op' = [op EXCEPT ![w] = "pending"] /\ co' = [co EXCEPT ![w] = "suspended"]
    /\ UNCHANGED <<sent, result_, error_, hands>>

Enter(w) ==
    /\ aw[w] = "before" /\ aw' = [aw EXCEPT ![w] = "inside"]
    /\ UNCHANGED <<bridge, has_ec, done_, got>>

sender_suspend(w) ==
    /\ bridge \in Senders /\ Enter(w) /\ Start(w) /\ UNCHANGED service_vars

\* A handler that is destroyed because the operation cannot start gives the waiter up.
asio_suspend(w) ==
    /\ bridge = "asio" /\ Enter(w)
    /\ \/ Start(w)
       \/ /\ abandon(w) /\ op' = [op EXCEPT ![w] = "over"]
          /\ UNCHANGED <<sent, result_, error_>>
    /\ UNCHANGED service_vars

\* A callback that cannot be registered: the waiter goes on with the error.
callback_suspend(w) ==
    /\ bridge = "callback" /\ Enter(w)
    /\ \/ Start(w)
       \/ /\ Hand(w, "resumed") /\ op' = [op EXCEPT ![w] = "over"]
          /\ sent' = [sent EXCEPT ![w] = "code"] /\ result_' = [result_ EXCEPT ![w] = 2]
          /\ UNCHANGED error_
    /\ UNCHANGED service_vars

\* The operations of the shared stream: one at a time, as its one continuation demands.
\* If the copy or its callback cannot be started, the stream holds the error.
copy_suspend(w) ==
    /\ bridge = "copy" /\ Enter(w) /\ UNCHANGED service_vars
    /\ \A u \in Waiters : co[u] \notin {"suspended", "queued", "resumed"}
    /\ \/ Start(w)
       \/ /\ Hand(w, "resumed") /\ op' = [op EXCEPT ![w] = "over"]
          /\ sent' = [sent EXCEPT ![w] = "code"] /\ error_' = "yes" /\ UNCHANGED result_

\* poll_awaitable, and register_wait(), which takes the service's mutex.
poll_suspend(w) ==
    /\ bridge = "poll" /\ worker # "scan" /\ Enter(w) /\ Start(w)
    /\ list' = Append(list, w) /\ UNCHANGED <<at, ready_, worker, stop_>>

\* deferred_sync_awaitable, and the push of sync_service::post().
deferred_suspend(w) ==
    /\ bridge = "deferred" /\ stop_ = "no" /\ Enter(w) /\ Start(w)
    /\ list' = Append(list, w) /\ UNCHANGED <<at, ready_, worker, stop_>>

\* show_dialog, and show(), which joins the thread of the answer before: by a coroutine
\* on the GUI's thread, in the loop.
dialog_suspend(w) ==
    /\ bridge = "dialog" /\ worker = "check" /\ Idle /\ Enter(w) /\ Start(w)
    /\ \A u \in Waiters : op[u] \notin {"pending", "stored"}
    /\ UNCHANGED service_vars

\* What follows when the work has been started: the flag of stdexec's awaitable is
\* exchanged, the blocking service is notified.
suspend_return(w) ==
    /\ aw[w] = "inside" /\ aw' = [aw EXCEPT ![w] = "over"]
    /\ IF bridge = "stdexec"
       THEN /\ done_' = done_ \cup {w}
            /\ IF w \in done_ THEN Hand(w, "resumed") ELSE UNCHANGED <<co, hands>>
       ELSE UNCHANGED <<done_, co, hands>>
    /\ worker' = IF bridge = "deferred" /\ worker = "asleep" THEN "check" ELSE worker
    /\ UNCHANGED <<bridge, has_ec, op, sent, result_, error_, got, list, at, ready_, stop_>>

-----------------------------------------------------------------------------
(* The end of the work, on any thread.                                     *)

\* set_value(), set_error() and set_stopped(): which alternative the result is put in.
index(s) ==
    CASE s = "value" -> 1
      [] s = "code" -> 2
      [] s = "exception" -> IF has_ec = "yes" THEN 3 ELSE 2
      [] s = "stopped" -> IF has_ec = "yes" THEN 4 ELSE 3

Store(w, s, r) ==
    /\ sent' = [sent EXCEPT ![w] = s] /\ result_' = [result_ EXCEPT ![w] = r]
    /\ op' = [op EXCEPT ![w] = "stored"]

Ended == {"value", "code"}
ec(s) == IF s = "value" THEN 1 ELSE 2

Outside == UNCHANGED <<bridge, has_ec, aw, error_, got, service_vars>>

receive(w) ==
    /\ bridge \in Senders /\ op[w] = "pending"
    /\ \E s \in {"value", "exception", "stopped"}
                \cup (IF has_ec = "yes" THEN {"code"} ELSE {}) : Store(w, s, index(s))
    /\ UNCHANGED <<done_, co, hands>> /\ Outside

receiver_post(w) ==
    /\ bridge = "beman" /\ op[w] = "stored" /\ post(w)
    /\ op' = [op EXCEPT ![w] = "over"] /\ UNCHANGED <<sent, result_, done_>> /\ Outside

\* Mutant: the receiver resumes the coroutine if it is the first to come.
resume_if_first(w) ==
    /\ bridge = "stdexec" /\ op[w] = "stored"
    /\ done_' = done_ \cup {w}
    /\ IF w \notin done_ THEN Hand(w, "resumed") ELSE UNCHANGED <<co, hands>>
    /\ op' = [op EXCEPT ![w] = "over"] /\ UNCHANGED <<sent, result_>> /\ Outside

resume_if_ready(w) ==
    /\ bridge = "stdexec" /\ op[w] = "stored"
    /\ done_' = done_ \cup {w}
    /\ IF w \in done_ THEN Hand(w, "resumed") ELSE UNCHANGED <<co, hands>>
    /\ op' = [op EXCEPT ![w] = "over"] /\ UNCHANGED <<sent, result_>> /\ Outside

store_result(w) ==
    /\ bridge = "asio" /\ op[w] = "pending" /\ \E s \in Ended : Store(w, s, ec(s))
    /\ UNCHANGED <<done_, co, hands>> /\ Outside

\* The rest of the handler.  A guard that was taken hands the waiter over, by the queue or
\* when it is destroyed; the handler's own gives the waiter up if the post throws.
handler(w) ==
    /\ bridge = "asio" /\ op[w] = "stored"
    /\ \E o \in net_post :
          /\ co' = [co EXCEPT ![w] = IF o = "queued" THEN "queued" ELSE "given up"]
          /\ hands' = [hands EXCEPT ![w] = hands[w] + (IF o = "not taken" THEN 0 ELSE 1)
                                                  + (IF asio_post_throws(o) THEN 1 ELSE 0)]
    /\ op' = [op EXCEPT ![w] = "over"] /\ UNCHANGED <<sent, result_, done_>> /\ Outside

\* ~abandon_guard: Asio destroys a handler that did not run.
destroy_handler(w) ==
    /\ bridge = "asio" /\ op[w] = "pending" /\ abandon(w)
    /\ op' = [op EXCEPT ![w] = "over"] /\ UNCHANGED <<sent, result_, done_>> /\ Outside

\* The driver's callback is not told how the work ended, and reports no error.
on_complete(w) ==
    /\ bridge = "callback"
    /\ \/ /\ op[w] = "pending" /\ \E s \in Ended : Store(w, s, 1)
          /\ UNCHANGED <<co, hands>>
       \/ /\ op[w] = "stored" /\ post(w) /\ op' = [op EXCEPT ![w] = "over"]
          /\ UNCHANGED <<sent, result_>>
    /\ UNCHANGED done_ /\ Outside

\* The callback of the shared stream only posts.
copy_complete(w) ==
    /\ bridge = "copy" /\ op[w] = "pending" /\ post(w)
    /\ op' = [op EXCEPT ![w] = "over"]
    /\ \E s \in Ended : sent' = [sent EXCEPT ![w] = s]
    /\ UNCHANGED <<result_, done_>> /\ Outside

\* The dialog's thread has the answer, and then posts the waiter to the GUI.
dialog_answer(w) ==
    /\ bridge = "dialog"
    /\ \/ /\ op[w] = "pending" /\ Store(w, "value", 1)
          /\ UNCHANGED <<co, hands, list, worker>>
       \/ /\ op[w] = "stored" /\ op' = [op EXCEPT ![w] = "over"]
          /\ post_to_gui_thread(w) /\ UNCHANGED <<sent, result_>>
    /\ UNCHANGED <<bridge, has_ec, aw, done_, error_, got, at, ready_, stop_>>

\* The device is done with the work.
device(w) ==
    /\ bridge \in {"poll", "deferred"} /\ op[w] = "pending"
    /\ op' = [op EXCEPT ![w] = "ready"]
    /\ \E s \in Ended : sent' = [sent EXCEPT ![w] = s]
    /\ UNCHANGED <<result_, done_, co, hands>> /\ Outside

-----------------------------------------------------------------------------
(* poll_service::run(): the scan under the mutex, and the posts after it.  *)

Service == UNCHANGED <<bridge, has_ec, aw, done_, error_, got, stop_>>

poll_lock ==
    /\ bridge = "poll" /\ worker = "unlocked" /\ worker' = "scan" /\ at' = 1
    /\ UNCHANGED <<op, sent, result_, co, hands, list, ready_>> /\ Service

poll_entry ==
    /\ worker = "scan" /\ at <= Len(list)
    /\ LET e == list[at] IN
       \/ op[e] = "pending" /\ at' = at + 1 /\ UNCHANGED <<op, sent, result_, list, ready_>>
       \/ /\ op[e] = "ready" /\ Store(e, sent[e], ec(sent[e]))
          /\ ready_' = Append(ready_, e) /\ UNCHANGED at
          /\ list' = SubSeq([list EXCEPT ![at] = list[Len(list)]], 1, Len(list) - 1)
    /\ UNCHANGED <<co, hands, worker>> /\ Service

poll_unlock ==
    /\ worker = "scan" /\ at > Len(list) /\ worker' = "post"
    /\ UNCHANGED <<op, sent, result_, co, hands, list, at, ready_>> /\ Service

poll_post ==
    /\ worker = "post"
    /\ \/ /\ ready_ # <<>> /\ ready_' = Tail(ready_)
          /\ post(Head(ready_)) /\ op' = [op EXCEPT ![Head(ready_)] = "over"]
          /\ UNCHANGED worker
       \/ /\ ready_ = <<>> /\ worker' = "unlocked"
          /\ UNCHANGED <<op, co, hands, ready_>>
    /\ UNCHANGED <<sent, result_, list, at>> /\ Service

-----------------------------------------------------------------------------
(* sync_service::run(), and the job that a waiter gives it.                *)

\* Mutant: a service that was told to stop leaves what is queued.
take_job_unless_stopped ==
    /\ bridge = "deferred" /\ worker = "check"
    /\ \/ /\ stop_ = "no" /\ list # <<>> /\ list' = Tail(list)
          /\ ready_' = <<Head(list)>> /\ worker' = "job"
       \/ /\ stop_ = "no" /\ list = <<>> /\ worker' = "asleep" /\ UNCHANGED <<list, ready_>>
       \/ stop_ = "yes" /\ worker' = "exited" /\ UNCHANGED <<list, ready_>>
    /\ UNCHANGED <<op, sent, result_, co, hands, at>> /\ Service

take_job ==
    /\ bridge = "deferred" /\ worker = "check"
    /\ \/ /\ list # <<>> /\ list' = Tail(list)
          /\ ready_' = <<Head(list)>> /\ worker' = "job"
       \/ /\ list = <<>> /\ worker' = IF stop_ = "yes" THEN "exited" ELSE "asleep"
          /\ UNCHANGED <<list, ready_>>
    /\ UNCHANGED <<op, sent, result_, co, hands, at>> /\ Service

\* The wait wakes up unasked.
spurious_wakeup ==
    /\ worker = "asleep" /\ worker' = "check"
    /\ UNCHANGED <<op, sent, result_, co, hands, list, at, ready_>> /\ Service

\* The job blocks until the stream is done.
job ==
    \/ /\ worker = "job" /\ worker' = "posting"
       /\ LET w == ready_[1] IN op[w] = "ready" /\ Store(w, sent[w], ec(sent[w]))
       /\ UNCHANGED <<co, hands, list, at, ready_>> /\ Service
    \/ /\ worker = "posting" /\ worker' = "check" /\ ready_' = <<>>
       /\ LET w == ready_[1] IN post(w) /\ op' = [op EXCEPT ![w] = "over"]
       /\ UNCHANGED <<sent, result_, list, at>> /\ Service

\* ~sync_service, when nobody is inside post().
destroy_service ==
    /\ bridge = "deferred" /\ stop_ = "no" /\ stop_' = "yes"
    /\ \A w \in Waiters : aw[w] # "inside"
    /\ worker' = IF worker = "asleep" THEN "check" ELSE worker
    /\ UNCHANGED <<bridge, has_ec, aw, op_vars, co, hands, got, list, at, ready_>>

-----------------------------------------------------------------------------
(* gui_app: its loop, quit(), and its end.                                 *)

gui_run ==
    /\ bridge = "dialog" /\ worker = "check" /\ Idle
    /\ \/ /\ list # <<>> /\ list' = Tail(list)
          /\ co' = [co EXCEPT ![Head(list)] = "resumed"] /\ UNCHANGED worker
       \/ /\ list = <<>> /\ worker' = IF stop_ = "yes" THEN "exited" ELSE "asleep"
          /\ UNCHANGED <<co, list>>
    /\ UNCHANGED <<op, sent, result_, hands, at, ready_>> /\ Service

quit ==
    /\ bridge = "dialog" /\ stop_ = "no" /\ stop_' = "yes"
    /\ worker' = IF worker = "asleep" THEN "check" ELSE worker
    /\ UNCHANGED <<bridge, has_ec, aw, op_vars, co, hands, got, list, at, ready_>>

\* ~gui_app gives up what is queued, when ~dialog has joined the dialog's thread.
destroy_app ==
    /\ bridge = "dialog"
    /\ \/ /\ worker = "exited" /\ worker' = "closed" /\ UNCHANGED <<co, list>>
          /\ \A w \in Waiters : op[w] \notin {"pending", "stored"}
       \/ /\ worker = "closed" /\ list # <<>> /\ list' = Tail(list)
          /\ co' = [co EXCEPT ![Head(list)] = "given up"] /\ UNCHANGED worker
    /\ UNCHANGED <<op, sent, result_, hands, at, ready_>> /\ Service

-----------------------------------------------------------------------------
(* await_resume().                                                         *)

await_resume_ec(r) ==
    CASE r = 3 -> "exception"
      [] r = 4 -> "stopped"
      [] r = 2 -> "code"
      [] r = 1 -> "value"
      [] OTHER -> "bad_variant_access"

await_resume_no_ec(r) ==
    CASE r = 2 -> "exception"
      [] r = 3 -> "stopped"
      [] r = 1 -> "value"
      [] OTHER -> "bad_variant_access"

\* The callback's awaitable asks the stream for an error that the callback did not see.
await_resume_query(w) == IF result_[w] = 2 \/ sent[w] = "code" THEN "code" ELSE "value"

\* That of the shared stream takes the error out of the stream.
await_resume_copy(w) == IF error_ = "yes" \/ sent[w] = "code" THEN "code" ELSE "value"

await_resume_code(r) == IF r = 2 THEN "code" ELSE "value"

await_resume(w) ==
    /\ co[w] = "resumed" /\ co' = [co EXCEPT ![w] = "gone"]
    /\ got' = [got EXCEPT ![w] =
           CASE bridge \in Senders /\ has_ec = "yes" -> await_resume_ec(result_[w])
             [] bridge \in Senders /\ has_ec = "no" -> await_resume_no_ec(result_[w])
             [] bridge = "callback" -> await_resume_query(w)
             [] bridge = "copy" -> await_resume_copy(w)
             [] OTHER -> await_resume_code(result_[w])]
    /\ error_' = "no"
    /\ UNCHANGED <<bridge, has_ec, aw, op, sent, result_, done_, hands, service_vars>>

-----------------------------------------------------------------------------
suspend(w) ==
    \/ sender_suspend(w) \/ asio_suspend(w) \/ callback_suspend(w)
    \/ copy_suspend(w) \/ poll_suspend(w) \/ deferred_suspend(w) \/ dialog_suspend(w)

\* What a waiter's thread, its work and its executor do.
WaitStep(w) ==
    \/ suspend_return(w) \/ run(w) \/ unwind(w) \/ await_resume(w)
    \/ receive(w) \/ receiver_post(w) \/ resume_if_ready(w)
    \/ store_result(w) \/ handler(w) \/ destroy_handler(w) \/ on_complete(w)
    \/ copy_complete(w) \/ dialog_answer(w) \/ device(w)

ServiceStep ==
    \/ poll_lock \/ poll_entry \/ poll_unlock \/ poll_post \/ take_job \/ job
    \/ gui_run \/ destroy_app

Next ==
    \/ \E w \in Waiters : suspend(w) \/ WaitStep(w)
    \/ ServiceStep \/ spurious_wakeup \/ destroy_service \/ quit

Spec == Init /\ [][Next]_vars

\* The work ends, and whoever has something to do for a waiter does it.
FairSpec == Spec /\ WF_vars(ServiceStep) /\ \A w \in Waiters : WF_vars(WaitStep(w))

-----------------------------------------------------------------------------
(* Properties.                                                             *)

\* A coroutine that waits for work outside is resumed or given up, once; if it is
\* resumed, its co_await gives it what the work ended with; and when it has gone, with
\* the awaitable that is part of it, neither the receiver, the handler, the callback or
\* the service nor await_suspend() itself has still to use that awaitable.
HandedOnce ==
    \A w \in Waiters :
        /\ hands[w] <= 1
        /\ got[w] \in {"none", sent[w]}
        /\ co[w] = "gone" =>
               /\ op[w] = "over" /\ w \notin Range(list \o ready_)
               /\ bridge = "stdexec" => aw[w] = "over"

\* Nobody waits for ever: every wait whose work ends, or is dropped, is over some time,
\* also when the service that it uses is destroyed, or the GUI's loop quits, meanwhile.
OutsideWaitEnds ==
    \A w \in Waiters : co[w] = "suspended" ~> co[w] = "gone"
=============================================================================
