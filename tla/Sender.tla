------------------------------- MODULE Sender -------------------------------
(***************************************************************************)
(* A chain started by the sender that awaitable-sender makes of an         *)
(* awaitable.  Its operation state is the owner of the first segment, as a *)
(* frame that is not a coroutine's; it holds no work on the executor, and  *)
(* it completes the receiver, which may then destroy it.                   *)
(***************************************************************************)
EXTENDS Chain

VARIABLES
    receiver,    \* what the receiver was completed with: "none", "value", "error",
                 \* "stopped"
    completions  \* how often it was completed

sender_vars == <<receiver, completions>>

SenderInit == receiver = "none" /\ completions = 0

\* set_value(), set_error(), set_stopped().
Completed(channel) == receiver' = channel /\ completions' = completions + 1

\* start(): the awaitable is ready and complete() follows at once, or its task runs
\* on the starting thread, whatever has become of the executor.
start ==
    /\ root = "sender" /\ launch = "no" /\ launch' = "done"
    /\ \/ /\ \E c \in {"value", "error", "stopped"} : Completed(c)
          /\ UNCHANGED <<frame, depth, st>>
       \/ /\ frame' = [frame EXCEPT ![1] = "live"] /\ depth' = [depth EXCEPT ![1] = 1]
          /\ st' = [st EXCEPT ![1] = "running"]
          /\ UNCHANGED sender_vars
    /\ UNCHANGED <<ex_vars, holds, tr, linked, abandoned, posted, handler, crash, ops>>

\* complete(): the task is done.  Its result, its error code or its exception, and for
\* a plain value the stop token, choose the channel.
complete_receiver ==
    /\ root = "sender" /\ st[1] = "running" /\ depth[1] = 1 /\ end_trampoline
    /\ \E c \in {"value", "error", "stopped"} : Completed(c)
    /\ UNCHANGED <<root, ex_of, ex, posted, launch, handler, ops>>

\* Mutant: the segment is destroyed and nobody is told.
unwind_receiver_silent ==
    /\ root = "sender" /\ posted[1] = "yes" /\ posted' = [posted EXCEPT ![1] = "no"]
    /\ end_trampoline
    /\ UNCHANGED <<root, ex_of, ex, launch, handler, ops, sender_vars>>

\* on_resume() of an abandoned segment, or on_destroy() by a closed executor: unwind().
unwind_receiver ==
    /\ root = "sender" /\ posted[1] = "yes" /\ posted' = [posted EXCEPT ![1] = "no"]
    /\ end_trampoline /\ Completed("stopped")
    /\ UNCHANGED <<root, ex_of, ex, launch, handler, ops>>

SenderStep == start \/ complete_receiver \/ unwind_receiver

-----------------------------------------------------------------------------
\* A receiver is completed exactly once, when the operation state has nothing left
\* running: not before its chain is over, also not when the chain was abandoned by
\* executors that resume, destroy or refuse its owner, and then with set_stopped().
ReceiverCompletesOnce ==
    root = "sender" =>
        /\ completions = (IF launch = "done" /\ frame[1] = "none" THEN 1 ELSE 0)
        /\ completions = 1 => \A s \in Segments : frame[s] = "none" /\ st[s] = "none"
        /\ completions = 1 /\ abandoned[1] = "yes" => receiver = "stopped"
=============================================================================
