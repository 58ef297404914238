------------------------------- MODULE Chain --------------------------------
(***************************************************************************)
(* A chain of coroutines and its owners.  run_async(), or a sender made of *)
(* an awaitable (module Sender), starts the first segment; a coroutine of  *)
(* a segment that awaits run(ex) starts the next one on another executor   *)
(* and waits for it.  A segment is a stack of tasks (or quitters), of      *)
(* which the deepest is active.  Above each segment sits its owner: the    *)
(* trampoline of run_async() or the boundary trampoline of run(), which    *)
(* carries the result on, or, when the segment is abandoned, destroys its  *)
(* frames and passes the unwinding upwards.                                *)
(*                                                                         *)
(* Executors are any of the library's: they run what is posted, abandon    *)
(* what is queued when they are torn down, and abandon at once what is     *)
(* posted afterwards.  A post is the last thing each step does, so whether *)
(* it acts on the spot or later is the same to the step.                   *)
(***************************************************************************)
EXTENDS Naturals, FiniteSets

CONSTANTS
    N,           \* the number of segments
    Executors,
    Layouts,     \* the functions that place the segments on executors
    MaxDepth,    \* bound: tasks nested in a segment
    MaxOps       \* bound: waits, calls and runs of the whole chain

Segments == 1 .. N

ASSUME ChainAssumption ==
    /\ N \in Nat \ {0} /\ MaxDepth \in Nat \ {0} /\ MaxOps \in Nat
    /\ Layouts \subseteq [Segments -> Executors] /\ Layouts # {}

VARIABLES
    root,       \* who starts the chain: "run_async" or "sender"
    ex_of,      \* the executor of each segment
    ex,         \* each executor: "open", "draining", "closed"
    work,       \* each executor's outstanding work
    st,         \* where the deepest coroutine of each segment is
    depth,      \* the frames of each segment
    frame,      \* the owner's frame: "none" or "live"
    tr,         \* whether the awaitable above still has the owner's handle
    linked,     \* owner_ of the boundary trampoline: "yes" until it is done
    posted,     \* whether the owner was posted to unwind
    abandoned,  \* chain_owner::abandoned_
    holds,      \* holds_work_ of the awaitable in the deepest frame
    launch,     \* "no", "done", or "threw" when the executor did not take the task
    handler,    \* how often run_async()'s handler was called
    crash,      \* "yes" after std::terminate in a destructor or a second
                \* destruction, "refused" after a post that a task cannot survive
    ops

ex_vars == <<root, ex_of, ex, work>>
seg_vars == <<st, depth, holds>>
owner_vars == <<frame, tr, linked, posted, abandoned>>
cvars == <<ex_vars, seg_vars, owner_vars, launch, handler, crash, ops>>

ChainInit ==
    /\ root \in {"run_async", "sender"} /\ ex_of \in Layouts
    /\ ex = [e \in Executors |-> "open"] /\ work = [e \in Executors |-> 0]
    /\ st = [s \in Segments |-> "none"] /\ depth = [s \in Segments |-> 0]
    /\ holds = [s \in Segments |-> "no"] /\ frame = [s \in Segments |-> "none"]
    /\ tr = [s \in Segments |-> "null"] /\ linked = [s \in Segments |-> "no"]
    /\ posted = [s \in Segments |-> "no"] /\ abandoned = [s \in Segments |-> "no"]
    /\ launch = "no" /\ handler = 0 /\ crash = "no" /\ ops = 0

Ex(s) == ex_of[s]
Open(s) == ex[Ex(s)] = "open"
Closed(s) == ex[Ex(s)] = "closed"
On(e) == {s \in Segments : ex_of[s] = e}
\* The owner that holds a work guard: the trampoline of run_async().
Guarded == IF root = "run_async" THEN {1} ELSE {}
Op == ops < MaxOps /\ ops' = ops + 1

-----------------------------------------------------------------------------
(* Parts of steps.  `now` and `q` are st and posted as the step has        *)
(* changed them so far.                                                    *)

\* chain_owner::abandon(): once, the owner is posted to its executor.
abandon(s, now, q) ==
    /\ st' = [now EXCEPT ![s] = "given"]
    /\ abandoned' = [abandoned EXCEPT ![s] = "yes"]
    /\ posted' = IF abandoned[s] = "yes" THEN q ELSE [q EXCEPT ![s] = "yes"]

\* Posting the continuation of a segment's coroutine to its executor.
post(s, now) ==
    \/ ~Closed(s) /\ st' = [now EXCEPT ![s] = "queued"] /\ UNCHANGED <<abandoned, posted>>
    \/ Closed(s) /\ abandon(s, now, posted)

\* ~task terminates when it is still awaited, in a segment nobody abandoned.
task_terminates(s, d) == d = 0 /\ depth[s] > 1 /\ abandoned[s] = "no"

\* ~run_awaitable_ex terminates when the segment below is still at work; and its
\* trampoline must not have been destroyed without its knowledge.
awaitable_terminates(s) ==
    s < N /\ tr[s + 1] = "set" /\ (linked[s + 1] = "yes" \/ frame[s + 1] = "none")

\* Mutant: an awaitable keeps the handle of a trampoline that was destroyed.
destroy_keeps(s, d, dead) ==
    /\ crash' = IF task_terminates(s, d) \/ awaitable_terminates(s) THEN "yes" ELSE crash
    /\ depth' = [t \in Segments |-> IF t = s THEN d ELSE IF t = s + 1 THEN 0 ELSE depth[t]]
    /\ holds' = [holds EXCEPT ![s] = "no"]
    /\ tr' = [t \in Segments |-> IF t = s + 1 THEN "null" ELSE tr[t]]
    /\ frame' = [t \in Segments |-> IF (t = s + 1 /\ tr[t] = "set") \/ t \in dead
                                    THEN "none" ELSE frame[t]]
    /\ work' = [work EXCEPT ![Ex(s)] = @ - (IF holds[s] = "yes" THEN 1 ELSE 0)
                                         - Cardinality(dead \cap Guarded)]

\* Frames of s are destroyed: all (d = 0), or the awaitable in the deepest only,
\* which leaves d.  The awaitable in its deepest frame dies, with
\* its task, its trampoline and its work.  `dead` are the owners that are
\* destroyed in the same step.
destroy(s, d, dead) ==
    /\ crash' = IF task_terminates(s, d) \/ awaitable_terminates(s) THEN "yes" ELSE crash
    /\ depth' = [t \in Segments |-> IF t = s THEN d ELSE IF t = s + 1 THEN 0 ELSE depth[t]]
    /\ holds' = [holds EXCEPT ![s] = "no"]
    /\ tr' = [t \in Segments |-> IF t = s + 1 \/ t \in dead THEN "null" ELSE tr[t]]
    /\ frame' = [t \in Segments |-> IF (t = s + 1 /\ tr[t] = "set") \/ t \in dead
                                    THEN "none" ELSE frame[t]]
    /\ work' = [work EXCEPT ![Ex(s)] = @ - (IF holds[s] = "yes" THEN 1 ELSE 0)
                                         - Cardinality(dead \cap Guarded)]

Now(s, l) == [t \in Segments |-> IF t = s THEN l ELSE IF t = s + 1 THEN "none" ELSE st[t]]

\* The first owner ends: the task dies, and the trampoline or the operation state of
\* the sender with it.
end_trampoline ==
    /\ destroy(1, 0, {1}) /\ st' = Now(1, "none")
    /\ UNCHANGED <<linked, abandoned>>

\* boundary_trampoline::unwind(): the segment dies and its parent is given up.
unwind(s, dead) ==
    /\ destroy(s, 0, dead) /\ linked' = [linked EXCEPT ![s] = "no"]
    /\ abandon(s - 1, Now(s, "none"), [posted EXCEPT ![s] = "no"])

-----------------------------------------------------------------------------
(* Launching, waiting, calling.                                            *)

\* run_async(ex)(task): the trampoline and its work guard are made, and the
\* executor resumes the task inline, queues it, or abandons it.
run_async ==
    /\ root = "run_async" /\ launch = "no" /\ launch' = "done"
    /\ work' = [work EXCEPT ![Ex(1)] = @ + 1]
    /\ frame' = [frame EXCEPT ![1] = "live"] /\ depth' = [depth EXCEPT ![1] = 1]
    /\ \/ Open(1) /\ st' = [st EXCEPT ![1] = "running"] /\ UNCHANGED <<abandoned, posted>>
       \/ post(1, st)
    /\ UNCHANGED <<root, ex_of, ex, holds, tr, linked, handler, crash, ops>>

\* dispatch() throws: the wrapper destroys the trampoline and the task again.
run_async_throws ==
    /\ root = "run_async" /\ launch = "no" /\ launch' = "threw"
    /\ UNCHANGED <<ex_vars, seg_vars, owner_vars, handler, crash, ops>>

\* The deepest task waits for something outside, which holds its continuation.
wait(s) ==
    /\ st[s] = "running" /\ Op /\ st' = [st EXCEPT ![s] = "held"]
    /\ UNCHANGED <<ex_vars, depth, holds, owner_vars, launch, handler, crash>>

\* The holder posts the continuation.
complete(s) ==
    /\ st[s] = "held" /\ post(s, st)
    /\ UNCHANGED <<ex_vars, depth, holds, frame, tr, linked, launch, handler, crash, ops>>

\* The holder is torn down and gives the coroutine up.
give_up(s) ==
    /\ st[s] = "held" /\ abandon(s, st, posted)
    /\ UNCHANGED <<ex_vars, depth, holds, frame, tr, linked, launch, handler, crash, ops>>

\* A task awaits another one, which runs at once in the same segment; when that
\* one is done the awaiting task goes on and destroys it.
call(s) ==
    /\ st[s] = "running" /\ depth[s] < MaxDepth /\ Op
    /\ depth' = [depth EXCEPT ![s] = @ + 1]
    /\ UNCHANGED <<ex_vars, st, holds, owner_vars, launch, handler, crash>>

return(s) ==
    /\ st[s] = "running" /\ depth[s] > 1 /\ depth' = [depth EXCEPT ![s] = @ - 1]
    /\ UNCHANGED <<ex_vars, st, holds, owner_vars, launch, handler, crash, ops>>
-----------------------------------------------------------------------------
(* Crossing to another executor and back.                                  *)

\* co_await run(ex)(task): a trampoline is made and linked, work is held on the
\* caller's executor, and the inner task is posted.
run(s) ==
    /\ st[s] = "running" /\ s < N /\ Op
    /\ frame' = [frame EXCEPT ![s + 1] = "live"] /\ tr' = [tr EXCEPT ![s + 1] = "set"]
    /\ linked' = [linked EXCEPT ![s + 1] = "yes"] /\ depth' = [depth EXCEPT ![s + 1] = 1]
    /\ work' = [work EXCEPT ![Ex(s)] = @ + 1] /\ holds' = [holds EXCEPT ![s] = "yes"]
    /\ post(s + 1, [st EXCEPT ![s] = "lent"])
    /\ UNCHANGED <<root, ex_of, ex, launch, handler, crash>>

\* The post throws: the trampoline goes, the work is released, and a parent of a type
\* that lets the exception through goes on with it.
run_throws(s) ==
    /\ st[s] = "running" /\ s < N /\ Op
    /\ work' = [work EXCEPT ![Ex(s)] = (@ + 1) - 1]
    /\ UNCHANGED <<root, ex_of, ex, seg_vars, owner_vars, launch, handler, crash>>

\* A parent that is a task or a quitter awaits in a noexcept function: the exception
\* ends the process.
run_terminates(s) ==
    /\ st[s] = "running" /\ s < N /\ Op /\ crash' = "refused"
    /\ UNCHANGED <<ex_vars, seg_vars, owner_vars, launch, handler>>

\* The executor resumes a coroutine; one that comes back from run() releases the
\* work and destroys the awaitable.
resume(s) ==
    /\ st[s] = "queued" /\ Open(s)
    /\ IF holds[s] = "yes"
       THEN destroy(s, depth[s], {}) /\ st' = Now(s, "running")
       ELSE st' = [st EXCEPT ![s] = "running"] /\ UNCHANGED <<work, depth, holds, frame, tr, crash>>
    /\ UNCHANGED <<root, ex_of, ex, linked, posted, abandoned, launch, handler, ops>>

\* The top task of the chain ends, and the trampoline calls the handler.
end_chain ==
    /\ root = "run_async" /\ st[1] = "running" /\ depth[1] = 1 /\ end_trampoline
    /\ handler' = IF abandoned[1] = "yes" THEN handler ELSE handler + 1
    /\ UNCHANGED <<root, ex_of, ex, posted, launch, ops>>

\* Mutant: the boundary trampoline does not stay suspended at its end.
end_segment_unsuspended(s) ==
    /\ s > 1 /\ st[s] = "running" /\ depth[s] = 1
    /\ linked' = [linked EXCEPT ![s] = "no"] /\ frame' = [frame EXCEPT ![s] = "none"]
    /\ post(s - 1, [st EXCEPT ![s] = "done"])
    /\ UNCHANGED <<ex_vars, depth, holds, tr, launch, handler, crash, ops>>

\* The top task of another segment ends, and the boundary trampoline, which
\* nobody abandoned, posts the parent to the caller's executor.
end_segment(s) ==
    /\ s > 1 /\ st[s] = "running" /\ depth[s] = 1
    /\ linked' = [linked EXCEPT ![s] = "no"]
    /\ post(s - 1, [st EXCEPT ![s] = "done"])
    /\ UNCHANGED <<ex_vars, depth, holds, frame, tr, launch, handler, crash, ops>>

-----------------------------------------------------------------------------
(* Unwinding an abandoned segment.                                         *)

\* The trampoline of run_async() is resumed to unwind the chain: no handler.
resume_trampoline ==
    /\ root = "run_async" /\ posted[1] = "yes" /\ Open(1) /\ posted' = [posted EXCEPT ![1] = "no"]
    /\ end_trampoline
    /\ UNCHANGED <<root, ex_of, ex, launch, handler, ops>>

\* Its executor destroys it instead, and its promise destroys the task.
destroy_trampoline ==
    /\ root = "run_async" /\ posted[1] = "yes" /\ ~Open(1) /\ posted' = [posted EXCEPT ![1] = "no"]
    /\ end_trampoline
    /\ UNCHANGED <<root, ex_of, ex, launch, handler, ops>>

\* A boundary trampoline is resumed to unwind its segment.
resume_boundary(s) ==
    /\ s > 1 /\ posted[s] = "yes" /\ Open(s) /\ unwind(s, {})
    /\ UNCHANGED <<root, ex_of, ex, launch, handler, ops>>

\* Its executor destroys it instead: its promise takes its handle from the
\* awaitable and unwinds the segment.
destroy_boundary(s) ==
    /\ s > 1 /\ posted[s] = "yes" /\ ~Open(s) /\ unwind(s, {s})
    /\ UNCHANGED <<root, ex_of, ex, launch, handler, ops>>

-----------------------------------------------------------------------------
(* Executors.                                                              *)

\* A context is torn down when none of its threads runs anything.  As run()
\* requires, it outlives the inner tasks that its own coroutines wait for.
tear_down(e) ==
    /\ ex[e] = "open" /\ \A s \in On(e) : st[s] \notin {"running", "lent"}
    /\ ex' = [ex EXCEPT ![e] = "draining"]
    /\ UNCHANGED <<root, ex_of, work, seg_vars, owner_vars, launch, handler, crash, ops>>

\* What is queued is abandoned, until nothing is.
drain(s) ==
    /\ st[s] = "queued" /\ ex[Ex(s)] = "draining" /\ abandon(s, st, posted)
    /\ UNCHANGED <<ex_vars, depth, holds, frame, tr, linked, launch, handler, crash, ops>>

close(e) ==
    /\ ex[e] = "draining" /\ \A s \in On(e) : st[s] # "queued" /\ posted[s] = "no"
    /\ ex' = [ex EXCEPT ![e] = "closed"]
    /\ UNCHANGED <<root, ex_of, work, seg_vars, owner_vars, launch, handler, crash, ops>>

\* The steps that run by themselves, or that whoever holds a coroutine owes it.
ChainStep ==
    \/ run_async \/ run_async_throws \/ end_chain \/ resume_trampoline \/ destroy_trampoline
    \/ \E e \in Executors : close(e)
    \/ \E s \in Segments :
           \/ wait(s) \/ complete(s) \/ give_up(s) \/ call(s) \/ return(s)
           \/ run(s) \/ run_throws(s) \/ run_terminates(s) \/ resume(s) \/ end_segment(s)
           \/ resume_boundary(s) \/ destroy_boundary(s) \/ drain(s)

=============================================================================
