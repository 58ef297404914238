-------------------------------- MODULE Join --------------------------------
(***************************************************************************)
(* What when_all and when_any share: the state in the parent's frame, the  *)
(* launch of one runner per branch, the count of branches that have not    *)
(* finished, the loss of branches that are abandoned, the forwarding of    *)
(* the parent's stop request, and the end of the join, when the last       *)
(* branch resumes the parent or gives it up.                               *)
(*                                                                         *)
(* The runners may run on several threads: one action is one access to the *)
(* shared state.  The branches' own work is only its outcome.              *)
(***************************************************************************)
EXTENDS Naturals, FiniteSets

CONSTANT N      \* the number of branches

ASSUME NAssumption == N \in Nat \ {0}

Branches == 1 .. N

VARIABLES
    mode,       \* "all" or "any": which of the two this join is
    alive,      \* "yes" while the parent's frame holds the state
    parent,     \* where the parent is
    launched,   \* the runners posted so far
    remaining,  \* remaining_count_
    pc,         \* where each runner is
    outcome,    \* how each branch ended: "none", "ok", "error", "throw", "lost"
    lost, stop, \* lost_, and whether stop_source_ was stopped
    pstop, pcb, \* the parent's stop request, and the callback that forwards it
    settles     \* how often the parent was resumed or given up

join_vars == <<launched, remaining, lost>>
stop_vars == <<stop, pstop, pcb>>
parent_vars == <<alive, parent, settles>>
jvars == <<mode, join_vars, stop_vars, parent_vars, pc, outcome>>

JoinInit ==
    /\ mode \in {"all", "any"}
    /\ alive = "yes" /\ parent = "start" /\ launched = 0 /\ remaining = N
    /\ pc = [b \in Branches |-> "new"] /\ outcome = [b \in Branches |-> "none"]
    /\ lost = "no" /\ stop = "no" /\ pstop = "no" /\ pcb = "none" /\ settles = 0

Goto(b, l) == pc' = [pc EXCEPT ![b] = l]

-----------------------------------------------------------------------------
(* Launching.                                                              *)

\* await_suspend() registers the callback that forwards the parent's stop; one
\* requested already is forwarded on the spot.
launch ==
    /\ parent = "start" /\ parent' = "launching"
    /\ \/ pstop = "no" /\ pcb' = "registered" /\ UNCHANGED stop
       \/ pstop = "yes" /\ pcb' = "done" /\ stop' = "yes"
    /\ UNCHANGED <<mode, join_vars, pstop, alive, settles, pc, outcome>>

\* launch_one() creates and posts the next runner.  The executor takes it, or
\* destroys it unstarted, whose promise then reports the loss.
launch_one ==
    /\ parent = "launching" /\ launched < N /\ launched' = launched + 1
    /\ Goto(launched', "queued") \/ Goto(launched', "lose")
    /\ parent' = (IF launched' = N THEN "waiting" ELSE parent)
    /\ UNCHANGED <<mode, remaining, lost, stop_vars, alive, settles, outcome>>

\* A runner cannot be allocated or posted.  The parent is a task, whose await_suspend()
\* is noexcept: the process ends before the frame that earlier runners point into.
launch_throws ==
    /\ parent = "launching" /\ parent' = "terminated"
    /\ UNCHANGED <<mode, join_vars, stop_vars, alive, settles, pc, outcome>>

-----------------------------------------------------------------------------
(* A runner and its branch.                                                *)

\* The executor starts the runner, or abandons it.
start(b) ==
    /\ pc[b] = "queued" /\ (Goto(b, "running") \/ Goto(b, "lose"))
    /\ UNCHANGED <<mode, join_vars, stop_vars, parent_vars, outcome>>

\* The branch ends with a value, an error code or an exception.
branch_ends(b) ==
    /\ pc[b] = "running" /\ Goto(b, "record")
    /\ \E o \in {"ok", "error", "throw"} : outcome' = [outcome EXCEPT ![b] = o]
    /\ UNCHANGED <<mode, join_vars, stop_vars, parent_vars>>

\* The branch is abandoned: its segment's owner, the runner, is resumed to unwind
\* it and goes to its end without a result, or is destroyed by a closed executor.
branch_lost(b) ==
    /\ pc[b] = "running" /\ outcome' = [outcome EXCEPT ![b] = "lost"]
    /\ Goto(b, "final") \/ Goto(b, "lose")
    /\ UNCHANGED <<mode, join_vars, stop_vars, parent_vars>>

\* request_stop() by a runner that recorded something.
runner_stops(b, next) ==
    /\ pc[b] = "stop" /\ stop' = "yes" /\ Goto(b, next)
    /\ UNCHANGED <<mode, join_vars, pstop, pcb, parent_vars, outcome>>

\* Mutant: an abandoned branch is counted as one that finished.
final_suspend_forgets(b) ==
    /\ pc[b] = "final" /\ Goto(b, "sub")
    /\ UNCHANGED <<mode, join_vars, stop_vars, parent_vars, outcome>>

\* final_suspend() up to the destruction of the runner's frame.
final_suspend(b) ==
    /\ pc[b] = "final" /\ Goto(b, "sub")
    /\ IF outcome[b] = "lost" THEN lost' = "yes" /\ stop' = "yes"
       ELSE UNCHANGED <<lost, stop>>
    /\ UNCHANGED <<mode, launched, remaining, pstop, pcb, parent_vars, outcome>>

\* The runner releases its share; only the last one goes on.
final_count(b) ==
    /\ pc[b] = "sub" /\ remaining' = remaining - 1
    /\ Goto(b, IF remaining = 1 THEN "last" ELSE "gone")
    /\ UNCHANGED <<mode, launched, lost, stop_vars, parent_vars, outcome>>

\* The last runner resumes the parent through its executor, or abandons it.
final_settle(b) ==
    /\ pc[b] = "last" /\ Goto(b, "gone") /\ settles' = settles + 1
    /\ parent' = (IF lost = "yes" THEN "abandoned" ELSE "resumed")
    /\ UNCHANGED <<mode, alive, join_vars, stop_vars, outcome>>

\* Mutant: the loss of the last branch does not end the join.
lose_count_silent(b) ==
    /\ pc[b] = "lsub" /\ remaining' = remaining - 1 /\ Goto(b, "gone")
    /\ UNCHANGED <<mode, alive, launched, lost, stop_vars, parent, settles, outcome>>

\* lose_branch() of a runner destroyed before it finished.
lose_branch(b) ==
    /\ pc[b] = "lose" /\ Goto(b, "lsub")
    /\ outcome' = [outcome EXCEPT ![b] = "lost"]
    /\ lost' = "yes" /\ stop' = "yes"
    /\ UNCHANGED <<mode, launched, remaining, pstop, pcb, parent_vars>>

lose_count(b) ==
    /\ pc[b] = "lsub" /\ remaining' = remaining - 1 /\ Goto(b, "gone")
    /\ IF remaining = 1 THEN parent' = "abandoned" /\ settles' = settles + 1
       ELSE UNCHANGED <<parent, settles>>
    /\ UNCHANGED <<mode, alive, launched, lost, stop_vars, outcome>>

-----------------------------------------------------------------------------
(* The parent's stop request and its end.                                  *)

\* The parent's token is triggered; the registered callback starts.
parent_stop ==
    /\ pstop = "no" /\ pstop' = "yes"
    /\ pcb' = (IF pcb = "registered" THEN "copying" ELSE pcb)
    /\ UNCHANGED <<mode, join_vars, stop, parent_vars, pc, outcome>>

\* Mutant: the callback stops through the source in the frame.
forward_copy_none ==
    /\ pcb = "copying" /\ pcb' = "borrowing"
    /\ UNCHANGED <<mode, join_vars, stop, pstop, parent_vars, pc, outcome>>

\* stop_callback_fn copies the source, then stops through the copy: during the
\* second step the join may end and be destroyed.
forward_copy ==
    /\ pcb = "copying" /\ pcb' = "requesting"
    /\ UNCHANGED <<mode, join_vars, stop, pstop, parent_vars, pc, outcome>>

forward_stop ==
    /\ pcb = "requesting" /\ pcb' = "done" /\ stop' = "yes"
    /\ UNCHANGED <<mode, join_vars, pstop, parent_vars, pc, outcome>>

\* The frame that holds the state dies when the parent returns its result, when
\* the executor drops it instead of resuming it, or when it is given up.
\* Its destructor waits for a callback on another thread, but the callback may
\* be what is ending the join, further up on the same thread.
parent_ends ==
    /\ parent \in {"resumed", "abandoned"} /\ pcb # "copying"
    /\ parent' \in (IF parent = "resumed" THEN {"returned", "dropped"} ELSE {"destroyed"})
    /\ alive' = "no" /\ pcb' = (IF pcb = "registered" THEN "done" ELSE pcb)
    /\ UNCHANGED <<mode, join_vars, stop, pstop, settles, pc, outcome>>

\* The steps that the join's own code and its executor take without waiting.
JoinStep ==
    \/ launch \/ launch_one \/ launch_throws \/ forward_copy \/ forward_stop \/ parent_ends
    \/ \E b \in Branches :
           \/ start(b) \/ branch_ends(b) \/ branch_lost(b)
           \/ final_suspend(b) \/ final_count(b) \/ final_settle(b)
           \/ lose_branch(b) \/ lose_count(b)

=============================================================================
