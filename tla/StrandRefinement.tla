-------------------------- MODULE StrandRefinement --------------------------
(***************************************************************************)
(* The strand implements SerialExecutor: the batch its invoker took comes  *)
(* before the continuations still pending.                                 *)
(***************************************************************************)
EXTENDS Strand

\* The batch of the thread that has one (there is never a second).
CurrentBatch(b) ==
    IF \E t \in Threads : b[t] # <<>> THEN b[CHOOSE t \in Threads : b[t] # <<>>] ELSE <<>>

Queue == CurrentBatch(batch) \o pending_

Running == {exec[t] : t \in Threads} \ {None}

\* What shutdown() took is as good as abandoned.
Abandoned == abandoned \cup Contents(doomed)

\* A continuation withdrawn and not yet handed back, while its caller posts a
\* second invoker for the ones behind it, is as good as thrown.
Withdrawn == {callc[t] : t \in {u \in Threads : callpc[u] \in {"repost", "giveup"}}}

Thrown == thrown \cup Withdrawn

Serial == INSTANCE SerialExecutor WITH
    queue <- Queue, running <- Running, abandoned <- Abandoned, thrown <- Thrown

\* Every step of the strand is a step of the serial executor or none: work is
\* resumed one at a time and in the order enqueue() accepted it, apart from
\* what dispatch() runs in place and what a failed post or a shutdown removes.
ImplementsSerialExecutor == Serial!AbsSpec

=============================================================================
