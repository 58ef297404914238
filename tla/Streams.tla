------------------------------ MODULE Streams -------------------------------
(***************************************************************************)
(* The stream operations, in one of two worlds: the readers of a stream    *)
(* pair, or the writes of a test that fuse::armed() runs.                  *)
(***************************************************************************)
EXTENDS Read, Armed

VARIABLE world \* "pair" or "armed"

vars == <<world, read_vars, armed_vars>>

Init == world \in {"pair", "armed"} /\ ReadInit /\ ArmedInit

InPair == world = "pair" /\ UNCHANGED <<world, armed_vars>>
InArmed == world = "armed" /\ UNCHANGED <<world, read_vars>>

Next == \/ InPair /\ ReadNext
        \/ InArmed /\ ArmedStep

Spec == Init /\ [][Next]_vars

\* The one thread goes on while there is something to run, as does the one that
\* requested stop, and the test that armed() runs returns.
ThreadStep ==
    \/ InPair /\ (executor_resumes \/ \E r \in Readers : ReadStep(r))
    \/ InArmed /\ ArmedStep

FairSpec ==
    /\ Spec /\ WF_vars(ThreadStep)
    /\ \A r \in Stoppable :
           WF_vars(InPair /\ CancelStep(r) /\ UNCHANGED <<wrapper_vars, loop_vars>>)

\* Reads and writes move the bytes that they report, all of them once and in the order
\* of their buffers, over empty buffers and partial transfers, whether they succeed or
\* fail (read.hpp, write.hpp, write_at_least.hpp, write_now.hpp).
BytesAreReported == BytesInOrder /\ WritesAreReported

\* A test under armed() ends, having met a failure at each of its points in both
\* ways (test/fuse.hpp, armed() and maybe_fail()).
ArmedCovers == world = "armed" => ArmedCoversEveryPoint
=============================================================================
