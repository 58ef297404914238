------------------------------ MODULE MCFrames ------------------------------
(* The instance of Frames that TLC checks: two chains, one with an allocator *)
(* of its own, on two threads.                                               *)
EXTENDS Frames, TLC

ThreadSymmetry == Permutations(Threads)

=============================================================================
