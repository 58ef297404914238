------------------------------ MODULE MCStrand ------------------------------
(* Small instances of the strand for TLC: two threads, with three           *)
(* continuations so that two may be queued behind one whose invoker cannot  *)
(* be posted, and with two for the executions that end in a violation.      *)
EXTENDS StrandRefinement

=============================================================================
