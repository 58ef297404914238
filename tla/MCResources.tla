---------------------------- MODULE MCResources -----------------------------
(***************************************************************************)
(* A context with two threads and four types of services.  a needs b in    *)
(* its constructor; c is a kind of b (its key_type); the shutdown() of b   *)
(* uses d, and so does the destructor of c; d needs b.                     *)
(*                                                                         *)
(* A memory resource with two threads, four blocks and buckets of two, and *)
(* sizes on both sides of the first and of the last class.                 *)
(***************************************************************************)
EXTENDS Resources

CONSTANTS a, b, c, d

MCKey == [ty \in Types |-> IF ty = c THEN b ELSE ty]
MCNeeds == [ty \in Types |-> IF ty \in {a, d} THEN b ELSE None]
MCHook == [ty \in Types |-> IF ty = b THEN d ELSE None]
MCLast == [ty \in Types |-> IF ty = c THEN d ELSE None]
MCMade == 1 .. 7
=============================================================================
