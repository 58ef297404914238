-------------------------- MODULE MCNotifications ---------------------------
(***************************************************************************)
(* A waker with two threads that call wake() and a coroutine that waits    *)
(* three times, so that a wakeup deferred by a cancellation has a later    *)
(* wait to complete.                                                       *)
(*                                                                         *)
(* An event with three waiters, two of them cancellable, so that           *)
(* abandoning one may take a claimed, an unclaimed or both of the others   *)
(* with it.                                                                *)
(*                                                                         *)
(* Two coroutines that wait through a bridge, so that one is taken from a  *)
(* service's list while the other is in it.                                *)
(***************************************************************************)
EXTENDS Notifications

=============================================================================
