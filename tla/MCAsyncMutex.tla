---------------------------- MODULE MCAsyncMutex ----------------------------
(* The instances of AsyncMutex that TLC checks: a holder, a waiter without  *)
(* a stop source and two with one, of which one is a quitter, enough for an *)
(* unlock() to skip a canceled waiter, lose the one it grants and go on to  *)
(* a third; and a task and a quitter that share the mutex.                  *)
EXTENDS AsyncMutex

=============================================================================
