---------------------------- MODULE MCThreadPool ----------------------------
(* The instance of ThreadPool.                                             *)
EXTENDS ThreadPool

=============================================================================
