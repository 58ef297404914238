---------------------------- MODULE StrandProofs ----------------------------
(***************************************************************************)
(* The invariants of Strand, and the refinement of SerialExecutor, for any *)
(* sets of threads and continuations.                                      *)
(***************************************************************************)
EXTENDS StrandRefinement, TLAPS

\* Every leaf is for Zenon unless it names another prover.
USE Zenon

Idle(t) == callpc[t] = "idle"

\* Lifetimes: calls borrow a handle, a handle and an invoker keep the impl.
Lifetimes ==
    /\ handle = "held" => impl = "alive"
    /\ ~handle = "held" => \A t \in Threads : Idle(t)
    /\ impl # "alive" => posted = 0 /\ \A t \in Threads : inv[t] = "none"
    /\ impl = "unborn" => ~Open
    /\ sd # "no" => ~Open \/ impl = "freed"
    /\ sd = "closing" => ~Open

\* Only a thread inside the dispatch loop is the strand's dispatch thread.
InsideLoop ==
    /\ \A t \in Threads : dispatch_thread_ = t => inv[t] # "none"
    /\ NoForeignInline

\* The inductive invariant.  Mutual exclusion follows from it: the lock flag is
\* one responsible party, so there is one invoker at most, and inline dispatch
\* stays inside the loop of that one.
IInv ==
    /\ TypeOK /\ Lifetimes /\ InsideLoop
    /\ LockedMeansOneResponsible
    /\ WithdrawnIsFirst
    /\ ClosedIsEmpty
    /\ NoLockAfterDestroy

-----------------------------------------------------------------------------
\* strand_queue::push: appending to a queue that is not empty keeps its front.
LEMMA HeadAppend ==
  ASSUME NEW S, NEW s \in Seq(S), NEW e \in S, s # <<>>
  PROVE  Append(s, e) # <<>> /\ Head(Append(s, e)) = Head(s)
BY SMTT(30)

\* The inductive invariant holds before the strand is created.
LEMMA InitIInv == Init => IInv
BY NoneAssumption, SMTT(30) DEF Init, IInv, TypeOK, Pcs, Lifetimes, Idle, InsideLoop, NoForeignInline,
   LockedMeansOneResponsible, Responsible, Invoking, Owing, WithdrawnIsFirst,
   ClosedIsEmpty, NoLockAfterDestroy, Open, MutexFree

\* Every step of the strand, its callers and its service keeps TypeOK.
LEMMA TypeStep == IInv /\ [Next]_vars => TypeOK'
<1> SUFFICES ASSUME IInv, [Next]_vars PROVE TypeOK'
    OBVIOUS
<1> USE NoneAssumption DEF IInv, TypeOK, Pcs, WithdrawnIsFirst, Open, impl_vars, service_vars, invoker_vars, call_vars, fate_vars
<1>1. CASE create_implementation
    BY <1>1 DEF create_implementation, Contents
<1>2. CASE DropHandle
    BY <1>2 DEF DropHandle, Contents
<1>3. CASE destroy_impl
    BY <1>3, SMTT(30) DEF destroy_impl, Contents
<1>4. CASE drop_invoker
    BY <1>4, SMTT(30) DEF drop_invoker, Contents
<1>5. CASE shutdown_close
    BY <1>5 DEF shutdown_close, Contents
<1>6. CASE shutdown_take
    BY <1>6, SMTT(30) DEF shutdown_take, Contents
<1>7. CASE shutdown_abandon
    BY <1>7, SMTT(30) DEF shutdown_abandon, Contents
<1>8. CASE service_destroyed
    BY <1>8 DEF service_destroyed, Contents
<1>9. ASSUME NEW t \in Threads, NEW c \in Conts, post(t, c) PROVE TypeOK'
    BY <1>9 DEF post, MayCall, Goto
<1>10. ASSUME NEW t \in Threads, NEW c \in Conts, dispatch(t, c) PROVE TypeOK'
  <2>1. CASE dispatch_thread_ # t /\ post(t, c)
    BY <2>1 DEF post, MayCall, Goto
  <2>2. CASE dispatch_thread_ = t /\ exec' = [exec EXCEPT ![t] = c]
    BY <1>10, <2>2, SMTT(30) DEF dispatch, post, MayCall
  <2> QED
    BY <1>10, <2>1, <2>2 DEF dispatch
<1>11. ASSUME NEW t \in Threads, enqueue_check(t) PROVE TypeOK'
  <2>0. callc[t] \in Conts
    BY <1>11 DEF enqueue_check
  <2>1. CASE Open
    BY <1>11, <2>1 DEF enqueue_check, Goto
  <2>2. CASE ~Open
    BY <1>11, <2>0, <2>2 DEF enqueue_check, Goto, Return
  <2> QED BY <2>1, <2>2
<1>12. ASSUME NEW t \in Threads, enqueue_lock(t) PROVE TypeOK'
  <2>0. callc[t] \in Conts
    BY <1>12 DEF enqueue_lock
  <2>1. /\ callpc' \in [Threads -> Pcs] /\ callc' \in [Threads -> Conts \cup {None}]
        /\ \A u \in Threads : callpc'[u] # "idle" => callc'[u] # None
    BY <1>12, ZenonT(30) DEF enqueue_lock, Goto, Return
  <2>2. pending_' \in Seq(Conts)
    <3>1. pending_' = pending_ \/ pending_' = Append(pending_, callc[t])
      BY <1>12 DEF enqueue_lock, push
    <3>2. pending_ \in Seq(Conts)
      OBVIOUS
    <3> HIDE DEF IInv
    <3> QED BY <3>1, <2>0, <3>2, SMTT(30)
  <2>3. abandoned' \subseteq Conts /\ thrown' \subseteq Conts
    BY <1>12, <2>0 DEF enqueue_lock, Contents
  <2>4. locked_' \in {"yes", "no"} /\ posted' \in Nat
    BY <1>12 DEF enqueue_lock
  <2> QED
    BY <1>12, <2>1, <2>2, <2>3, <2>4 DEF enqueue_lock
<1>13. ASSUME NEW t \in Threads, post_invoker(t) PROVE TypeOK'
  <2>0. callc[t] \in Conts
    BY <1>13 DEF post_invoker
  <2>1. /\ callpc' \in [Threads -> Pcs] /\ callc' \in [Threads -> Conts \cup {None}]
        /\ \A u \in Threads : callpc'[u] # "idle" => callc'[u] # None
    BY <1>13 DEF post_invoker, Goto, Return
  <2>2. pending_' \in Seq(Conts)
    BY <1>13 DEF post_invoker
  <2>3. abandoned' \subseteq Conts /\ thrown' \subseteq Conts
    BY <1>13, <2>0 DEF post_invoker, Contents
  <2>4. locked_' \in {"yes", "no"} /\ posted' \in Nat
    BY <1>13, SMTT(30) DEF post_invoker
  <2> QED
    BY <1>13, <2>1, <2>2, <2>3, <2>4 DEF post_invoker
<1>14. ASSUME NEW t \in Threads, withdraw(t) PROVE TypeOK'
  <2>0. callc[t] \in Conts
    BY <1>14 DEF withdraw
  <2>1. /\ callpc' \in [Threads -> Pcs] /\ callc' \in [Threads -> Conts \cup {None}]
        /\ \A u \in Threads : callpc'[u] # "idle" => callc'[u] # None
    BY <1>14 DEF withdraw, Goto, Return
  <2>2. pending_' \in Seq(Conts)
    <3>1. pending_' = pending_ \/ (pending_' = Tail(pending_) /\ pending_ # <<>>)
      BY <1>14 DEF withdraw
    <3>2. pending_ \in Seq(Conts)
      OBVIOUS
    <3> HIDE DEF IInv
    <3> QED BY <3>1, <3>2, SMTT(30)
  <2>3. abandoned' \subseteq Conts /\ thrown' \subseteq Conts
    BY <1>14, <2>0, SMTT(30) DEF withdraw, Contents
  <2>4. locked_' \in {"yes", "no"} /\ posted' \in Nat
    BY <1>14 DEF withdraw
  <2> QED
    BY <1>14, <2>1, <2>2, <2>3, <2>4 DEF withdraw
<1>15. ASSUME NEW t \in Threads, repost_invoker(t) PROVE TypeOK'
  <2>0. callc[t] \in Conts
    BY <1>15 DEF repost_invoker
  <2>1. /\ callpc' \in [Threads -> Pcs] /\ callc' \in [Threads -> Conts \cup {None}]
        /\ \A u \in Threads : callpc'[u] # "idle" => callc'[u] # None
    BY <1>15 DEF repost_invoker, Goto, Return
  <2>2. pending_' \in Seq(Conts)
    BY <1>15 DEF repost_invoker
  <2>3. abandoned' \subseteq Conts /\ thrown' \subseteq Conts
    BY <1>15, <2>0 DEF repost_invoker, Contents
  <2>4. locked_' \in {"yes", "no"} /\ posted' \in Nat
    BY <1>15, SMTT(30) DEF repost_invoker
  <2> QED
    BY <1>15, <2>1, <2>2, <2>3, <2>4 DEF repost_invoker
<1>16. ASSUME NEW t \in Threads, abandon_pending(t) PROVE TypeOK'
  <2>0. callc[t] \in Conts
    BY <1>16 DEF abandon_pending
  <2>1. /\ callpc' \in [Threads -> Pcs] /\ callc' \in [Threads -> Conts \cup {None}]
        /\ \A u \in Threads : callpc'[u] # "idle" => callc'[u] # None
    BY <1>16 DEF abandon_pending, Goto, Return
  <2>2. pending_' \in Seq(Conts)
    <3>1. pending_' = pending_ \/ pending_' = <<>>
      BY <1>16 DEF abandon_pending
    <3>2. pending_ \in Seq(Conts)
      OBVIOUS
    <3> HIDE DEF IInv
    <3>3. <<>> \in Seq(Conts)
      BY SMTT(30)
    <3> QED BY <3>1, <3>2, <3>3, Zenon
  <2>3. abandoned' \subseteq Conts /\ thrown' \subseteq Conts
    BY <1>16, <2>0, SMTT(30) DEF abandon_pending, Contents
  <2>4. locked_' \in {"yes", "no"} /\ posted' \in Nat
    BY <1>16 DEF abandon_pending
  <2> QED
    BY <1>16, <2>1, <2>2, <2>3, <2>4 DEF abandon_pending
<1>17. ASSUME NEW t \in Threads, set_dispatch_thread(t) PROVE TypeOK'
    BY <1>17 DEF set_dispatch_thread, Step, InvokerAt
<1>18. ASSUME NEW t \in Threads, take_all(t) PROVE TypeOK'
    BY <1>18, SMTT(30) DEF take_all, Step, InvokerAt
<1>19. ASSUME NEW t \in Threads, dispatch_batch(t) PROVE TypeOK'
    BY <1>19, SMTT(30) DEF dispatch_batch, InvokerAt
<1>20. ASSUME NEW t \in Threads, coroutine_returns(t) PROVE TypeOK'
    BY <1>20 DEF coroutine_returns
<1>21. ASSUME NEW t \in Threads, try_unlock(t) PROVE TypeOK'
    BY <1>21, ZenonT(30) DEF try_unlock, Step, InvokerAt
<1>22. ASSUME NEW t \in Threads, clear_dispatch_thread(t) PROVE TypeOK'
    BY <1>22 DEF clear_dispatch_thread, Step, InvokerAt
<1>23. ASSUME NEW t \in Threads, run_invoker(t) PROVE TypeOK'
    BY <1>23, SMTT(30) DEF run_invoker, Step, InvokerAt
<1>24. CASE UNCHANGED vars
    BY <1>24 DEF vars
<1> QED
    BY <1>1, <1>2, <1>3, <1>4, <1>5, <1>6, <1>7, <1>8, <1>9, <1>10, <1>11, <1>12,
       <1>13, <1>14, <1>15, <1>16, <1>17, <1>18, <1>19, <1>20, <1>21, <1>22, <1>23, <1>24
    DEF Next, CallStep, InvokerStep

\* Every step respects who keeps the strand_impl alive.
LEMMA LifetimesStep == IInv /\ [Next]_vars => Lifetimes'
<1> SUFFICES ASSUME IInv, [Next]_vars PROVE Lifetimes'
    OBVIOUS
<1> USE NoneAssumption DEF IInv, TypeOK, Pcs, Lifetimes, Idle, Open, impl_vars, service_vars, invoker_vars, call_vars, fate_vars
<1>1. CASE create_implementation
    BY <1>1 DEF create_implementation, Contents
<1>2. CASE DropHandle
    BY <1>2 DEF DropHandle, Contents
<1>3. CASE destroy_impl
    BY <1>3 DEF destroy_impl, Contents
<1>4. CASE drop_invoker
    BY <1>4, SMTT(30) DEF drop_invoker, Contents
<1>5. CASE shutdown_close
    BY <1>5 DEF shutdown_close, Contents
<1>6. CASE shutdown_take
    BY <1>6 DEF shutdown_take, Contents
<1>7. CASE shutdown_abandon
    BY <1>7 DEF shutdown_abandon, Contents
<1>8. CASE service_destroyed
    BY <1>8 DEF service_destroyed, Contents
<1>9. ASSUME NEW t \in Threads, NEW c \in Conts, post(t, c) PROVE Lifetimes'
    BY <1>9 DEF post, MayCall, Goto
<1>10. ASSUME NEW t \in Threads, NEW c \in Conts, dispatch(t, c) PROVE Lifetimes'
    BY <1>10 DEF dispatch, post, MayCall, Goto
<1>11. ASSUME NEW t \in Threads, enqueue_check(t) PROVE Lifetimes'
    BY <1>11 DEF enqueue_check, Goto, Return
<1>12. ASSUME NEW t \in Threads, enqueue_lock(t) PROVE Lifetimes'
    BY <1>12 DEF enqueue_lock, Goto, Return, push
<1>13. ASSUME NEW t \in Threads, post_invoker(t) PROVE Lifetimes'
    BY <1>13 DEF post_invoker, Goto, Return
<1>14. ASSUME NEW t \in Threads, withdraw(t) PROVE Lifetimes'
    BY <1>14 DEF withdraw, Goto, Return
<1>15. ASSUME NEW t \in Threads, repost_invoker(t) PROVE Lifetimes'
    BY <1>15 DEF repost_invoker, Goto, Return
<1>16. ASSUME NEW t \in Threads, abandon_pending(t) PROVE Lifetimes'
    BY <1>16 DEF abandon_pending, Goto, Return, Contents
<1>17. ASSUME NEW t \in Threads, set_dispatch_thread(t) PROVE Lifetimes'
    BY <1>17 DEF set_dispatch_thread, Step, InvokerAt
<1>18. ASSUME NEW t \in Threads, take_all(t) PROVE Lifetimes'
    BY <1>18 DEF take_all, Step, InvokerAt
<1>19. ASSUME NEW t \in Threads, dispatch_batch(t) PROVE Lifetimes'
    BY <1>19 DEF dispatch_batch, InvokerAt
<1>20. ASSUME NEW t \in Threads, coroutine_returns(t) PROVE Lifetimes'
    BY <1>20 DEF coroutine_returns
<1>21. ASSUME NEW t \in Threads, try_unlock(t) PROVE Lifetimes'
    BY <1>21 DEF try_unlock, Step, InvokerAt
<1>22. ASSUME NEW t \in Threads, clear_dispatch_thread(t) PROVE Lifetimes'
    BY <1>22 DEF clear_dispatch_thread, Step, InvokerAt
<1>23. ASSUME NEW t \in Threads, run_invoker(t) PROVE Lifetimes'
    BY <1>23, SMTT(30) DEF run_invoker, Step, InvokerAt
<1>24. CASE UNCHANGED vars
    BY <1>24 DEF vars
<1> QED
    BY <1>1, <1>2, <1>3, <1>4, <1>5, <1>6, <1>7, <1>8, <1>9, <1>10, <1>11, <1>12,
       <1>13, <1>14, <1>15, <1>16, <1>17, <1>18, <1>19, <1>20, <1>21, <1>22, <1>23, <1>24
    DEF Next, CallStep, InvokerStep

\* Every step keeps coroutines and the dispatch thread inside the loop of
\* make_invoker().
LEMMA InsideLoopStep == IInv /\ [Next]_vars => InsideLoop'
<1> SUFFICES ASSUME IInv, [Next]_vars PROVE InsideLoop'
    OBVIOUS
<1> USE NoneAssumption DEF IInv, TypeOK, Pcs, InsideLoop, NoForeignInline, impl_vars, service_vars, invoker_vars, call_vars, fate_vars
<1>1. CASE create_implementation
    BY <1>1 DEF create_implementation, Contents
<1>2. CASE DropHandle
    BY <1>2 DEF DropHandle, Contents
<1>3. CASE destroy_impl
    BY <1>3 DEF destroy_impl, Contents
<1>4. CASE drop_invoker
    BY <1>4 DEF drop_invoker, Contents
<1>5. CASE shutdown_close
    BY <1>5 DEF shutdown_close, Contents
<1>6. CASE shutdown_take
    BY <1>6 DEF shutdown_take, Contents
<1>7. CASE shutdown_abandon
    BY <1>7 DEF shutdown_abandon, Contents
<1>8. CASE service_destroyed
    BY <1>8 DEF service_destroyed, Contents
<1>9. ASSUME NEW t \in Threads, NEW c \in Conts, post(t, c) PROVE InsideLoop'
    BY <1>9 DEF post, MayCall, Goto
<1>10. ASSUME NEW t \in Threads, NEW c \in Conts, dispatch(t, c) PROVE InsideLoop'
    BY <1>10 DEF dispatch, post, MayCall, Goto
<1>11. ASSUME NEW t \in Threads, enqueue_check(t) PROVE InsideLoop'
    BY <1>11 DEF enqueue_check, Goto, Return
<1>12. ASSUME NEW t \in Threads, enqueue_lock(t) PROVE InsideLoop'
    BY <1>12 DEF enqueue_lock, Goto, Return, push
<1>13. ASSUME NEW t \in Threads, post_invoker(t) PROVE InsideLoop'
    BY <1>13 DEF post_invoker, Goto, Return
<1>14. ASSUME NEW t \in Threads, withdraw(t) PROVE InsideLoop'
    BY <1>14 DEF withdraw, Goto, Return
<1>15. ASSUME NEW t \in Threads, repost_invoker(t) PROVE InsideLoop'
    BY <1>15 DEF repost_invoker, Goto, Return
<1>16. ASSUME NEW t \in Threads, abandon_pending(t) PROVE InsideLoop'
    BY <1>16 DEF abandon_pending, Goto, Return, Contents
<1>17. ASSUME NEW t \in Threads, set_dispatch_thread(t) PROVE InsideLoop'
    BY <1>17 DEF set_dispatch_thread, Step, InvokerAt
<1>18. ASSUME NEW t \in Threads, take_all(t) PROVE InsideLoop'
    BY <1>18 DEF take_all, Step, InvokerAt
<1>19. ASSUME NEW t \in Threads, dispatch_batch(t) PROVE InsideLoop'
    BY <1>19 DEF dispatch_batch, InvokerAt
<1>20. ASSUME NEW t \in Threads, coroutine_returns(t) PROVE InsideLoop'
    BY <1>20 DEF coroutine_returns
<1>21. ASSUME NEW t \in Threads, try_unlock(t) PROVE InsideLoop'
    BY <1>21, SMTT(30) DEF try_unlock, Step, InvokerAt
<1>22. ASSUME NEW t \in Threads, clear_dispatch_thread(t) PROVE InsideLoop'
    BY <1>22 DEF clear_dispatch_thread, Step, InvokerAt
<1>23. ASSUME NEW t \in Threads, run_invoker(t) PROVE InsideLoop'
    BY <1>23 DEF run_invoker, Step, InvokerAt
<1>24. CASE UNCHANGED vars
    BY <1>24 DEF vars
<1> QED
    BY <1>1, <1>2, <1>3, <1>4, <1>5, <1>6, <1>7, <1>8, <1>9, <1>10, <1>11, <1>12,
       <1>13, <1>14, <1>15, <1>16, <1>17, <1>18, <1>19, <1>20, <1>21, <1>22, <1>23, <1>24
    DEF Next, CallStep, InvokerStep

\* Every step keeps locked_ in agreement with who owes the queue an invoker.
LEMMA LockStep == IInv /\ [Next]_vars => LockedMeansOneResponsible'
<1> SUFFICES ASSUME IInv, [Next]_vars PROVE LockedMeansOneResponsible'
    OBVIOUS
<1> USE NoneAssumption DEF IInv, TypeOK, Pcs, Lifetimes, Idle, Open, LockedMeansOneResponsible, Responsible, Invoking, Owing, impl_vars, service_vars, invoker_vars, call_vars, fate_vars
<1>1. CASE create_implementation
  <2>1. \A u \in Threads : ~Responsible(u) /\ ~Responsible(u)'
    BY <1>1 DEF create_implementation
  <2>2. posted = 0 /\ posted' = 0
    BY <1>1 DEF create_implementation
  <2>3. Open' => locked_' = "no" /\ pending_' = <<>>
    BY <1>1 DEF create_implementation, ClosedIsEmpty, MutexFree
  <2> QED
    BY <2>1, <2>2, <2>3, SMTT(30)
<1>2. CASE DropHandle
    BY <1>2 DEF DropHandle, Contents
<1>3. CASE destroy_impl
    BY <1>3 DEF destroy_impl, Contents
<1>4. CASE drop_invoker
    BY <1>4, SMTT(30) DEF drop_invoker, Contents
<1>5. CASE shutdown_close
    BY <1>5 DEF shutdown_close, Contents
<1>6. CASE shutdown_take
    BY <1>6 DEF shutdown_take, Contents
<1>7. CASE shutdown_abandon
    BY <1>7 DEF shutdown_abandon, Contents
<1>8. CASE service_destroyed
    BY <1>8 DEF service_destroyed, Contents
<1>9. ASSUME NEW t \in Threads, NEW c \in Conts, post(t, c) PROVE LockedMeansOneResponsible'
    BY <1>9, SMTT(30) DEF post, MayCall, Goto
<1>10. ASSUME NEW t \in Threads, NEW c \in Conts, dispatch(t, c) PROVE LockedMeansOneResponsible'
    BY <1>10, SMTT(30) DEF dispatch, post, MayCall, Goto
<1>11. ASSUME NEW t \in Threads, enqueue_check(t) PROVE LockedMeansOneResponsible'
    BY <1>11, SMTT(30) DEF enqueue_check, Goto, Return
<1>12. ASSUME NEW t \in Threads, enqueue_lock(t) PROVE LockedMeansOneResponsible'
    BY <1>12, SMTT(30) DEF enqueue_lock, Goto, Return, push
<1>13. ASSUME NEW t \in Threads, post_invoker(t) PROVE LockedMeansOneResponsible'
    BY <1>13, SMTT(30) DEF post_invoker, Goto, Return
<1>14. ASSUME NEW t \in Threads, withdraw(t) PROVE LockedMeansOneResponsible'
  <2> DEFINE same == \A u \in Threads \ {t} : (Responsible(u)' <=> Responsible(u)) /\ (Invoking(u)' <=> Invoking(u)) /\ (Owing(u)' <=> Owing(u))
  <2>1. Owing(t) /\ ~Invoking(t) /\ ~Invoking(t)' /\ posted' = posted /\ posted = 0 /\ service_' = service_
    BY <1>14 DEF withdraw
  <2>2. same
    BY <1>14, SMTT(30) DEF withdraw, Goto, Return
  <2>3. \A u \in Threads : Responsible(u) => u = t
    BY <2>1
  <2>4. CASE ~Open
    BY <2>1, <2>2, <2>3, <2>4
  <2>5. CASE Open /\ Tail(pending_) = <<>>
    <3>1. ~Responsible(t)' /\ locked_' = "no" /\ pending_' = <<>>
      BY <1>14, <2>5, <2>1, ZenonT(30) DEF withdraw, Goto, Return
    <3>2. \A u \in Threads : ~Responsible(u)'
      BY <3>1, <2>2, <2>3
    <3> QED BY <3>1, <3>2, <2>1, SMTT(30)
  <2>6. CASE Open /\ Tail(pending_) # <<>>
    <3>1. Responsible(t)' /\ locked_' = locked_
      BY <1>14, <2>6, SMTT(30) DEF withdraw, Goto
    <3> QED BY <3>1, <2>1, <2>2, <2>3, <2>6, Zenon
  <2> QED BY <2>4, <2>5, <2>6
<1>15. ASSUME NEW t \in Threads, repost_invoker(t) PROVE LockedMeansOneResponsible'
  <2>1. Owing(t) /\ ~Invoking(t) /\ ~Invoking(t)' /\ posted = 0 /\ service_' = service_ /\ locked_' = locked_ /\ pending_' = pending_
    BY <1>15 DEF repost_invoker
  <2>2. \A u \in Threads \ {t} : (Responsible(u)' <=> Responsible(u)) /\ (Invoking(u)' <=> Invoking(u)) /\ (Owing(u)' <=> Owing(u))
    BY <1>15 DEF repost_invoker, Goto, Return
  <2>3. \A u \in Threads : Responsible(u) => u = t
    BY <2>1
  <2>4. CASE posted' = posted + 1 /\ Return(t)
    <3>1. \A u \in Threads : ~Responsible(u)'
      BY <2>1, <2>2, <2>3, <2>4 DEF Return, Goto
    <3> QED BY <3>1, <2>1, <2>4, SMTT(30)
  <2>5. CASE posted' = posted /\ Goto(t, "giveup")
    <3>1. \A u \in Threads : Responsible(u)' <=> u = t
      BY <2>1, <2>2, <2>3, <2>5, SMTT(30) DEF Goto
    <3> QED BY <3>1, <2>1, <2>5
  <2> QED BY <1>15, <2>4, <2>5 DEF repost_invoker
<1>16. ASSUME NEW t \in Threads, abandon_pending(t) PROVE LockedMeansOneResponsible'
    BY <1>16, SMTT(30) DEF abandon_pending, Goto, Return, Contents
<1>17. ASSUME NEW t \in Threads, set_dispatch_thread(t) PROVE LockedMeansOneResponsible'
    BY <1>17, SMTT(30) DEF set_dispatch_thread, Step, InvokerAt
<1>18. ASSUME NEW t \in Threads, take_all(t) PROVE LockedMeansOneResponsible'
    BY <1>18, SMTT(30) DEF take_all, Step, InvokerAt
<1>19. ASSUME NEW t \in Threads, dispatch_batch(t) PROVE LockedMeansOneResponsible'
    BY <1>19 DEF dispatch_batch, InvokerAt
<1>20. ASSUME NEW t \in Threads, coroutine_returns(t) PROVE LockedMeansOneResponsible'
    BY <1>20 DEF coroutine_returns
<1>21. ASSUME NEW t \in Threads, try_unlock(t) PROVE LockedMeansOneResponsible'
  <2>1. Invoking(t) /\ ~Owing(t) /\ ~Owing(t)' /\ posted' = posted /\ posted = 0 /\ service_' = service_ /\ pending_' = pending_
    BY <1>21 DEF try_unlock, InvokerAt
  <2>2. \A u \in Threads \ {t} : (Responsible(u)' <=> Responsible(u)) /\ (Invoking(u)' <=> Invoking(u)) /\ (Owing(u)' <=> Owing(u))
    BY <1>21 DEF try_unlock, Step
  <2>3. \A u \in Threads : Responsible(u) => u = t
    BY <2>1
  <2>4. CASE pending_ = <<>> /\ locked_' = "no" /\ Step(t, "clear")
    <3>1. \A u \in Threads : ~Responsible(u)'
      BY <2>1, <2>2, <2>3, <2>4 DEF Step
    <3> QED BY <3>1, <2>1, <2>4, SMTT(30)
  <2>5. CASE locked_' = locked_ /\ Step(t, "set")
    <3>1. \A u \in Threads : Responsible(u)' <=> u = t
      BY <2>1, <2>2, <2>3, <2>5 DEF Step
    <3> QED BY <3>1, <2>1, <2>5
  <2> QED BY <1>21, <2>4, <2>5 DEF try_unlock
<1>22. ASSUME NEW t \in Threads, clear_dispatch_thread(t) PROVE LockedMeansOneResponsible'
    BY <1>22, SMTT(30) DEF clear_dispatch_thread, Step, InvokerAt
<1>23. ASSUME NEW t \in Threads, run_invoker(t) PROVE LockedMeansOneResponsible'
    BY <1>23, SMTT(30) DEF run_invoker, Step, InvokerAt
<1>24. CASE UNCHANGED vars
    BY <1>24 DEF vars
<1> QED
    BY <1>1, <1>2, <1>3, <1>4, <1>5, <1>6, <1>7, <1>8, <1>9, <1>10, <1>11, <1>12,
       <1>13, <1>14, <1>15, <1>16, <1>17, <1>18, <1>19, <1>20, <1>21, <1>22, <1>23, <1>24
    DEF Next, CallStep, InvokerStep

\* Every step keeps the continuation withdraw() would take at the front.
LEMMA FirstStep == IInv /\ [Next]_vars => WithdrawnIsFirst'
<1> SUFFICES ASSUME IInv, [Next]_vars PROVE WithdrawnIsFirst'
    OBVIOUS
<1> USE NoneAssumption DEF IInv, TypeOK, Pcs, Lifetimes, Idle, Open, LockedMeansOneResponsible, Responsible, Invoking, Owing, WithdrawnIsFirst, impl_vars, service_vars, invoker_vars, call_vars, fate_vars
<1>1. CASE create_implementation
    BY <1>1 DEF create_implementation, Contents
<1>2. CASE DropHandle
    BY <1>2 DEF DropHandle, Contents
<1>3. CASE destroy_impl
    BY <1>3 DEF destroy_impl, Contents
<1>4. CASE drop_invoker
    BY <1>4 DEF drop_invoker, Contents
<1>5. CASE shutdown_close
    BY <1>5 DEF shutdown_close, Contents
<1>6. CASE shutdown_take
    BY <1>6 DEF shutdown_take, Contents
<1>7. CASE shutdown_abandon
    BY <1>7 DEF shutdown_abandon, Contents
<1>8. CASE service_destroyed
    BY <1>8 DEF service_destroyed, Contents
<1>9. ASSUME NEW t \in Threads, NEW c \in Conts, post(t, c) PROVE WithdrawnIsFirst'
    BY <1>9 DEF post, MayCall, Goto
<1>10. ASSUME NEW t \in Threads, NEW c \in Conts, dispatch(t, c) PROVE WithdrawnIsFirst'
    BY <1>10, SMTT(30) DEF dispatch, post, MayCall, Goto
<1>11. ASSUME NEW t \in Threads, enqueue_check(t) PROVE WithdrawnIsFirst'
    BY <1>11, SMTT(30) DEF enqueue_check, Goto, Return
<1>12. ASSUME NEW t \in Threads, enqueue_lock(t) PROVE WithdrawnIsFirst'
  <2> SUFFICES ASSUME NEW u \in Threads, callpc'[u] \in {"post", "withdraw"}, service_' = "svc"
               PROVE pending_' # <<>> /\ Head(pending_') = callc'[u]
    OBVIOUS
  <2>1. callc[t] \in Conts /\ pending_' = Append(pending_, callc[t]) /\ service_ = "svc"
    BY <1>12 DEF enqueue_lock, push
  <2>2. CASE u = t
    <3>1. locked_ # "yes" /\ callc' = callc
      BY <1>12, <2>1, <2>2, SMTT(30) DEF enqueue_lock, Goto, Return
    <3>2. pending_ = <<>>
      BY <2>1, <3>1
    <3> QED BY <2>1, <2>2, <3>1, <3>2, SMTT(30)
  <2>3. CASE u # t
    <3>1. callpc[u] = callpc'[u] /\ callc'[u] = callc[u]
      BY <1>12, <2>3, SMTT(30) DEF enqueue_lock, Goto, Return
    <3>2. pending_ # <<>> /\ Head(pending_) = callc[u]
      BY <2>1, <3>1
    <3>3. pending_ \in Seq(Conts) /\ callc[t] \in Conts
      BY <2>1
    <3> HIDE DEF IInv
    <3>4. Append(pending_, callc[t]) # <<>>
           /\ Head(Append(pending_, callc[t])) = Head(pending_)
      BY <3>2, <3>3, HeadAppend
    <3> QED BY <2>1, <3>1, <3>2, <3>4, Zenon
  <2> QED BY <2>2, <2>3
<1>13. ASSUME NEW t \in Threads, post_invoker(t) PROVE WithdrawnIsFirst'
    BY <1>13, SMTT(30) DEF post_invoker, Goto, Return
<1>14. ASSUME NEW t \in Threads, withdraw(t) PROVE WithdrawnIsFirst'
  <2>1. \A u \in Threads : Owing(u) => u = t
    BY <1>14 DEF withdraw
  <2>2. callpc'[t] \in {"idle", "repost"} /\ \A u \in Threads \ {t} : callpc'[u] = callpc[u]
    BY <1>14, SMTT(30) DEF withdraw, Goto, Return
  <2>3. \A u \in Threads : callpc'[u] \notin {"post", "withdraw"}
    BY <2>1, <2>2
  <2> QED BY <2>3
<1>15. ASSUME NEW t \in Threads, repost_invoker(t) PROVE WithdrawnIsFirst'
    BY <1>15, SMTT(30) DEF repost_invoker, Goto, Return
<1>16. ASSUME NEW t \in Threads, abandon_pending(t) PROVE WithdrawnIsFirst'
    BY <1>16, SMTT(30) DEF abandon_pending, Goto, Return, Contents
<1>17. ASSUME NEW t \in Threads, set_dispatch_thread(t) PROVE WithdrawnIsFirst'
    BY <1>17 DEF set_dispatch_thread, Step, InvokerAt
<1>18. ASSUME NEW t \in Threads, take_all(t) PROVE WithdrawnIsFirst'
    BY <1>18 DEF take_all, Step, InvokerAt
<1>19. ASSUME NEW t \in Threads, dispatch_batch(t) PROVE WithdrawnIsFirst'
    BY <1>19 DEF dispatch_batch, InvokerAt
<1>20. ASSUME NEW t \in Threads, coroutine_returns(t) PROVE WithdrawnIsFirst'
    BY <1>20 DEF coroutine_returns
<1>21. ASSUME NEW t \in Threads, try_unlock(t) PROVE WithdrawnIsFirst'
    BY <1>21 DEF try_unlock, Step, InvokerAt
<1>22. ASSUME NEW t \in Threads, clear_dispatch_thread(t) PROVE WithdrawnIsFirst'
    BY <1>22 DEF clear_dispatch_thread, Step, InvokerAt
<1>23. ASSUME NEW t \in Threads, run_invoker(t) PROVE WithdrawnIsFirst'
    BY <1>23 DEF run_invoker, Step, InvokerAt
<1>24. CASE UNCHANGED vars
    BY <1>24 DEF vars
<1> QED
    BY <1>1, <1>2, <1>3, <1>4, <1>5, <1>6, <1>7, <1>8, <1>9, <1>10, <1>11, <1>12,
       <1>13, <1>14, <1>15, <1>16, <1>17, <1>18, <1>19, <1>20, <1>21, <1>22, <1>23, <1>24
    DEF Next, CallStep, InvokerStep

\* Every step keeps callers away from the mutex of a destroyed service.
LEMMA NoLockStep == IInv /\ [Next]_vars => NoLockAfterDestroy'
<1> SUFFICES ASSUME IInv, [Next]_vars PROVE NoLockAfterDestroy'
    OBVIOUS
<1> USE NoneAssumption DEF IInv, TypeOK, Pcs, Lifetimes, Idle, Open, NoLockAfterDestroy, impl_vars, service_vars, invoker_vars, call_vars, fate_vars
<1>1. CASE create_implementation
    BY <1>1 DEF create_implementation, Contents
<1>2. CASE DropHandle
    BY <1>2 DEF DropHandle, Contents
<1>3. CASE destroy_impl
    BY <1>3 DEF destroy_impl, Contents
<1>4. CASE drop_invoker
    BY <1>4 DEF drop_invoker, Contents
<1>5. CASE shutdown_close
    BY <1>5 DEF shutdown_close, Contents
<1>6. CASE shutdown_take
    BY <1>6 DEF shutdown_take, Contents
<1>7. CASE shutdown_abandon
    BY <1>7 DEF shutdown_abandon, Contents
<1>8. CASE service_destroyed
    BY <1>8 DEF service_destroyed, Contents
<1>9. ASSUME NEW t \in Threads, NEW c \in Conts, post(t, c) PROVE NoLockAfterDestroy'
    BY <1>9 DEF post, MayCall, Goto
<1>10. ASSUME NEW t \in Threads, NEW c \in Conts, dispatch(t, c) PROVE NoLockAfterDestroy'
    BY <1>10 DEF dispatch, post, MayCall, Goto
<1>11. ASSUME NEW t \in Threads, enqueue_check(t) PROVE NoLockAfterDestroy'
    BY <1>11 DEF enqueue_check, Goto, Return
<1>12. ASSUME NEW t \in Threads, enqueue_lock(t) PROVE NoLockAfterDestroy'
    BY <1>12 DEF enqueue_lock, Goto, Return, push
<1>13. ASSUME NEW t \in Threads, post_invoker(t) PROVE NoLockAfterDestroy'
    BY <1>13 DEF post_invoker, Goto, Return
<1>14. ASSUME NEW t \in Threads, withdraw(t) PROVE NoLockAfterDestroy'
    BY <1>14 DEF withdraw, Goto, Return
<1>15. ASSUME NEW t \in Threads, repost_invoker(t) PROVE NoLockAfterDestroy'
    BY <1>15 DEF repost_invoker, Goto, Return
<1>16. ASSUME NEW t \in Threads, abandon_pending(t) PROVE NoLockAfterDestroy'
    BY <1>16 DEF abandon_pending, Goto, Return, Contents
<1>17. ASSUME NEW t \in Threads, set_dispatch_thread(t) PROVE NoLockAfterDestroy'
    BY <1>17 DEF set_dispatch_thread, Step, InvokerAt
<1>18. ASSUME NEW t \in Threads, take_all(t) PROVE NoLockAfterDestroy'
    BY <1>18 DEF take_all, Step, InvokerAt
<1>19. ASSUME NEW t \in Threads, dispatch_batch(t) PROVE NoLockAfterDestroy'
    BY <1>19 DEF dispatch_batch, InvokerAt
<1>20. ASSUME NEW t \in Threads, coroutine_returns(t) PROVE NoLockAfterDestroy'
    BY <1>20 DEF coroutine_returns
<1>21. ASSUME NEW t \in Threads, try_unlock(t) PROVE NoLockAfterDestroy'
    BY <1>21 DEF try_unlock, Step, InvokerAt
<1>22. ASSUME NEW t \in Threads, clear_dispatch_thread(t) PROVE NoLockAfterDestroy'
    BY <1>22 DEF clear_dispatch_thread, Step, InvokerAt
<1>23. ASSUME NEW t \in Threads, run_invoker(t) PROVE NoLockAfterDestroy'
    BY <1>23 DEF run_invoker, Step, InvokerAt
<1>24. CASE UNCHANGED vars
    BY <1>24 DEF vars
<1> QED
    BY <1>1, <1>2, <1>3, <1>4, <1>5, <1>6, <1>7, <1>8, <1>9, <1>10, <1>11, <1>12,
       <1>13, <1>14, <1>15, <1>16, <1>17, <1>18, <1>19, <1>20, <1>21, <1>22, <1>23, <1>24
    DEF Next, CallStep, InvokerStep

\* Every step keeps the queue of a closed strand empty.
LEMMA EmptyStep == IInv /\ [Next]_vars => ClosedIsEmpty'
<1> SUFFICES ASSUME IInv, [Next]_vars PROVE ClosedIsEmpty'
    OBVIOUS
<1> USE NoneAssumption DEF IInv, TypeOK, Lifetimes, Open, MutexFree, ClosedIsEmpty, impl_vars, service_vars, invoker_vars, call_vars, fate_vars
<1>1. CASE create_implementation
    BY <1>1 DEF create_implementation, Contents
<1>2. CASE DropHandle
    BY <1>2 DEF DropHandle, Contents
<1>3. CASE destroy_impl
    BY <1>3 DEF destroy_impl, Contents
<1>4. CASE drop_invoker
    BY <1>4 DEF drop_invoker, Contents
<1>5. CASE shutdown_close
    BY <1>5 DEF shutdown_close, Contents
<1>6. CASE shutdown_take
    BY <1>6 DEF shutdown_take, Contents
<1>7. CASE shutdown_abandon
    BY <1>7 DEF shutdown_abandon, Contents
<1>8. CASE service_destroyed
    BY <1>8 DEF service_destroyed, Contents
<1>9. ASSUME NEW t \in Threads, NEW c \in Conts, post(t, c) PROVE ClosedIsEmpty'
    BY <1>9 DEF post, MayCall, Goto
<1>10. ASSUME NEW t \in Threads, NEW c \in Conts, dispatch(t, c) PROVE ClosedIsEmpty'
    BY <1>10 DEF dispatch, post, MayCall, Goto
<1>11. ASSUME NEW t \in Threads, enqueue_check(t) PROVE ClosedIsEmpty'
    BY <1>11 DEF enqueue_check, Goto, Return
<1>12. ASSUME NEW t \in Threads, enqueue_lock(t) PROVE ClosedIsEmpty'
    BY <1>12 DEF enqueue_lock, Goto, Return, push
<1>13. ASSUME NEW t \in Threads, post_invoker(t) PROVE ClosedIsEmpty'
    BY <1>13 DEF post_invoker, Goto, Return
<1>14. ASSUME NEW t \in Threads, withdraw(t) PROVE ClosedIsEmpty'
    BY <1>14 DEF withdraw, Goto, Return
<1>15. ASSUME NEW t \in Threads, repost_invoker(t) PROVE ClosedIsEmpty'
    BY <1>15 DEF repost_invoker, Goto, Return
<1>16. ASSUME NEW t \in Threads, abandon_pending(t) PROVE ClosedIsEmpty'
    BY <1>16 DEF abandon_pending, Goto, Return, Contents
<1>17. ASSUME NEW t \in Threads, set_dispatch_thread(t) PROVE ClosedIsEmpty'
    BY <1>17 DEF set_dispatch_thread, Step, InvokerAt
<1>18. ASSUME NEW t \in Threads, take_all(t) PROVE ClosedIsEmpty'
    BY <1>18 DEF take_all, Step, InvokerAt
<1>19. ASSUME NEW t \in Threads, dispatch_batch(t) PROVE ClosedIsEmpty'
    BY <1>19 DEF dispatch_batch, InvokerAt
<1>20. ASSUME NEW t \in Threads, coroutine_returns(t) PROVE ClosedIsEmpty'
    BY <1>20 DEF coroutine_returns
<1>21. ASSUME NEW t \in Threads, try_unlock(t) PROVE ClosedIsEmpty'
    BY <1>21 DEF try_unlock, Step, InvokerAt
<1>22. ASSUME NEW t \in Threads, clear_dispatch_thread(t) PROVE ClosedIsEmpty'
    BY <1>22 DEF clear_dispatch_thread, Step, InvokerAt
<1>23. ASSUME NEW t \in Threads, run_invoker(t) PROVE ClosedIsEmpty'
    BY <1>23 DEF run_invoker, Step, InvokerAt
<1>24. CASE UNCHANGED vars
    BY <1>24 DEF vars
<1> QED
    BY <1>1, <1>2, <1>3, <1>4, <1>5, <1>6, <1>7, <1>8, <1>9, <1>10, <1>11, <1>12,
       <1>13, <1>14, <1>15, <1>16, <1>17, <1>18, <1>19, <1>20, <1>21, <1>22, <1>23, <1>24
    DEF Next, CallStep, InvokerStep

-----------------------------------------------------------------------------
\* IInv is inductive, so it holds of every reachable state of the strand.
THEOREM Inductive == Spec => []IInv
<1>1. IInv /\ [Next]_vars => IInv'
    BY TypeStep, LifetimesStep, InsideLoopStep, LockStep, FirstStep, NoLockStep, EmptyStep DEF IInv
<1> QED
    BY InitIInv, <1>1, PTL DEF Spec

\* The variables of the strand keep their types under every interleaving.
THEOREM TypeCorrect == Spec => []TypeOK
<1>1. IInv => TypeOK
    BY DEF IInv
<1> QED
    BY Inductive, <1>1, PTL

\* For any number of threads and continuations, coroutines resumed through
\* the strand never run concurrently: whoever runs one is the one party that
\* the locked_ flag stands for.
THEOREM Serialised == Spec => []MutualExclusion
<1>1. IInv => MutualExclusion
    BY DEF IInv, InsideLoop, NoForeignInline, LockedMeansOneResponsible,
           Responsible, Invoking, MutualExclusion
<1> QED
    BY Inductive, <1>1, PTL

\* locked_ always stands for exactly one party that will serve the queue, so
\* the work of an open strand is never stranded without an invoker, and the
\* assertion inside withdraw() never fails.
THEOREM LockDiscipline == Spec => []QueueHasOneOwner
<1>1. IInv => QueueHasOneOwner
    BY DEF IInv, QueueHasOneOwner
<1> QED
    BY Inductive, <1>1, PTL

\* A post that races shutdown() never leaves work on a closed strand, and a call
\* on a strand whose service was destroyed never locks its mutex.
THEOREM ShutdownEmpties == Spec => []ShutdownIsFinal
<1>1. IInv => ShutdownIsFinal
    BY DEF IInv, ShutdownIsFinal
<1> QED
    BY Inductive, <1>1, PTL

-----------------------------------------------------------------------------
(* What the refinement rests on, besides the invariant.                    *)

Waiting == Contents(pending_) \cup Contents(doomed) \cup Batched

\* A call that has yet to queue its continuation has one that is nowhere else.
Placed ==
    /\ \A t \in Threads : callpc[t] \in {"check", "lock"} => callc[t] \notin Waiting \cup Finished
    /\ \A t, u \in Threads : t # u /\ InCall(t) /\ InCall(u) => callc[t] # callc[u]

\* Only dispatch_batch()'s thread has a batch, and shutdown() takes the queue once.
Batches == \A t \in Threads : batch[t] # <<>> => inv[t] = "batch"
TakenOnce == sd \in {"no", "closing"} => doomed = <<>>

RInv == IInv /\ Placed /\ Batches /\ TakenOnce

-----------------------------------------------------------------------------
\* Queues put one behind the other.
LEMMA BehindAnother ==
    ASSUME NEW S, NEW s \in Seq(S), NEW r \in Seq(S)
    PROVE  /\ s \o r \in Seq(S) /\ Contents(s \o r) = Contents(s) \cup Contents(r)
           /\ s \o <<>> = s /\ <<>> \o r = r
           /\ \A e \in S : s \o Append(r, e) = Append(s \o r, e)
<1>1. s \o r \in Seq(S) /\ s \o <<>> = s /\ <<>> \o r = r
  BY SMTT(30)
<1>2. \A e \in S : s \o Append(r, e) = Append(s \o r, e)
  BY SMTT(30)
<1>3. Contents(s \o r) = Contents(s) \cup Contents(r)
  <2>1. /\ Len(s \o r) = Len(s) + Len(r) /\ Len(s) \in Nat /\ Len(r) \in Nat
        /\ \A i \in 1 .. Len(s) : (s \o r)[i] = s[i]
        /\ \A i \in 1 .. Len(r) : (s \o r)[Len(s) + i] = r[i]
    BY SMTT(30)
  <2>2. DOMAIN s = 1 .. Len(s) /\ DOMAIN r = 1 .. Len(r) /\ DOMAIN (s \o r) = 1 .. Len(s) + Len(r)
    BY <1>1, <2>1, SMTT(30)
  <2>3. Contents(s \o r) \subseteq Contents(s) \cup Contents(r)
    <3> SUFFICES ASSUME NEW i \in 1 .. Len(s) + Len(r)
                 PROVE  (s \o r)[i] \in Contents(s) \cup Contents(r)
      BY <2>2 DEF Contents
    <3>1. CASE i <= Len(s)
      <4>1. i \in 1 .. Len(s)
        BY <2>1, <3>1, SMTT(30)
      <4> QED
        BY <2>1, <2>2, <4>1 DEF Contents
    <3>2. CASE i > Len(s)
      <4>1. i - Len(s) \in 1 .. Len(r) /\ i = Len(s) + (i - Len(s))
        BY <2>1, <3>2, SMTT(30)
      <4> QED
        BY <2>1, <2>2, <4>1 DEF Contents
    <3> QED
      BY <2>1, <3>1, <3>2, SMTT(30)
  <2>4. Contents(s) \subseteq Contents(s \o r)
    BY <2>1, <2>2, SMTT(30) DEF Contents
  <2>5. Contents(r) \subseteq Contents(s \o r)
    <3> SUFFICES ASSUME NEW i \in 1 .. Len(r) PROVE r[i] \in Contents(s \o r)
      BY <2>2 DEF Contents
    <3>1. Len(s) + i \in DOMAIN (s \o r) /\ (s \o r)[Len(s) + i] = r[i]
      BY <2>1, <2>2, SMTT(30)
    <3> QED
      BY <3>1 DEF Contents
  <2> QED
    BY <2>3, <2>4, <2>5
<1> QED
  BY <1>1, <1>2, <1>3

\* The first of two queues loses its front.
LEMMA FrontTaken ==
    ASSUME NEW S, NEW s \in Seq(S), NEW r \in Seq(S), s # <<>>
    PROVE  s \o r # <<>> /\ Head(s \o r) = Head(s) /\ Tail(s \o r) = Tail(s) \o r
  BY SMTT(30)

\* The second of two queues is given up.
LEMMA TailGivenUp ==
    ASSUME NEW S, NEW s \in Seq(S), NEW r \in Seq(S)
    PROVE  /\ Len(s) \in 0 .. Len(s \o r) /\ SubSeq(s \o r, 1, Len(s)) = s
           /\ Contents(SubSeq(s \o r, Len(s) + 1, Len(s \o r))) = Contents(r)
<1>1. Len(s) \in 0 .. Len(s \o r) /\ SubSeq(s \o r, 1, Len(s)) = s
  BY SMTT(30)
<1>2. SubSeq(s \o r, Len(s) + 1, Len(s \o r)) = r
  <2> DEFINE v == SubSeq(s \o r, Len(s) + 1, Len(s \o r))
  <2>1. /\ v \in Seq(S) /\ Len(v) = Len(r)
        /\ \A i \in 1 .. Len(r) : v[i] = (s \o r)[Len(s) + i]
    BY SMTT(30)
  <2>2. \A i \in 1 .. Len(r) : (s \o r)[Len(s) + i] = r[i]
    BY SMTT(30)
  <2> HIDE DEF v
  <2>3. v = r
    BY <2>1, <2>2, SMTT(30)
  <2> QED
    BY <2>3 DEF v
<1> QED
  BY <1>1, <1>2

\* What push() and pop() do to what is queued.
LEMMA QueueContents ==
    ASSUME NEW S, NEW s \in Seq(S)
    PROVE  /\ \A e \in S : Contents(Append(s, e)) = Contents(s) \cup {e}
           /\ s # <<>> => /\ Head(s) \in Contents(s) /\ Tail(s) \in Seq(S)
                          /\ Contents(s) = Contents(Tail(s)) \cup {Head(s)}
<1>1. ASSUME NEW e \in S PROVE Contents(Append(s, e)) = Contents(s) \cup {e}
  <2>1. /\ DOMAIN Append(s, e) = 1 .. Len(s) + 1 /\ DOMAIN s = 1 .. Len(s) /\ Len(s) \in Nat
        /\ Append(s, e)[Len(s) + 1] = e /\ \A i \in 1 .. Len(s) : Append(s, e)[i] = s[i]
    BY SMTT(30)
  <2> QED
    BY <2>1, SMTT(30) DEF Contents
<1>2. ASSUME s # <<>>
      PROVE  /\ Head(s) \in Contents(s) /\ Tail(s) \in Seq(S)
             /\ Contents(s) = Contents(Tail(s)) \cup {Head(s)}
  <2>1. /\ DOMAIN s = 1 .. Len(s) /\ Len(s) \in Nat /\ Len(s) >= 1 /\ Head(s) = s[1]
        /\ Tail(s) \in Seq(S) /\ DOMAIN Tail(s) = 1 .. Len(s) - 1
        /\ \A i \in 1 .. Len(s) - 1 : Tail(s)[i] = s[i + 1]
    BY <1>2, SMTT(30)
  <2>2. Contents(Tail(s)) \subseteq Contents(s)
    BY <2>1, SMTT(30) DEF Contents
  <2>3. Contents(s) \subseteq Contents(Tail(s)) \cup {Head(s)}
    <3> SUFFICES ASSUME NEW i \in 1 .. Len(s) PROVE i # 1 => s[i] \in Contents(Tail(s))
      BY <2>1 DEF Contents
    <3> SUFFICES ASSUME i # 1 PROVE s[i] \in Contents(Tail(s))
      OBVIOUS
    <3>1. i - 1 \in 1 .. Len(s) - 1 /\ (i - 1) + 1 = i
      BY <2>1, SMTT(30)
    <3>2. Tail(s)[i - 1] = s[i] /\ i - 1 \in DOMAIN Tail(s)
      BY <2>1, <3>1
    <3> QED
      BY <3>2 DEF Contents
  <2>4. Head(s) \in Contents(s)
    BY <2>1, SMTT(30) DEF Contents
  <2> QED
    BY <2>1, <2>2, <2>3, <2>4
<1> QED
  BY <1>1, <1>2

-----------------------------------------------------------------------------
(* The state of the serial executor.                                       *)

LEMMA OneBatch ==
    ASSUME NEW b, NEW t \in Threads, \A u \in Threads \ {t} : b[u] = <<>>
    PROVE  CurrentBatch(b) = b[t]
<1>1. CASE b[t] = <<>>
  <2>1. ~ \E u \in Threads : b[u] # <<>>
    BY <1>1
  <2> QED
    BY <1>1, <2>1 DEF CurrentBatch
<1>2. CASE b[t] # <<>>
  <2> DEFINE u == CHOOSE x \in Threads : b[x] # <<>>
  <2>1. u \in Threads /\ b[u] # <<>>
    BY <1>2
  <2>2. u = t
    BY <2>1
  <2> QED
    BY <1>2, <2>2 DEF CurrentBatch
<1> QED
  BY <1>1, <1>2

LEMMA OneRunning ==
    ASSUME NEW e, NEW t \in Threads, \A u \in Threads \ {t} : e[u] = None
    PROVE  {e[u] : u \in Threads} \ {None} = {e[t]} \ {None}
  OBVIOUS

\* A party that is responsible for the queue is the only one with a batch or inside a
\* coroutine, and one that owes an invoker has neither.
LEMMA NobodyElse ==
    ASSUME RInv, NEW t \in Threads, Responsible(t)
    PROVE  /\ \A u \in Threads \ {t} : ~Responsible(u) /\ batch[u] = <<>> /\ exec[u] = None
           /\ Owing(t) => batch[t] = <<>> /\ exec[t] = None
<1>1. \A u \in Threads : batch[u] # <<>> \/ exec[u] # None => Invoking(u)
  BY DEF RInv, IInv, Batches, InsideLoop, NoForeignInline, Invoking
<1>2. /\ \A u \in Threads : Responsible(u) => u = t
      /\ ~(Invoking(t) /\ Owing(t))
  BY DEF RInv, IInv, LockedMeansOneResponsible
<1> QED
  BY <1>1, <1>2 DEF Responsible

LEMMA MappedQueue ==
    ASSUME RInv
    PROVE  /\ CurrentBatch(batch) \in Seq(Conts) /\ pending_ \in Seq(Conts) /\ Queue \in Seq(Conts)
           /\ Contents(Queue) \subseteq Waiting
<1>1. batch \in [Threads -> Seq(Conts)] /\ pending_ \in Seq(Conts)
  BY DEF RInv, IInv, TypeOK
<1>2. CurrentBatch(batch) \in Seq(Conts) /\ Contents(CurrentBatch(batch)) \subseteq Batched
  <2>1. CASE \A t \in Threads : batch[t] = <<>>
    <3>1. CurrentBatch(batch) = <<>>
      BY <2>1 DEF CurrentBatch
    <3> QED
      BY <3>1, SMTT(30) DEF Contents
  <2>2. ASSUME NEW t \in Threads, batch[t] # <<>>
        PROVE  CurrentBatch(batch) \in Seq(Conts) /\ Contents(CurrentBatch(batch)) \subseteq Batched
    <3>1. inv[t] = "batch"
      BY <2>2 DEF RInv, Batches
    <3>2. \A u \in Threads \ {t} : batch[u] = <<>>
      BY <3>1, NobodyElse DEF Responsible, Invoking
    <3>3. CurrentBatch(batch) = batch[t]
      BY <3>2, OneBatch
    <3> QED
      BY <1>1, <3>3 DEF Batched
  <2> QED
    BY <2>1, <2>2
<1>3. Queue \in Seq(Conts) /\ Contents(Queue) = Contents(CurrentBatch(batch)) \cup Contents(pending_)
  BY <1>1, <1>2, BehindAnother, SMTT(30) DEF Queue
<1> QED
  BY <1>1, <1>2, <1>3 DEF Waiting

\* A continuation that is nowhere is new to the serial executor.
LEMMA NewIsUnseen ==
    ASSUME RInv, NEW c, c \notin Waiting \cup Finished,
           \A t \in Threads : callpc[t] \in {"repost", "giveup"} => callc[t] # c
    PROVE  Serial!Unseen(c)
<1>1. c \notin Serial!Elems(Queue)
  BY MappedQueue DEF Serial!Elems, Contents
<1>2. c \notin ran \cup Abandoned \cup Thrown
  BY DEF Waiting, Finished, Abandoned, Thrown, Withdrawn
<1> QED
  BY <1>1, <1>2 DEF Serial!Unseen

LEMMA CalledIsUnseen ==
    ASSUME RInv, NEW t \in Threads, callpc[t] \in {"check", "lock"}
    PROVE  Serial!Unseen(callc[t])
<1>1. callc[t] \notin Waiting \cup Finished
  BY DEF RInv, Placed
<1>2. \A u \in Threads : callpc[u] \in {"repost", "giveup"} => callc[u] # callc[t]
  BY DEF RInv, Placed, InCall
<1> QED
  BY <1>1, <1>2, NewIsUnseen

LEMMA FreshIsUnseen ==
    ASSUME RInv, NEW c \in Conts, Fresh(c)
    PROVE  Serial!Unseen(c) /\ \A t \in Threads : InCall(t) => callc[t] # c
<1>1. c \notin Waiting \cup Finished /\ \A t \in Threads : InCall(t) => callc[t] # c
  BY DEF Fresh, Live, Called, Waiting
<1> QED
  BY <1>1, NewIsUnseen DEF InCall

-----------------------------------------------------------------------------
(* Every step of the strand is one of the serial executor or none.         *)

StepOK ==
    Placed' /\ Batches' /\ TakenOnce' /\ [Serial!AbsNext]_(Serial!abs_vars)

\* Where the calls are stays, but for calls that end, and nothing gets to where a
\* call still has it.
LEMMA StaysPlaced ==
    ASSUME Placed, NEW X, Waiting' \cup Finished' \subseteq Waiting \cup Finished \cup X,
           \A t \in Threads : callpc'[t] \in {"check", "lock"} =>
               callpc[t] \in {"check", "lock"} /\ callc'[t] = callc[t] /\ callc[t] \notin X,
           \A t \in Threads : InCall(t)' => InCall(t) /\ callc'[t] = callc[t]
    PROVE  Placed'
  BY DEF Placed

\* Nothing moves.
LEMMA NothingMoves ==
    ASSUME RInv, UNCHANGED <<pending_, doomed, batch, exec, call_vars, fate_vars>>,
           \A t \in Threads : batch[t] # <<>> => inv'[t] = "batch",
           sd' \in {"no", "closing"} => sd \in {"no", "closing"}
    PROVE  StepOK
<1>1. Placed'
  BY SMTT(30) DEF RInv, Placed, Waiting, Batched, Contents, Finished, InCall, call_vars, fate_vars
<1>2. Batches' /\ TakenOnce'
  BY DEF RInv, Batches, TakenOnce
<1>3. UNCHANGED Serial!abs_vars
  BY DEF Serial!abs_vars, Queue, CurrentBatch, Running, Abandoned, Thrown, Withdrawn, Contents,
         call_vars, fate_vars
<1> QED
  BY <1>1, <1>2, <1>3 DEF StepOK

\* A call goes on without the queue.
LEMMA CallGoesOn ==
    ASSUME RInv, UNCHANGED <<pending_, doomed, batch, inv, sd, exec>>, ran' = ran,
           abandoned' = abandoned, thrown \subseteq thrown', Thrown' = Thrown, Placed'
    PROVE  StepOK
<1>1. Batches' /\ TakenOnce'
  BY DEF RInv, Batches, TakenOnce
<1>2. UNCHANGED Serial!abs_vars
  BY DEF Serial!abs_vars, Queue, CurrentBatch, Running, Abandoned, Contents
<1> QED
  BY <1>1, <1>2 DEF StepOK

\* What is pending is given up.
LEMMA GivesUp ==
    ASSUME RInv, pending_' = <<>>, UNCHANGED <<batch, exec, ran>>,
           Abandoned' = Abandoned \cup Contents(pending_), Thrown' = Thrown
    PROVE  Serial!AbsNext
<1> DEFINE s == CurrentBatch(batch)
<1>1. s \in Seq(Conts) /\ pending_ \in Seq(Conts) /\ Queue = s \o pending_ /\ Queue' = s \o <<>>
  BY MappedQueue DEF Queue, CurrentBatch
<1> HIDE DEF s
<1>2. /\ Len(s) \in 0 .. Len(Queue) /\ SubSeq(Queue, 1, Len(s)) = Queue'
      /\ Contents(SubSeq(Queue, Len(s) + 1, Len(Queue))) = Contents(pending_)
  <2>1. Queue' = s
    BY <1>1, SMTT(30)
  <2>2. /\ Len(s) \in 0 .. Len(s \o pending_) /\ SubSeq(s \o pending_, 1, Len(s)) = s
        /\ Contents(SubSeq(s \o pending_, Len(s) + 1, Len(s \o pending_))) = Contents(pending_)
    BY <1>1, TailGivenUp, SMTT(30)
  <2> QED
    BY <1>1, <2>1, <2>2
<1>3. Serial!Elems(SubSeq(Queue, Len(s) + 1, Len(Queue))) = Contents(pending_)
  BY <1>2 DEF Contents, Serial!Elems
<1>4. Running' = Running
  BY DEF Running
<1>5. Serial!GiveUp(Len(s))
  BY <1>2, <1>3, <1>4 DEF Serial!GiveUp
<1> QED
  BY <1>2, <1>5 DEF Serial!AbsNext

LEMMA QuietStep ==
    ASSUME RInv,
           \/ create_implementation \/ DropHandle \/ drop_invoker \/ shutdown_close
           \/ service_destroyed \/ UNCHANGED vars
           \/ \E t \in Threads : \/ set_dispatch_thread(t) \/ try_unlock(t) \/ run_invoker(t)
                                 \/ clear_dispatch_thread(t)
    PROVE  StepOK
<1>1. UNCHANGED <<pending_, doomed, batch, exec, call_vars, fate_vars>>
  BY DEF create_implementation, DropHandle, drop_invoker, shutdown_close, service_destroyed, vars,
     set_dispatch_thread, try_unlock, run_invoker, clear_dispatch_thread, impl_vars, service_vars,
     invoker_vars
<1>2. sd' \in {"no", "closing"} => sd \in {"no", "closing"}
  BY DEF create_implementation, DropHandle, drop_invoker, shutdown_close, service_destroyed, vars,
     set_dispatch_thread, try_unlock, run_invoker, clear_dispatch_thread, service_vars
<1>3. \/ inv' = inv
      \/ \E t \in Threads, l \in {"none", "set", "take", "batch", "clear"} :
             /\ inv' = [inv EXCEPT ![t] = l]
             /\ inv[t] # "batch" \/ batch[t] = <<>>
  BY DEF create_implementation, DropHandle, drop_invoker, shutdown_close, service_destroyed, vars,
     set_dispatch_thread, try_unlock, run_invoker, clear_dispatch_thread, invoker_vars, InvokerAt, Step
<1>4. \A t \in Threads : batch[t] # <<>> => inv'[t] = "batch"
  BY <1>3 DEF RInv, IInv, TypeOK, Batches
<1> QED
  BY <1>1, <1>2, <1>4, NothingMoves

\* ~strand_impl gives up what is queued.
LEMMA DestroyImplStep ==
    ASSUME RInv, destroy_impl
    PROVE  StepOK
<1>1. /\ pending_' = <<>> /\ abandoned' = abandoned \cup Contents(pending_)
      /\ UNCHANGED <<doomed, batch, exec, inv, sd, callpc, callc, ran, thrown>>
  BY DEF destroy_impl, service_vars, invoker_vars, call_vars
<1>2. Placed'
  <2>1. Waiting' \cup Finished' \subseteq Waiting \cup Finished
    BY <1>1, SMTT(30) DEF Waiting, Batched, Contents, Finished
  <2> QED
    BY <1>1, <2>1 DEF RInv, Placed, InCall
<1>3. Batches' /\ TakenOnce'
  BY <1>1 DEF RInv, Batches, TakenOnce
<1>4. Abandoned' = Abandoned \cup Contents(pending_) /\ Thrown' = Thrown
  BY <1>1 DEF Abandoned, Thrown, Withdrawn, Contents
<1> QED
  BY <1>1, <1>2, <1>3, <1>4, GivesUp DEF StepOK

\* shutdown() takes what is queued, and abandons it.
LEMMA ShutdownTakeStep ==
    ASSUME RInv, shutdown_take
    PROVE  StepOK
<1>1. /\ pending_' = <<>> /\ doomed' = pending_ /\ doomed = <<>> /\ sd' = "abandon"
      /\ UNCHANGED <<batch, exec, inv, callpc, callc, ran, abandoned, thrown>>
  BY DEF shutdown_take, invoker_vars, call_vars, fate_vars, RInv, TakenOnce
<1>2. Placed'
  <2>1. Waiting' \cup Finished' \subseteq Waiting \cup Finished
    BY <1>1, SMTT(30) DEF Waiting, Batched, Contents, Finished
  <2> QED
    BY <1>1, <2>1 DEF RInv, Placed, InCall
<1>3. Batches' /\ TakenOnce'
  BY <1>1 DEF RInv, Batches, TakenOnce
<1>4. Abandoned' = Abandoned \cup Contents(pending_) /\ Thrown' = Thrown
  BY <1>1, SMTT(30) DEF Abandoned, Thrown, Withdrawn, Contents
<1> QED
  BY <1>1, <1>2, <1>3, <1>4, GivesUp DEF StepOK

LEMMA ShutdownAbandonStep ==
    ASSUME RInv, shutdown_abandon
    PROVE  StepOK
<1>1. /\ abandoned' = abandoned \cup Contents(doomed) /\ doomed' = <<>> /\ sd' = "done"
      /\ UNCHANGED <<pending_, batch, exec, inv, callpc, callc, ran, thrown>>
  BY DEF shutdown_abandon, impl_vars, invoker_vars, call_vars
<1>2. Placed'
  <2>1. Waiting' \cup Finished' \subseteq Waiting \cup Finished
    BY <1>1, SMTT(30) DEF Waiting, Batched, Contents, Finished
  <2> QED
    BY <1>1, <2>1 DEF RInv, Placed, InCall
<1>3. Batches' /\ TakenOnce'
  BY <1>1 DEF RInv, Batches, TakenOnce
<1>4. Abandoned' = Abandoned
  BY <1>1, SMTT(30) DEF Abandoned, Contents
<1>5. UNCHANGED Serial!abs_vars
  BY <1>1, <1>4 DEF Serial!abs_vars, Queue, CurrentBatch, Running, Thrown, Withdrawn
<1> QED
  BY <1>2, <1>3, <1>5 DEF StepOK

\* A caller begins a post.
LEMMA PostStep ==
    ASSUME RInv, NEW t \in Threads, NEW c \in Conts, post(t, c)
    PROVE  StepOK
<1>1. /\ callpc[t] = "idle" /\ callpc' = [callpc EXCEPT ![t] = "check"]
      /\ callc' = [callc EXCEPT ![t] = c]
      /\ UNCHANGED <<pending_, doomed, batch, exec, inv, sd, ran, abandoned, thrown>>
  BY DEF post, MayCall, Goto, impl_vars, service_vars, invoker_vars, fate_vars
<1>2. /\ callpc \in [Threads -> Pcs] /\ callc \in [Threads -> Conts \cup {None}]
      /\ c \notin Waiting \cup Finished /\ \A u \in Threads : InCall(u) => callc[u] # c
  BY FreshIsUnseen DEF post, Fresh, Live, Waiting, RInv, IInv, TypeOK
<1>3. /\ callpc'[t] = "check" /\ callc'[t] = c
      /\ \A u \in Threads \ {t} : callpc'[u] = callpc[u] /\ callc'[u] = callc[u]
  BY <1>1, <1>2
<1>4. Waiting' \cup Finished' = Waiting \cup Finished
  BY <1>1, SMTT(30) DEF Waiting, Batched, Contents, Finished
<1>5. Placed'
  BY <1>2, <1>3, <1>4, SMTT(30) DEF Placed, InCall, RInv
<1>6. Thrown' = Thrown
  BY <1>1, <1>3, SMTT(30) DEF Thrown, Withdrawn
<1> QED
  BY <1>1, <1>5, <1>6, CallGoesOn

\* dispatch() in place: the coroutine that runs transfers to the new one.
LEMMA DispatchStep ==
    ASSUME RInv, NEW t \in Threads, NEW c \in Conts, dispatch(t, c)
    PROVE  StepOK
<1>1. CASE dispatch_thread_ # t /\ post(t, c)
  BY <1>1, PostStep
<1>2. CASE dispatch_thread_ = t
  <2>1. /\ MayCall(t) /\ Fresh(c) /\ exec' = [exec EXCEPT ![t] = c] /\ ran' = ran \cup {c}
        /\ UNCHANGED <<pending_, doomed, batch, inv, sd, callpc, callc, abandoned, thrown>>
    BY <1>2 DEF dispatch, impl_vars, service_vars, call_vars
  <2>2. exec \in [Threads -> Conts \cup {None}] /\ exec[t] # None /\ inv[t] = "batch" /\ c # None
    BY <1>2, <2>1, NoneAssumption DEF RInv, IInv, TypeOK, InsideLoop, NoForeignInline, MayCall
  <2>3. \A u \in Threads \ {t} : exec[u] = None
    BY <2>2, NobodyElse DEF Responsible, Invoking
  <2>4. Running # {} /\ Running' = {c}
    <3>1. exec'[t] = c /\ \A u \in Threads \ {t} : exec'[u] = None
      BY <2>1, <2>2, <2>3
    <3>2. {exec'[u] : u \in Threads} \ {None} = {exec'[t]} \ {None}
      BY <3>1, OneRunning
    <3> QED
      BY <2>2, <3>1, <3>2 DEF Running
  <2>5. Serial!Unseen(c) /\ \A u \in Threads : InCall(u) => callc[u] # c
    BY <2>1, FreshIsUnseen
  <2>6. Placed'
    <3>1. Waiting' \cup Finished' \subseteq Waiting \cup Finished \cup {c}
      BY <2>1, SMTT(30) DEF Waiting, Batched, Contents, Finished
    <3>2. /\ \A u \in Threads : callpc'[u] \in {"check", "lock"} =>
                 callpc[u] \in {"check", "lock"} /\ callc'[u] = callc[u] /\ callc[u] \notin {c}
          /\ \A u \in Threads : InCall(u)' => InCall(u) /\ callc'[u] = callc[u]
      BY <2>1, <2>5 DEF InCall
    <3> QED
      BY <3>1, <3>2, StaysPlaced DEF RInv
  <2>7. Batches' /\ TakenOnce'
    BY <2>1 DEF RInv, Batches, TakenOnce
  <2>8. UNCHANGED <<Queue, Abandoned, Thrown>>
    BY <2>1 DEF Queue, CurrentBatch, Abandoned, Thrown, Withdrawn, Contents
  <2>9. Serial!Transfer(c)
    BY <2>1, <2>4, <2>5, <2>8 DEF Serial!Transfer
  <2> QED
    BY <2>6, <2>7, <2>9 DEF StepOK, Serial!AbsNext
<1> QED
  BY <1>1, <1>2 DEF dispatch

\* A call hands its continuation on, to the queue or to be abandoned.
LEMMA HandedOn ==
    ASSUME RInv, NEW t \in Threads, callpc[t] \in {"check", "lock"},
           callpc'[t] \in {"idle", "post"}, thrown' = thrown,
           \A u \in Threads \ {t} : callpc'[u] = callpc[u] /\ callc'[u] = callc[u],
           Waiting' \cup Finished' \subseteq Waiting \cup Finished \cup {callc[t]}
    PROVE  Placed' /\ Thrown' = Thrown /\ callc[t] \in Conts
<1>1. \A u \in Threads \ {t} : callpc[u] \in {"check", "lock"} => callc[u] # callc[t]
  BY DEF RInv, Placed, InCall
<1>2. Placed'
  <2>1. /\ \A u \in Threads : callpc'[u] \in {"check", "lock"} =>
               callpc[u] \in {"check", "lock"} /\ callc'[u] = callc[u] /\ callc[u] \notin {callc[t]}
        /\ \A u \in Threads : InCall(u)' => InCall(u) /\ callc'[u] = callc[u]
    BY <1>1 DEF InCall
  <2> QED
    BY <2>1, StaysPlaced DEF RInv
<1>3. Thrown' = Thrown
  BY DEF Thrown, Withdrawn
<1>4. callc[t] \in Conts
  BY DEF RInv, IInv, TypeOK
<1> QED
  BY <1>2, <1>3, <1>4

\* A call that finds the strand closed abandons its continuation.
LEMMA Refused ==
    ASSUME RInv, NEW t \in Threads, callpc[t] \in {"check", "lock"}, Return(t),
           abandoned' = abandoned \cup {callc[t]},
           UNCHANGED <<pending_, doomed, batch, exec, inv, sd, ran, thrown>>
    PROVE  StepOK
<1>1. /\ callpc'[t] = "idle"
      /\ \A u \in Threads \ {t} : callpc'[u] = callpc[u] /\ callc'[u] = callc[u]
  BY DEF Return, Goto, RInv, IInv, TypeOK
<1>2. Waiting' \cup Finished' \subseteq Waiting \cup Finished \cup {callc[t]}
  BY SMTT(30) DEF Waiting, Batched, Contents, Finished
<1>3. Placed' /\ Thrown' = Thrown /\ callc[t] \in Conts
  BY <1>1, <1>2, HandedOn
<1>4. Batches' /\ TakenOnce'
  BY DEF RInv, Batches, TakenOnce
<1>5. UNCHANGED <<Queue, Running>> /\ Abandoned' = Abandoned \cup {callc[t]}
  BY DEF Queue, CurrentBatch, Running, Abandoned, Contents
<1>6. Serial!Refuse(callc[t])
  BY <1>3, <1>5, CalledIsUnseen DEF Serial!Refuse
<1> QED
  BY <1>3, <1>4, <1>6 DEF StepOK, Serial!AbsNext

\* enqueue()'s first look at service_.
LEMMA CheckStep ==
    ASSUME RInv, NEW t \in Threads, enqueue_check(t)
    PROVE  StepOK
<1>1. /\ callpc[t] = "check"
      /\ UNCHANGED <<pending_, doomed, batch, exec, inv, sd, ran, thrown>>
  BY DEF enqueue_check, impl_vars, service_vars, invoker_vars
<1>2. CASE Open /\ Goto(t, "lock") /\ UNCHANGED <<callc, abandoned>>
  <2>1. /\ callpc'[t] = "lock" /\ \A u \in Threads \ {t} : callpc'[u] = callpc[u]
        /\ callc' = callc
    BY <1>2 DEF Goto, RInv, IInv, TypeOK
  <2>2. Waiting' \cup Finished' = Waiting \cup Finished
    BY <1>1, <1>2, SMTT(30) DEF Waiting, Batched, Contents, Finished
  <2>3. Placed'
    BY <1>1, <2>1, <2>2 DEF RInv, Placed, InCall
  <2>4. Thrown' = Thrown
    BY <1>1, <2>1 DEF Thrown, Withdrawn
  <2> QED
    BY <1>1, <1>2, <2>3, <2>4, CallGoesOn
<1>3. CASE Return(t) /\ abandoned' = abandoned \cup {callc[t]}
  BY <1>1, <1>3, Refused
<1> QED
  BY <1>2, <1>3 DEF enqueue_check

\* enqueue() queues the continuation, or finds the strand closed under the mutex.
LEMMA LockStepRefines ==
    ASSUME RInv, NEW t \in Threads, enqueue_lock(t)
    PROVE  StepOK
<1>1. callpc[t] = "lock" /\ UNCHANGED <<doomed, batch, exec, inv, sd, ran, thrown>>
  BY DEF enqueue_lock, service_vars, invoker_vars
<1>2. CASE Return(t) /\ abandoned' = abandoned \cup {callc[t]} /\ UNCHANGED pending_
  BY <1>1, <1>2, Refused
<1>3. CASE /\ pending_' = Append(pending_, callc[t]) /\ UNCHANGED abandoned
           /\ Return(t) \/ (Goto(t, "post") /\ UNCHANGED callc)
  <2>1. /\ callpc'[t] \in {"idle", "post"}
        /\ \A u \in Threads \ {t} : callpc'[u] = callpc[u] /\ callc'[u] = callc[u]
    BY <1>3 DEF Return, Goto, RInv, IInv, TypeOK
  <2>2. callc[t] \in Conts /\ pending_ \in Seq(Conts)
    BY <1>1 DEF RInv, IInv, TypeOK
  <2>3. Contents(pending_') = Contents(pending_) \cup {callc[t]}
    BY <1>3, <2>2, QueueContents, SMTT(30)
  <2>4. Waiting' \cup Finished' \subseteq Waiting \cup Finished \cup {callc[t]}
    BY <1>1, <1>3, <2>3, SMTT(30) DEF Waiting, Batched, Contents, Finished
  <2>5. Placed' /\ Thrown' = Thrown
    BY <1>1, <2>1, <2>4, HandedOn
  <2>6. Batches' /\ TakenOnce'
    BY <1>1 DEF RInv, Batches, TakenOnce
  <2>7. UNCHANGED <<Running, Abandoned>>
    BY <1>1, <1>3 DEF Running, Abandoned, Contents
  <2>8. Queue' = Append(Queue, callc[t])
    <3>1. Queue' = CurrentBatch(batch) \o Append(pending_, callc[t])
      BY <1>1, <1>3 DEF Queue, CurrentBatch
    <3>2. \A e \in Conts :
              CurrentBatch(batch) \o Append(pending_, e) = Append(CurrentBatch(batch) \o pending_, e)
      BY MappedQueue, BehindAnother, SMTT(30)
    <3> QED
      BY <2>2, <3>1, <3>2 DEF Queue
  <2>9. Serial!Accept(callc[t])
    BY <1>1, <2>5, <2>7, <2>8, CalledIsUnseen DEF Serial!Accept
  <2> QED
    BY <2>2, <2>5, <2>6, <2>9 DEF StepOK, Serial!AbsNext
<1> QED
  BY <1>2, <1>3 DEF enqueue_lock, push

\* The caller posts its invoker, or fails to.
LEMMA PostInvokerStep ==
    ASSUME RInv, NEW t \in Threads, post_invoker(t)
    PROVE  StepOK
<1>1. /\ callpc[t] = "post"
      /\ Return(t) \/ (Goto(t, "withdraw") /\ UNCHANGED callc)
      /\ UNCHANGED <<pending_, doomed, batch, exec, inv, sd, ran, abandoned, thrown>>
  BY DEF post_invoker, impl_vars, service_vars, fate_vars
<1>2. /\ callpc'[t] \in {"idle", "withdraw"}
      /\ \A u \in Threads \ {t} : callpc'[u] = callpc[u] /\ callc'[u] = callc[u]
  BY <1>1 DEF Return, Goto, RInv, IInv, TypeOK
<1>3. Placed'
  <2>1. Waiting' \cup Finished' = Waiting \cup Finished
    BY <1>1, SMTT(30) DEF Waiting, Batched, Contents, Finished
  <2> QED
    BY <1>2, <2>1 DEF RInv, Placed, InCall
<1>4. Thrown' = Thrown
  BY <1>1, <1>2 DEF Thrown, Withdrawn
<1> QED
  BY <1>1, <1>3, <1>4, CallGoesOn

\* A call that ends or goes on with a continuation it has taken back.
LEMMA TakenBack ==
    ASSUME RInv, NEW t \in Threads, Owing(t), callpc'[t] \in {"idle", "giveup"},
           callpc'[t] = "idle" \/ (InCall(t) /\ callc'[t] = callc[t]),
           \A u \in Threads \ {t} : callpc'[u] = callpc[u] /\ callc'[u] = callc[u],
           Waiting' \cup Finished' \subseteq Waiting \cup Finished \cup {callc[t]},
           InCall(t) \/ callc[t] \in Waiting \cup Finished
    PROVE  Placed'
<1>1. \A u \in Threads \ {t} : callpc[u] \in {"check", "lock"} => callc[u] # callc[t]
  <2>1. CASE InCall(t)
    BY <2>1 DEF RInv, Placed, InCall
  <2>2. CASE callc[t] \in Waiting \cup Finished
    BY <2>2 DEF RInv, Placed
  <2> QED
    BY <2>1, <2>2
<1>2. /\ \A u \in Threads : callpc'[u] \in {"check", "lock"} =>
             callpc[u] \in {"check", "lock"} /\ callc'[u] = callc[u] /\ callc[u] \notin {callc[t]}
      /\ \A u \in Threads : InCall(u)' => InCall(u) /\ callc'[u] = callc[u]
  BY <1>1 DEF InCall
<1> QED
  BY <1>2, StaysPlaced DEF RInv

\* withdraw(): the first of the queue is taken back, to be thrown.
LEMMA WithdrawStep ==
    ASSUME RInv, NEW t \in Threads, withdraw(t)
    PROVE  StepOK
<1>1. /\ callpc[t] = "withdraw" /\ Owing(t)
      /\ UNCHANGED <<doomed, batch, exec, inv, sd, ran, abandoned>>
  BY DEF withdraw, Owing, service_vars, invoker_vars
<1>2. CASE Return(t) /\ UNCHANGED <<pending_, thrown>>
  <2>1. /\ callpc'[t] = "idle"
        /\ \A u \in Threads \ {t} : callpc'[u] = callpc[u] /\ callc'[u] = callc[u]
    BY <1>2 DEF Return, Goto, RInv, IInv, TypeOK
  <2>2. Placed'
    <3>1. Waiting' \cup Finished' = Waiting \cup Finished
      BY <1>1, <1>2, SMTT(30) DEF Waiting, Batched, Contents, Finished
    <3> QED
      BY <2>1, <3>1 DEF RInv, Placed, InCall
  <2>3. Thrown' = Thrown
    BY <1>1, <1>2, <2>1 DEF Thrown, Withdrawn
  <2> QED
    BY <1>1, <1>2, <2>2, <2>3, CallGoesOn
<1>3. CASE /\ Open /\ pending_' = Tail(pending_)
           /\ \/ Return(t) /\ thrown' = thrown \cup {callc[t]}
              \/ Goto(t, "repost") /\ UNCHANGED <<callc, thrown>>
  <2>1. /\ \/ callpc'[t] = "idle" /\ thrown' = thrown \cup {callc[t]}
           \/ callpc'[t] = "repost" /\ callc'[t] = callc[t] /\ thrown' = thrown
        /\ \A u \in Threads \ {t} : callpc'[u] = callpc[u] /\ callc'[u] = callc[u]
    BY <1>3 DEF Return, Goto, RInv, IInv, TypeOK
  <2>2. /\ pending_ \in Seq(Conts) /\ pending_ # <<>> /\ Head(pending_) = callc[t]
    BY <1>1, <1>3 DEF RInv, IInv, TypeOK, WithdrawnIsFirst
  <2>3. /\ callc[t] \in Contents(pending_) /\ pending_' \in Seq(Conts)
        /\ Contents(pending_) = Contents(pending_') \cup {callc[t]}
    BY <1>3, <2>2, QueueContents
  <2>4. /\ \A u \in Threads \ {t} : ~Owing(u)
        /\ \A u \in Threads : batch[u] = <<>> /\ exec[u] = None
    BY <1>1, NobodyElse DEF Responsible
  <2>5. Waiting' \cup Finished' \subseteq Waiting \cup Finished
    <3>1. Contents(doomed)' = Contents(doomed) /\ Batched' = Batched
      BY <1>1, SMTT(30) DEF Batched, Contents
    <3>2. thrown' \subseteq thrown \cup {callc[t]}
      BY <2>1
    <3> QED
      BY <1>1, <2>3, <3>1, <3>2 DEF Waiting, Finished
  <2>6. \A u \in Threads \ {t} : InCall(u) => callc[u] # callc[t]
    BY <2>3, <2>4 DEF RInv, Placed, InCall, Owing, Waiting
  <2>7. Placed'
    BY <2>1, <2>5, <2>6, SMTT(30) DEF RInv, Placed, InCall
  <2>8. Batches' /\ TakenOnce'
    BY <1>1 DEF RInv, Batches, TakenOnce
  <2>9. Running = {} /\ UNCHANGED <<Running, Abandoned>>
    BY <1>1, <2>4 DEF Running, Abandoned, Contents
  <2>10. Thrown' = Thrown \cup {callc[t]}
    BY <1>1, <2>1 DEF Thrown, Withdrawn
  <2>11. Queue = pending_ /\ Queue' = Tail(pending_)
    <3>1. CurrentBatch(batch) = <<>> /\ CurrentBatch(batch)' = <<>>
      BY <1>1, <2>4 DEF CurrentBatch
    <3> QED
      BY <1>3, <2>2, <2>3, <3>1, SMTT(30) DEF Queue
  <2>12. Serial!TakeBack
    BY <1>1, <2>2, <2>9, <2>10, <2>11 DEF Serial!TakeBack
  <2> QED
    BY <2>7, <2>8, <2>12 DEF StepOK, Serial!AbsNext
<1> QED
  BY <1>2, <1>3 DEF withdraw

\* The second invoker is posted and the exception passed on, or that fails too.
LEMMA RepostStep ==
    ASSUME RInv, NEW t \in Threads, repost_invoker(t)
    PROVE  StepOK
<1>1. /\ callpc[t] = "repost" /\ Owing(t) /\ InCall(t)
      /\ \/ Return(t) /\ thrown' = thrown \cup {callc[t]}
         \/ Goto(t, "giveup") /\ UNCHANGED <<callc, thrown>>
      /\ UNCHANGED <<pending_, doomed, batch, exec, inv, sd, ran, abandoned>>
  BY DEF repost_invoker, Owing, InCall, impl_vars, service_vars
<1>2. /\ \/ callpc'[t] = "idle" /\ thrown' = thrown \cup {callc[t]}
         \/ callpc'[t] = "giveup" /\ callc'[t] = callc[t] /\ thrown' = thrown
      /\ \A u \in Threads \ {t} : callpc'[u] = callpc[u] /\ callc'[u] = callc[u]
  BY <1>1 DEF Return, Goto, RInv, IInv, TypeOK
<1>3. Placed'
  <2>1. /\ Contents(doomed)' = Contents(doomed) /\ Batched' = Batched
        /\ Contents(pending_)' \cup abandoned' \subseteq Contents(pending_) \cup abandoned
    BY <1>1, SMTT(30) DEF Batched, Contents
  <2>2. ran' = ran /\ thrown' \subseteq thrown \cup {callc[t]}
    BY <1>1, <1>2
  <2>3. Waiting' \cup Finished' \subseteq Waiting \cup Finished \cup {callc[t]}
    BY <2>1, <2>2 DEF Waiting, Finished
  <2> QED
    BY <1>1, <1>2, <2>3, TakenBack
<1>4. Thrown' = Thrown
  BY <1>1, <1>2 DEF Thrown, Withdrawn
<1> QED
  BY <1>1, <1>2, <1>3, <1>4, CallGoesOn

\* abandon_pending() gives up the queue, and the exception is passed on.
LEMMA AbandonPendingStep ==
    ASSUME RInv, NEW t \in Threads, abandon_pending(t)
    PROVE  StepOK
<1>1. /\ callpc[t] = "giveup" /\ Owing(t) /\ InCall(t)
      /\ Return(t) /\ thrown' = thrown \cup {callc[t]}
      /\ UNCHANGED <<doomed, batch, exec, inv, sd, ran>>
      /\ \/ pending_' = <<>> /\ abandoned' = abandoned \cup Contents(pending_)
         \/ UNCHANGED <<pending_, abandoned>>
  BY DEF abandon_pending, Owing, InCall, service_vars, invoker_vars
<1>2. /\ callpc'[t] = "idle"
      /\ \A u \in Threads \ {t} : callpc'[u] = callpc[u] /\ callc'[u] = callc[u]
  BY <1>1 DEF Return, Goto, RInv, IInv, TypeOK
<1>3. Placed'
  <2>1. /\ Contents(doomed)' = Contents(doomed) /\ Batched' = Batched
        /\ Contents(pending_)' \cup abandoned' \subseteq Contents(pending_) \cup abandoned
    BY <1>1, SMTT(30) DEF Batched, Contents
  <2>2. ran' = ran /\ thrown' \subseteq thrown \cup {callc[t]}
    BY <1>1
  <2>3. Waiting' \cup Finished' \subseteq Waiting \cup Finished \cup {callc[t]}
    BY <2>1, <2>2 DEF Waiting, Finished
  <2> QED
    BY <1>1, <1>2, <2>3, TakenBack
<1>4. Thrown' = Thrown
  BY <1>1, <1>2 DEF Thrown, Withdrawn
<1>5. CASE UNCHANGED <<pending_, abandoned>>
  BY <1>1, <1>3, <1>4, <1>5, CallGoesOn
<1>6. CASE pending_' = <<>> /\ abandoned' = abandoned \cup Contents(pending_)
  <2>1. Abandoned' = Abandoned \cup Contents(pending_)
    BY <1>1, <1>6 DEF Abandoned, Contents
  <2>2. Serial!AbsNext
    BY <1>1, <1>4, <1>6, <2>1, GivesUp
  <2>3. Batches' /\ TakenOnce'
    BY <1>1 DEF RInv, Batches, TakenOnce
  <2> QED
    BY <1>3, <2>2, <2>3 DEF StepOK
<1> QED
  BY <1>1, <1>5, <1>6

-----------------------------------------------------------------------------
\* dispatch_pending() takes the queue as its batch.
LEMMA TakeAllStep ==
    ASSUME RInv, NEW t \in Threads, take_all(t)
    PROVE  StepOK
<1>1. /\ inv[t] = "take" /\ inv' = [inv EXCEPT ![t] = "batch"]
      /\ batch' = [batch EXCEPT ![t] = pending_] /\ pending_' = <<>>
      /\ UNCHANGED <<doomed, exec, sd, callpc, callc, ran, abandoned, thrown>>
  BY DEF take_all, InvokerAt, Step, service_vars, call_vars, fate_vars
<1>2. /\ batch \in [Threads -> Seq(Conts)] /\ pending_ \in Seq(Conts)
      /\ inv \in [Threads -> {"none", "set", "take", "batch", "clear"}]
  BY DEF RInv, IInv, TypeOK
<1>3. batch[t] = <<>> /\ \A u \in Threads \ {t} : batch[u] = <<>>
  BY <1>1, NobodyElse DEF Responsible, Invoking, RInv, Batches
<1>4. batch'[t] = pending_ /\ \A u \in Threads \ {t} : batch'[u] = <<>>
  BY <1>1, <1>2, <1>3
<1>5. Batched' = Contents(pending_) /\ Contents(pending_') = {}
  <2>1. Contents(<<>>) = {}
    BY SMTT(30) DEF Contents
  <2>2. Batched' = UNION {Contents(batch'[u]) : u \in Threads}
    BY DEF Batched, Contents
  <2>3. \A u \in Threads \ {t} : Contents(batch'[u]) = {}
    BY <1>4, <2>1
  <2> QED
    BY <1>1, <1>4, <2>1, <2>2, <2>3
<1>6. Placed'
  <2>1. Contents(doomed)' = Contents(doomed)
    BY <1>1 DEF Contents
  <2>2. Waiting' \cup Finished' \subseteq Waiting \cup Finished
    BY <1>1, <1>5, <2>1 DEF Waiting, Finished
  <2> QED
    BY <1>1, <2>2 DEF RInv, Placed, InCall
<1>7. Batches' /\ TakenOnce'
  BY <1>1, <1>2, <1>4 DEF RInv, Batches, TakenOnce
<1>8. Queue' = Queue
  <2>1. CurrentBatch(batch) = <<>>
    BY <1>3, OneBatch
  <2>2. CurrentBatch(batch') = pending_
    BY <1>4, OneBatch
  <2> QED
    BY <1>1, <1>2, <2>1, <2>2, BehindAnother, SMTT(30) DEF Queue
<1>9. UNCHANGED <<Running, Abandoned, Thrown>>
  BY <1>1 DEF Running, Abandoned, Thrown, Withdrawn, Contents
<1> QED
  BY <1>1, <1>6, <1>7, <1>8, <1>9 DEF StepOK, Serial!abs_vars

\* dispatch_batch() resumes the first of the batch.
LEMMA DispatchBatchStep ==
    ASSUME RInv, NEW t \in Threads, dispatch_batch(t)
    PROVE  StepOK
<1> DEFINE c == Head(batch[t])
<1>1. /\ inv[t] = "batch" /\ exec[t] = None /\ batch[t] # <<>>
      /\ exec' = [exec EXCEPT ![t] = c] /\ ran' = ran \cup {c}
      /\ batch' = [batch EXCEPT ![t] = Tail(batch[t])]
      /\ UNCHANGED <<pending_, doomed, inv, sd, callpc, callc, abandoned, thrown>>
  BY DEF dispatch_batch, InvokerAt, impl_vars, service_vars, call_vars
<1>2. /\ batch \in [Threads -> Seq(Conts)] /\ pending_ \in Seq(Conts)
      /\ exec \in [Threads -> Conts \cup {None}]
  BY DEF RInv, IInv, TypeOK
<1>3. \A u \in Threads \ {t} : batch[u] = <<>> /\ exec[u] = None
  BY <1>1, NobodyElse DEF Responsible, Invoking
<1>4. /\ c \in Contents(batch[t]) /\ Tail(batch[t]) \in Seq(Conts) /\ c \in Conts
      /\ Contents(batch[t]) = Contents(Tail(batch[t])) \cup {c}
  <2>1. batch[t] \in Seq(Conts)
    BY <1>2
  <2> QED
    BY <1>1, <2>1, QueueContents, SMTT(30)
<1> HIDE DEF c
<1>5. /\ batch'[t] = Tail(batch[t]) /\ exec'[t] = c
      /\ \A u \in Threads \ {t} : batch'[u] = batch[u] /\ exec'[u] = exec[u]
  BY <1>1, <1>2
<1>6. Batched' \subseteq Batched /\ c \in Batched
  <2>1. Batched' = UNION {Contents(batch'[u]) : u \in Threads}
    BY DEF Batched, Contents
  <2>2. \A u \in Threads : Contents(batch'[u]) \subseteq Contents(batch[u])
    BY <1>4, <1>5
  <2> QED
    BY <1>4, <2>1, <2>2 DEF Batched
<1>7. Placed'
  <2>1. UNCHANGED <<Contents(doomed), Contents(pending_)>>
    BY <1>1 DEF Contents
  <2>2. Waiting' \cup Finished' \subseteq Waiting \cup Finished
    BY <1>1, <1>6, <2>1 DEF Waiting, Finished
  <2> QED
    BY <1>1, <2>2 DEF RInv, Placed, InCall
<1>8. Batches' /\ TakenOnce'
  BY <1>1, <1>3, <1>5 DEF RInv, Batches, TakenOnce
<1>9. Queue # <<>> /\ Head(Queue) = c /\ Queue' = Tail(Queue)
  <2>1. CurrentBatch(batch) = batch[t]
    BY <1>3, OneBatch
  <2>2. \A u \in Threads \ {t} : batch'[u] = <<>>
    BY <1>3, <1>5
  <2>3. CurrentBatch(batch') = Tail(batch[t])
    BY <1>5, <2>2, OneBatch
  <2>4. /\ batch[t] \o pending_ # <<>> /\ Head(batch[t] \o pending_) = c
        /\ Tail(batch[t] \o pending_) = Tail(batch[t]) \o pending_
    BY <1>1, <1>2, FrontTaken, SMTT(30) DEF c
  <2>5. Queue = batch[t] \o pending_ /\ Queue' = Tail(batch[t]) \o pending_
    BY <1>1, <2>1, <2>3 DEF Queue
  <2> QED
    BY <2>4, <2>5
<1>10. Running = {} /\ Running' = {c}
  <2>1. {exec'[u] : u \in Threads} \ {None} = {exec'[t]} \ {None}
    BY <1>3, <1>5, OneRunning, SMTT(30)
  <2> QED
    BY <1>1, <1>3, <1>4, <1>5, <2>1, NoneAssumption, SMTT(30) DEF Running
<1>11. UNCHANGED <<Abandoned, Thrown>>
  BY <1>1 DEF Abandoned, Thrown, Withdrawn, Contents
<1>12. Serial!Resume
  BY <1>1, <1>9, <1>10, <1>11 DEF Serial!Resume
<1> QED
  BY <1>7, <1>8, <1>12 DEF StepOK, Serial!AbsNext

\* The coroutine comes back to the loop.
LEMMA ReturnsStep ==
    ASSUME RInv, NEW t \in Threads, coroutine_returns(t)
    PROVE  StepOK
<1>1. /\ exec[t] # None /\ exec' = [exec EXCEPT ![t] = None]
      /\ UNCHANGED <<pending_, doomed, batch, inv, sd, callpc, callc, ran, abandoned, thrown>>
  BY DEF coroutine_returns, impl_vars, service_vars, call_vars, fate_vars
<1>2. \A u \in Threads \ {t} : exec[u] = None
  BY <1>1, NobodyElse DEF RInv, IInv, InsideLoop, NoForeignInline, Responsible, Invoking
<1>3. Running # {} /\ Running' = {}
  <2>1. \A u \in Threads : exec'[u] = None
    BY <1>1, <1>2 DEF RInv, IInv, TypeOK
  <2> QED
    BY <1>1, <2>1, SMTT(30) DEF Running
<1>4. UNCHANGED <<Queue, Abandoned, Thrown>>
  BY <1>1 DEF Queue, CurrentBatch, Abandoned, Thrown, Withdrawn, Contents
<1>5. Serial!Suspend
  BY <1>1, <1>3, <1>4 DEF Serial!Suspend
<1>6. Placed'
  <2>1. Waiting' \cup Finished' = Waiting \cup Finished
    BY <1>1, SMTT(30) DEF Waiting, Batched, Contents, Finished
  <2> QED
    BY <1>1, <2>1 DEF RInv, Placed, InCall
<1>7. Batches' /\ TakenOnce'
  BY <1>1 DEF RInv, Batches, TakenOnce
<1> QED
  BY <1>5, <1>6, <1>7 DEF StepOK, Serial!AbsNext

-----------------------------------------------------------------------------
\* A strand that nobody has created is an executor with nothing to do.
LEMMA RInitially == Init => RInv /\ Serial!AbsInit
<1> SUFFICES ASSUME Init PROVE RInv /\ Serial!AbsInit
  OBVIOUS
<1>1. Placed /\ Batches /\ TakenOnce
  BY DEF Init, Placed, InCall, Batches, TakenOnce
<1>2. CurrentBatch(batch) = <<>> /\ Contents(doomed) = {} /\ Withdrawn = {} /\ Running = {}
  BY SMTT(30) DEF Init, CurrentBatch, Contents, Withdrawn, Running
<1>3. Queue = <<>> /\ Abandoned = {} /\ Thrown = {}
  BY <1>2, SMTT(30) DEF Init, Queue, Abandoned, Thrown
<1> QED
  BY <1>1, <1>2, <1>3, InitIInv DEF Init, RInv, Serial!AbsInit

\* Every step of the strand keeps the mapped state in step with the serial executor.
LEMMA RStep == RInv /\ [Next]_vars => StepOK
<1> SUFFICES ASSUME RInv, [Next]_vars PROVE StepOK
  OBVIOUS
<1>1. CASE \/ create_implementation \/ DropHandle \/ drop_invoker \/ shutdown_close
           \/ service_destroyed \/ UNCHANGED vars
  BY <1>1, QuietStep
<1>2. CASE destroy_impl \/ shutdown_take \/ shutdown_abandon
  BY <1>2, DestroyImplStep, ShutdownTakeStep, ShutdownAbandonStep
<1>3. ASSUME NEW t \in Threads, NEW c \in Conts, post(t, c) \/ dispatch(t, c) PROVE StepOK
  BY <1>3, PostStep, DispatchStep
<1>4. ASSUME NEW t \in Threads, CallStep(t) PROVE StepOK
  BY <1>4, CheckStep, LockStepRefines, PostInvokerStep, WithdrawStep, RepostStep,
     AbandonPendingStep DEF CallStep
<1>5. ASSUME NEW t \in Threads, InvokerStep(t) \/ run_invoker(t) PROVE StepOK
  BY <1>5, QuietStep, TakeAllStep, DispatchBatchStep, ReturnsStep DEF InvokerStep
<1> QED
  BY <1>1, <1>2, <1>3, <1>4, <1>5 DEF Next

\* For any numbers of threads and continuations the strand is a serial executor: what
\* enqueue() accepts is resumed one at a time and in order, however posts, dispatches,
\* failed posts, withdrawals and a shutdown interleave, and each continuation is
\* resumed, abandoned or handed back at most once.
THEOREM Refines == Spec => ImplementsSerialExecutor
<1>1. RInv /\ [Next]_vars => RInv' /\ [Serial!AbsNext]_(Serial!abs_vars)
  <2>1. IInv /\ [Next]_vars => IInv'
    BY TypeStep, LifetimesStep, InsideLoopStep, LockStep, FirstStep, NoLockStep, EmptyStep
       DEF IInv
  <2> QED
    BY <2>1, RStep DEF RInv, StepOK
<1> QED
  BY RInitially, <1>1, PTL DEF Spec, ImplementsSerialExecutor, Serial!AbsSpec

=============================================================================
