------------------------ MODULE NotificationsProofs -------------------------
(***************************************************************************)
(* Proofs about what notifies waiting coroutines, for any number of        *)
(* threads, waits, waiters and wakes.  An async_waker has one winner per   *)
(* wait, its slot agrees with the waiter, nothing reaches a dead waker,    *)
(* and every step is one of WakerSpec.  A waiter of an async_event is in   *)
(* the list that it says and is resumed by one party.  A coroutine that    *)
(* waits through a bridge is handed on once, with what its work ended      *)
(* with.                                                                   *)
(***************************************************************************)
EXTENDS Notifications, Sequences, WellFoundedInduction, TLAPS

-----------------------------------------------------------------------------
(* async_waker: the inductive invariant.                                   *)

\* A suspended waiter is in the slot or in the hands of whoever claimed it.
SuspendedIsHeld ==
    co = "suspended" =>
        st_ = "armed" \/ Claiming # {} \/ cb = "won" \/ alive = "claimed"

\* A stop callback exists only for a wait that is under way, and for a posted
\* waiter it has run or it is gone.
CallbackOfWait ==
    /\ cb # "none" => "active" \in flags
    /\ co \in {"idle", "suspending", "gone"} => cb = "none"
    /\ co = "posted" => cb \in {"none", "ran"} /\ "claimed" \in flags
    /\ \A t \in Threads : wk[t] = "deregistered" => cb = "none"
    /\ alive = "no" => cb \notin {"registered", "running"}

\* wake() is in progress only on a waker that exists, whose destructor runs on
\* the executor thread, and a wait that is under way is not yet canceled.
UnderWay ==
    /\ alive # "yes" => NoWake
    /\ co \in {"suspending", "registered", "unpublish", "arming", "publishing",
               "suspended"} => "canceled" \notin flags

\* The inductive invariant: what is proved of the waker, and what a suspended
\* or posted waiter, its callback and the calls of wake() know of one another.
WakerInv ==
    /\ TypeOK /\ OneWinner /\ NothingReachesDeadWaker
    /\ SuspendedIsHeld /\ CallbackOfWait /\ UnderWay

-----------------------------------------------------------------------------
(* Invariance.                                                             *)

\* The initial state: an empty slot and nobody inside the waker.
LEMMA WakerBegins == Init => WakerInv
BY DEF Init, WakerInv, TypeOK, OneWinner, Claiming,
       NothingReachesDeadWaker, NoWake, SuspendedIsHeld, CallbackOfWait, UnderWay

\* Every step of the waiter, the stop callback, wake() and the destructors
\* preserves the invariant.
LEMMA WakerNext == WakerInv /\ [Next]_vars => WakerInv'
<1> SUFFICES ASSUME WakerInv, [Next]_vars PROVE WakerInv'
  OBVIOUS
<1> USE DEF WakerInv, TypeOK, OneWinner, Claiming,
            NothingReachesDeadWaker, NoWake, SuspendedIsHeld, CallbackOfWait, UnderWay
<1>1. CASE await_ready
  BY <1>1 DEF await_ready, counters
<1>2. CASE suspend_register
  BY <1>2, Zenon DEF suspend_register, counters
<1>3. CASE suspend_arm
  BY <1>3 DEF suspend_arm, counters
<1>4. CASE suspend_consume
  BY <1>4 DEF suspend_consume, DestroyCallback, counters
<1>5. CASE suspend_check
  BY <1>5, Zenon DEF suspend_check, counters
<1>6. CASE suspend_publish
  BY <1>6 DEF suspend_publish, counters
<1>7. CASE await_resume
  BY <1>7 DEF await_resume, DestroyCallback, counters
<1>8. CASE request_stop
  BY <1>8 DEF request_stop, counters
<1>9. CASE cancel_claim
  BY <1>9 DEF cancel_claim, counters
<1>10. CASE cancel_post
  BY <1>10 DEF cancel_post, counters
<1>11. CASE destroy_suspended
  BY <1>11 DEF destroy_suspended, counters
<1>12. CASE abandon_posted
  BY <1>12 DEF abandon_posted, DestroyCallback, counters
<1>13. CASE destroy_waker
  BY <1>13 DEF destroy_waker, Free, counters
<1>14. CASE destroy_waker_post
  BY <1>14 DEF destroy_waker_post, DestroyCallback, counters
<1>15. ASSUME NEW t \in Threads, wake(t) PROVE WakerInv'
  BY <1>15 DEF wake, Goto, counters
<1>16. ASSUME NEW t \in Threads, wake_try(t) PROVE WakerInv'
  BY <1>16 DEF wake_try, Goto, counters
<1>17. ASSUME NEW t \in Threads, wake_deregister(t) PROVE WakerInv'
  BY <1>17 DEF wake_deregister, DestroyCallback, Goto, counters
<1>18. ASSUME NEW t \in Threads, wake_post(t) PROVE WakerInv'
  BY <1>18 DEF wake_post, Goto, counters
<1>19. CASE UNCHANGED vars
  BY <1>19 DEF vars, counters
<1> QED
  BY <1>1, <1>2, <1>3, <1>4, <1>5, <1>6, <1>7, <1>8, <1>9, <1>10, <1>11, <1>12, <1>13, <1>14, <1>15, <1>16, <1>17, <1>18, <1>19, Zenon
  DEF Next, CoroutineStep, CallbackStep, WakeStep

\* The invariant holds in every reachable state.
THEOREM WakerInductive == Spec => []WakerInv
<1>1. Init => WakerInv
  BY WakerBegins
<1>2. WakerInv /\ [Next]_vars => WakerInv'
  BY WakerNext
<1> QED
  BY <1>1, <1>2, PTL DEF Spec

\* Among wake(), the stop callback and ~async_waker at most one wins a waiter.
THEOREM SingleWinner == Spec => []OneWinner
<1>1. WakerInv => OneWinner
  BY DEF WakerInv
<1> QED
  BY <1>1, WakerInductive, PTL

\* Once ~async_waker is over, no stop callback, wake() or awaiter reaches it.
THEOREM DeadWakerIsLeftAlone == Spec => []NothingReachesDeadWaker
<1>1. WakerInv => NothingReachesDeadWaker
  BY DEF WakerInv
<1> QED
  BY <1>1, WakerInductive, PTL

-----------------------------------------------------------------------------
(* Refinement of WakerSpec, its fairness left to TLC.                      *)

\* The initial state of the waker is that of the abstract one.
LEMMA AbstractBegins == Init => Abstract!Init
BY DEF Init, Abstract!Init, Waiting

\* Every step is a step of the abstract waker or changes nothing that it shows.
LEMMA AbstractStep == WakerInv /\ [Next]_vars => [Abstract!Next]_(Abstract!vars)
<1> SUFFICES ASSUME WakerInv, [Next]_vars PROVE [Abstract!Next]_(Abstract!vars)
  OBVIOUS
<1> USE DEF WakerInv, TypeOK, OneWinner, Claiming,
            NothingReachesDeadWaker, NoWake, SuspendedIsHeld, CallbackOfWait, UnderWay,
            Waiting, Outcome, Abstract!Next, Abstract!vars, Abstract!Suspend,
            Abstract!Consume, Abstract!Wake, Abstract!Latch, Abstract!Cancel,
            Abstract!Return
<1>1. CASE await_ready
  BY <1>1 DEF await_ready, counters
<1>2. CASE suspend_register
  BY <1>2 DEF suspend_register, counters
<1>3. CASE suspend_arm
  BY <1>3 DEF suspend_arm, counters
<1>4. CASE suspend_consume
  BY <1>4 DEF suspend_consume, DestroyCallback, counters
<1>5. CASE suspend_check
  BY <1>5 DEF suspend_check, counters
<1>6. CASE suspend_publish
  BY <1>6 DEF suspend_publish, counters
<1>7. CASE await_resume
  BY <1>7 DEF await_resume, DestroyCallback, counters
<1>8. CASE request_stop
  BY <1>8 DEF request_stop, counters
<1>9. CASE cancel_claim
  BY <1>9 DEF cancel_claim, counters
<1>10. CASE cancel_post
  BY <1>10 DEF cancel_post, counters
<1>11. CASE destroy_suspended
  BY <1>11 DEF destroy_suspended, counters
<1>12. CASE abandon_posted
  BY <1>12 DEF abandon_posted, DestroyCallback, counters
<1>13. CASE destroy_waker
  BY <1>13 DEF destroy_waker, Free, counters
<1>14. CASE destroy_waker_post
  BY <1>14 DEF destroy_waker_post, DestroyCallback, counters
<1>15. ASSUME NEW t \in Threads, wake(t) PROVE [Abstract!Next]_(Abstract!vars)
  BY <1>15 DEF wake, Goto, counters
<1>16. ASSUME NEW t \in Threads, wake_try(t) PROVE [Abstract!Next]_(Abstract!vars)
  BY <1>16 DEF wake_try, Goto, counters
<1>17. ASSUME NEW t \in Threads, wake_deregister(t) PROVE [Abstract!Next]_(Abstract!vars)
  BY <1>17 DEF wake_deregister, DestroyCallback, Goto, counters
<1>18. ASSUME NEW t \in Threads, wake_post(t) PROVE [Abstract!Next]_(Abstract!vars)
  BY <1>18 DEF wake_post, Goto, counters
<1>19. CASE UNCHANGED vars
  BY <1>19 DEF vars, counters
<1> QED
  BY <1>1, <1>2, <1>3, <1>4, <1>5, <1>6, <1>7, <1>8, <1>9, <1>10, <1>11, <1>12, <1>13, <1>14, <1>15, <1>16, <1>17, <1>18, <1>19, Zenon
  DEF Next, CoroutineStep, CallbackStep, WakeStep

\* The waker implements the safety part of WakerSpec: no wakeup is lost.
THEOREM WakerRefines == Spec => Abstract!Init /\ [][Abstract!Next]_(Abstract!vars)
<1>1. Init => Abstract!Init
  BY AbstractBegins
<1>2. WakerInv /\ [Next]_vars => [Abstract!Next]_(Abstract!vars)
  BY AbstractStep
<1> QED
  BY <1>1, <1>2, WakerInductive, PTL DEF Spec

-----------------------------------------------------------------------------
(* Naturals and lists.                                                     *)

\* Every leaf from here on is for Zenon unless it names another prover.
USE Zenon

\* A nonempty set of naturals has a least element.
LEMMA LeastNatural ==
  ASSUME NEW T \in SUBSET Nat, T # {}
  PROVE  \E x \in T : \A y \in T : x <= y
<1> DEFINE R == {p \in Nat \X Nat : p[1] < p[2]}
<1>1. IsWellFoundedOn(R, Nat)
  BY NatLessThanWellFounded DEF OpToRel
<1>2. \E x \in T : \A y \in T : <<y, x>> \notin R
  <2> HIDE DEF R
  <2> QED BY <1>1, WFMin
<1>3. PICK x \in T : \A y \in T : <<y, x>> \notin R
  BY <1>2
<1>4. \A y \in T : ~(y < x)
  <2> SUFFICES ASSUME NEW y \in T, y < x PROVE FALSE
    OBVIOUS
  <2>1. <<y, x>> \in Nat \X Nat /\ <<y, x>>[1] = y /\ <<y, x>>[2] = x
    BY SMTT(30)
  <2> QED BY <2>1, <1>3
<1>5. \A y \in T : x <= y
  <2> HIDE DEF R
  <2> QED BY <1>4, SMTT(30)
<1> QED BY <1>5

\* A set of naturals that has 0 and the successor of each element has them all.
LEMMA Induction ==
  ASSUME NEW T \in SUBSET Nat, 0 \in T, \A n \in T : n + 1 \in T
  PROVE  T = Nat
<1> SUFFICES ASSUME Nat \ T # {} PROVE FALSE
  OBVIOUS
<1>1. PICK x \in Nat \ T : \A y \in Nat \ T : x <= y
  BY LeastNatural
<1>2. x - 1 \in Nat /\ (x - 1) + 1 = x /\ ~(x <= x - 1)
  BY <1>1, SMTT(30)
<1> QED BY <1>1, <1>2

-----------------------------------------------------------------------------
Elems(s) == {s[i] : i \in DOMAIN s}
Distinct(s) == \A i, j \in DOMAIN s : s[i] = s[j] => i = j

\* push_back() of an element that is not in the list.
LEMMA Appended ==
  ASSUME NEW S, NEW s \in Seq(S), Distinct(s), NEW e \in S, e \notin Elems(s)
  PROVE  /\ Append(s, e) \in Seq(S) /\ Distinct(Append(s, e))
         /\ Elems(Append(s, e)) = Elems(s) \cup {e}
<1> DEFINE r == Append(s, e)
<1>1. /\ r \in Seq(S) /\ Len(r) = Len(s) + 1 /\ r[Len(s) + 1] = e
      /\ \A i \in 1 .. Len(s) : r[i] = s[i]
  BY SMTT(30)
<1>2. DOMAIN r = 1 .. Len(s) + 1 /\ DOMAIN s = 1 .. Len(s) /\ Len(s) \in Nat
  BY <1>1, SMTT(30)
<1> HIDE DEF r
<1>3. Elems(r) = Elems(s) \cup {e}
  <2>1. \A x \in Elems(r) : x \in Elems(s) \cup {e}
    BY <1>1, <1>2, SMTT(30) DEF Elems
  <2>2. e \in Elems(r)
    BY <1>1, <1>2, SMTT(30) DEF Elems
  <2>3. \A x \in Elems(s) : x \in Elems(r)
    BY <1>1, <1>2, SMTT(30) DEF Elems
  <2> QED BY <2>1, <2>2, <2>3
<1>4. Distinct(r)
  BY <1>1, <1>2, SMTT(30) DEF Distinct, Elems
<1> QED BY <1>1, <1>3, <1>4 DEF r

\* pop_front() of a list that has an element.
LEMMA Popped ==
  ASSUME NEW S, NEW s \in Seq(S), s # <<>>
  PROVE  /\ Head(s) \in S /\ Head(s) \in Elems(s) /\ Tail(s) \in Seq(S)
         /\ Elems(s) = Elems(Tail(s)) \cup {Head(s)}
         /\ Distinct(s) => Distinct(Tail(s)) /\ Head(s) \notin Elems(Tail(s))
<1> DEFINE r == Tail(s)
<1>1. /\ r \in Seq(S) /\ Len(r) = Len(s) - 1 /\ Len(s) > 0 /\ Head(s) = s[1] /\ s[1] \in S
      /\ \A i \in 1 .. Len(s) - 1 : r[i] = s[i + 1]
  BY SMTT(30)
<1>2. DOMAIN r = 1 .. Len(s) - 1 /\ DOMAIN s = 1 .. Len(s) /\ Len(s) \in Nat
  BY <1>1, SMTT(30)
<1> HIDE DEF r
<1>3. \A x \in Elems(r) : x \in Elems(s)
  BY <1>1, <1>2, SMTT(30) DEF Elems
<1>4. \A x \in Elems(s) : x \in Elems(r) \cup {s[1]}
  <2> SUFFICES ASSUME NEW i \in 1 .. Len(s), i # 1 PROVE s[i] \in Elems(r)
    BY <1>2 DEF Elems
  <2>1. i - 1 \in DOMAIN r /\ r[i - 1] = s[i]
    BY <1>1, <1>2, SMTT(30)
  <2> QED BY <2>1 DEF Elems
<1>5. s[1] \in Elems(s)
  BY <1>1, <1>2, SMTT(30) DEF Elems
<1>6. Distinct(s) => Distinct(r) /\ s[1] \notin Elems(r)
  <2> SUFFICES ASSUME Distinct(s) PROVE Distinct(r) /\ s[1] \notin Elems(r)
    OBVIOUS
  <2>1. \A i \in DOMAIN r : i + 1 \in DOMAIN s /\ i + 1 # 1 /\ r[i] = s[i + 1]
    BY <1>1, <1>2, SMTT(30)
  <2>2. 1 \in DOMAIN s /\ \A i, j \in DOMAIN r : i + 1 = j + 1 => i = j
    BY <1>1, <1>2, SMTT(30)
  <2>3. Distinct(r)
    BY <2>1, <2>2 DEF Distinct
  <2>4. ASSUME NEW i \in DOMAIN r PROVE r[i] # s[1]
    BY <2>1, <2>2 DEF Distinct
  <2> QED BY <2>3, <2>4 DEF Elems
<1> QED BY <1>1, <1>3, <1>4, <1>5, <1>6 DEF r

-----------------------------------------------------------------------------
\* A list without some of its elements.
LEMMA Filtered ==
  ASSUME NEW S, NEW s \in Seq(S), Distinct(s), NEW D
  PROVE  /\ Event!Without(s, D) \in Seq(S) /\ Distinct(Event!Without(s, D))
         /\ Elems(Event!Without(s, D)) = Elems(s) \ D
<1> DEFINE Rest(g, n) == g = [k \in 0 .. n |->
               IF k = 0 THEN <<>>
               ELSE IF s[k] \in D THEN g[k - 1] ELSE Append(g[k - 1], s[k])]
           f == CHOOSE g : Rest(g, Len(s))
<1>0. Len(s) \in Nat /\ DOMAIN s = 1 .. Len(s) /\ \A k \in 1 .. Len(s) : s[k] \in S
  BY SMTT(30)
<1>1. \A n \in Nat : \E g : Rest(g, n)
  <2> DEFINE T == {n \in Nat : \E g : Rest(g, n)}
  <2>1. 0 \in T
    <3>1. Rest([k \in 0 .. 0 |-> <<>>], 0)
      BY SMTT(30)
    <3> HIDE DEF Rest
    <3> QED BY <3>1
  <2>2. ASSUME NEW n \in T PROVE n + 1 \in T
    <3>1. PICK g : Rest(g, n)
      OBVIOUS
    <3> DEFINE x == IF s[n + 1] \in D THEN g[n] ELSE Append(g[n], s[n + 1])
               h == [k \in 0 .. n + 1 |-> IF k = n + 1 THEN x ELSE g[k]]
    <3>2. Rest(h, n + 1)
      <4>1. ASSUME NEW k \in 0 .. n + 1
            PROVE  h[k] = IF k = 0 THEN <<>>
                          ELSE IF s[k] \in D THEN h[k - 1] ELSE Append(h[k - 1], s[k])
        <5>0. n \in Nat
          OBVIOUS
        <5>1. CASE k = n + 1
          <6>1. k # 0 /\ h[k] = x /\ k - 1 = n /\ n \in 0 .. n + 1 /\ n # n + 1
            BY <5>0, <5>1, SMTT(30)
          <6>2. h[k - 1] = g[n]
            BY <6>1
          <6> QED BY <6>1, <6>2, <5>1
        <5>2. CASE k # n + 1
          <6>1. h[k] = g[k] /\ k \in 0 .. n
            BY <5>0, <5>2, SMTT(30)
          <6>2. k # 0 => k - 1 \in 0 .. n + 1 /\ k - 1 # n + 1
            BY <5>0, <5>2, SMTT(30)
          <6>3. k # 0 => h[k - 1] = g[k - 1]
            BY <6>2
          <6>4. g[k] = IF k = 0 THEN <<>>
                       ELSE IF s[k] \in D THEN g[k - 1] ELSE Append(g[k - 1], s[k])
            BY <3>1, <6>1
          <6> QED BY <6>1, <6>3, <6>4
        <5> QED BY <5>1, <5>2
      <4> HIDE DEF x
      <4>2. h = [k \in 0 .. n + 1 |-> h[k]]
        OBVIOUS
      <4> HIDE DEF h
      <4> QED BY <4>1, <4>2
    <3>3. n + 1 \in Nat
      BY SMTT(30)
    <3> HIDE DEF Rest, h
    <3> QED BY <3>2, <3>3
  <2> HIDE DEF Rest
  <2>3. T = Nat
    BY <2>1, <2>2, Induction
  <2> QED BY <2>3
<1>2. Rest(f, Len(s))
  BY <1>0, <1>1
<1>3. Event!Without(s, D) = f[Len(s)]
  BY DEF Event!Without
<1> DEFINE Good(n) == /\ f[n] \in Seq(S) /\ Distinct(f[n])
                      /\ Elems(f[n]) = {s[j] : j \in 1 .. n} \ D
<1>4. f[0] = <<>>
  <2>1. 0 \in 0 .. Len(s)
    BY <1>0, SMTT(30)
  <2> QED BY <1>2, <2>1
<1>5. \A k \in 1 .. Len(s) : f[k] = IF s[k] \in D THEN f[k - 1] ELSE Append(f[k - 1], s[k])
  <2> SUFFICES ASSUME NEW k \in 1 .. Len(s)
               PROVE  f[k] = IF s[k] \in D THEN f[k - 1] ELSE Append(f[k - 1], s[k])
    OBVIOUS
  <2>1. k \in 0 .. Len(s) /\ k # 0
    BY <1>0, SMTT(30)
  <2> QED BY <2>1, <1>2
<1> HIDE DEF f, Rest
<1>6. Good(0)
  BY <1>4, SMTT(30) DEF Distinct, Elems
<1>7. ASSUME NEW n \in Nat, n < Len(s), Good(n) PROVE Good(n + 1)
  <2>1. /\ n + 1 \in 1 .. Len(s) /\ (n + 1) - 1 = n /\ 1 .. n + 1 = (1 .. n) \cup {n + 1}
        /\ \A j \in 1 .. n : j \in 1 .. Len(s) /\ j # n + 1
    BY <1>0, <1>7, SMTT(30)
  <2>2. f[n + 1] = IF s[n + 1] \in D THEN f[n] ELSE Append(f[n], s[n + 1])
    BY <1>5, <2>1
  <2>3. s[n + 1] \in S /\ \A j \in 1 .. n : s[j] # s[n + 1]
    BY <1>0, <2>1 DEF Distinct
  <2>4. {s[j] : j \in 1 .. n + 1} = {s[j] : j \in 1 .. n} \cup {s[n + 1]}
    BY <2>1
  <2>5. CASE s[n + 1] \in D
    BY <1>7, <2>2, <2>4, <2>5
  <2>6. CASE s[n + 1] \notin D
    <3>1. s[n + 1] \notin Elems(f[n])
      BY <1>7, <2>3
    <3>2. f[n + 1] = Append(f[n], s[n + 1])
      BY <2>2, <2>6
    <3>3. /\ f[n + 1] \in Seq(S) /\ Distinct(f[n + 1])
          /\ Elems(f[n + 1]) = Elems(f[n]) \cup {s[n + 1]}
      <4>1. f[n] \in Seq(S) /\ Distinct(f[n])
        BY <1>7
      <4>2. /\ Append(f[n], s[n + 1]) \in Seq(S) /\ Distinct(Append(f[n], s[n + 1]))
            /\ Elems(Append(f[n], s[n + 1])) = Elems(f[n]) \cup {s[n + 1]}
        <5>1. \A x \in Seq(S), e \in S : Distinct(x) /\ e \notin Elems(x) =>
                  /\ Append(x, e) \in Seq(S) /\ Distinct(Append(x, e))
                  /\ Elems(Append(x, e)) = Elems(x) \cup {e}
          BY Appended, SMTT(30)
        <5> HIDE DEF Good
        <5> QED BY <2>3, <3>1, <4>1, <5>1
      <4> QED BY <3>2, <4>2
    <3> QED BY <1>7, <2>4, <2>6, <3>3
  <2> QED BY <2>5, <2>6
<1>8. Good(Len(s))
  <2> DEFINE T == {n \in Nat : n <= Len(s) => Good(n)}
  <2> HIDE DEF Good
  <2>1. 0 \in T
    BY <1>6
  <2>2. ASSUME NEW n \in T PROVE n + 1 \in T
    <3>1. n \in Nat /\ n + 1 \in Nat /\ (n + 1 <= Len(s) => n < Len(s) /\ n <= Len(s))
      BY <1>0, SMTT(30)
    <3> QED BY <1>7, <3>1
  <2>3. T = Nat
    <3> HIDE DEF T
    <3>1. T \in SUBSET Nat
      BY DEF T
    <3> QED BY <2>1, <2>2, <3>1, Induction
  <2>4. Len(s) \in T /\ Len(s) <= Len(s)
    BY <1>0, <2>3, SMTT(30)
  <2> QED BY <2>4
<1>9. Elems(s) = {s[j] : j \in 1 .. Len(s)}
  BY <1>0 DEF Elems
<1> QED BY <1>3, <1>8, <1>9
-----------------------------------------------------------------------------
(* async_event: the inductive invariant.                                   *)

Flag == {"no", "yes"}

EventTypes ==
    /\ event_alive \in {"yes", "dying", "no"} /\ set_ \in Flag /\ setting \in Flag
    /\ waiters_ \in Seq(Waiters) /\ claimed_by_set \in Seq(Waiters) /\ queue \in Seq(Waiters)
    /\ list_ \in [Waiters -> {"none", "event", "set"}]
    /\ st \in [Waiters -> {"new", "waiting", "posted", "done", "destroyed"}]
    /\ firing \subseteq Waiters

\* The lists hold whom the waiters say they hold, once.
EventLists ==
    /\ Distinct(waiters_) /\ Distinct(claimed_by_set) /\ Distinct(queue)
    /\ \A w \in Waiters :
           /\ st[w] = "posted" <=> w \in Elems(queue)
           /\ list_[w] = "event" <=> w \in Elems(waiters_)
           /\ list_[w] = "set" <=> w \in Elems(claimed_by_set)

\* What the flags of a waiter say of where it is.
EventFlags(w) ==
    /\ list_[w] # "none" => st[w] \in {"waiting", "posted"}
    /\ list_[w] = "set" => st[w] = "waiting" /\ w \in claimed
    /\ st[w] = "waiting" =>
           /\ set_ = "yes" => w \in claimed
           /\ w \in claimed => w \in firing \/ list_[w] = "set"
           /\ w \notin claimed => list_[w] = "event"
    /\ w \in firing => st[w] = "waiting" /\ w \in claimed /\ list_[w] # "set"
    /\ st[w] = "posted" => w \in claimed /\ (list_[w] # "none" => w \in canceled)
    /\ w \in active => st[w] \in {"waiting", "posted"}
    /\ st[w] = "new" => w \notin claimed /\ w \notin canceled
    /\ w \in got => st[w] = "done" /\ w \notin canceled

\* The event's list is empty when it is gone, that of set() when it has returned.
EventEnds ==
    /\ event_alive = "no" => waiters_ = <<>>
    /\ setting = "no" => claimed_by_set = <<>>

EventInv ==
    /\ EventTypes /\ EventLists /\ (\A w \in Waiters : EventFlags(w)) /\ EventEnds
    /\ got \subseteq Waiters

-----------------------------------------------------------------------------
(* async_event: what its steps have in common.                             *)

\* Nothing that a waiter's flags say changes.
SameWaiter(u) ==
    /\ st'[u] = st[u] /\ list_'[u] = list_[u]
    /\ u \in claimed' <=> u \in claimed
    /\ u \in canceled' <=> u \in canceled
    /\ u \in firing' <=> u \in firing
    /\ u \in active' <=> u \in active
    /\ u \in got' <=> u \in got

\* The flags of a waiter that nothing happens to.
LEMMA FlagsKept ==
  ASSUME NEW u \in Waiters, EventFlags(u), SameWaiter(u), set_' = set_ \/ set_' = "no"
  PROVE  EventFlags(u)'
  BY SMTT(30) DEF EventFlags, SameWaiter

\* The lists when no waiter moves.
LEMMA ListsKept ==
  ASSUME EventLists, UNCHANGED <<waiters_, claimed_by_set, queue>>,
         \A u \in Waiters : /\ list_'[u] = list_[u]
                            /\ st'[u] = "posted" <=> st[u] = "posted"
  PROVE  EventLists'
  BY DEF EventLists

\* A list that holds nobody is empty.
LEMMA Holding ==
  /\ Elems(<<>>) = {} /\ Distinct(<<>>)
  /\ \A s \in Seq(Waiters) : s = <<>> <=> Elems(s) = {}
<1>1. Elems(<<>>) = {} /\ Distinct(<<>>)
  BY SMTT(30) DEF Elems, Distinct
<1>2. ASSUME NEW s \in Seq(Waiters), s # <<>> PROVE Elems(s) # {}
  <2>1. 1 \in DOMAIN s
    BY <1>2, SMTT(30)
  <2> QED BY <2>1 DEF Elems
<1> QED BY <1>1, <1>2

\* One waiter is linked or unlinked.
LEMMA Relinked ==
  ASSUME EventTypes, NEW w \in Waiters, NEW l \in {"none", "event", "set"},
         Event!Relink({w}, l)
  PROVE  /\ list_' \in [Waiters -> {"none", "event", "set"}]
         /\ list_'[w] = l /\ \A u \in Waiters \ {w} : list_'[u] = list_[u]
<1>1. list_' = [u \in Waiters |-> IF u \in {w} THEN l ELSE list_[u]]
  BY DEF Event!Relink
<1>2. \A u \in Waiters : list_[u] \in {"none", "event", "set"}
  BY DEF EventTypes
<1>3. list_' \in [Waiters -> {"none", "event", "set"}]
  BY <1>1, <1>2
<1> QED BY <1>1, <1>3

\* One waiter goes somewhere.
LEMMA Gone ==
  ASSUME EventTypes, NEW w \in Waiters,
         NEW l \in {"new", "waiting", "posted", "done", "destroyed"}, Event!Goto(w, l)
  PROVE  /\ st' \in [Waiters -> {"new", "waiting", "posted", "done", "destroyed"}]
         /\ st'[w] = l /\ \A u \in Waiters \ {w} : st'[u] = st[u]
  BY DEF EventTypes, Event!Goto

\* The frames of D are destroyed, none of them about to be posted by a stop callback.
LEMMA FramesDestroyed ==
  ASSUME EventInv, NEW D \in SUBSET Waiters, Event!destroy_frames(D)
  PROVE  /\ waiters_' \in Seq(Waiters) /\ claimed_by_set' \in Seq(Waiters)
         /\ Distinct(waiters_)' /\ Distinct(claimed_by_set)'
         /\ Elems(waiters_)' = Elems(waiters_) \ D
         /\ Elems(claimed_by_set)' = Elems(claimed_by_set) \ D
         /\ list_' \in [Waiters -> {"none", "event", "set"}]
         /\ st' \in [Waiters -> {"new", "waiting", "posted", "done", "destroyed"}]
         /\ \A u \in D : list_'[u] = "none" /\ st'[u] = "destroyed"
         /\ \A u \in Waiters \ D : list_'[u] = list_[u] /\ st'[u] = st[u]
         /\ active' = active \ D
<1>1. waiters_' = Event!Without(waiters_, D) /\ claimed_by_set' = Event!Without(claimed_by_set, D)
  BY DEF Event!destroy_frames
<1>2. /\ waiters_ \in Seq(Waiters) /\ claimed_by_set \in Seq(Waiters)
      /\ Distinct(waiters_) /\ Distinct(claimed_by_set)
  BY DEF EventInv, EventTypes, EventLists
<1>3. /\ waiters_' \in Seq(Waiters) /\ Distinct(waiters_')
      /\ Elems(waiters_') = Elems(waiters_) \ D
  BY <1>1, <1>2, Filtered
<1>4. /\ claimed_by_set' \in Seq(Waiters) /\ Distinct(claimed_by_set')
      /\ Elems(claimed_by_set') = Elems(claimed_by_set) \ D
  BY <1>1, <1>2, Filtered
<1>5. /\ list_' = [u \in Waiters |-> IF u \in D THEN "none" ELSE list_[u]]
      /\ st' = [u \in Waiters |-> IF u \in D THEN "destroyed" ELSE st[u]]
      /\ active' = active \ D
  BY DEF Event!destroy_frames, Event!Relink
<1>6. \A u \in Waiters : /\ list_[u] \in {"none", "event", "set"}
                         /\ st[u] \in {"new", "waiting", "posted", "done", "destroyed"}
  BY DEF EventInv, EventTypes
<1>7. list_' \in [Waiters -> {"none", "event", "set"}]
  BY <1>5, <1>6
<1>8. st' \in [Waiters -> {"new", "waiting", "posted", "done", "destroyed"}]
  BY <1>5, <1>6
<1> QED BY <1>3, <1>4, <1>5, <1>7, <1>8

\* So the flags of all agree with where they are.
LEMMA DestroyedFlags ==
  ASSUME EventInv, NEW D \in SUBSET Waiters, Event!destroy_frames(D),
         D \cap firing = {}, \A u \in D : st[u] \in {"waiting", "posted"},
         set_' = set_, firing' = firing, got' = got,
         \A u \in Waiters \ D : /\ u \in claimed' <=> u \in claimed
                                /\ u \in canceled' <=> u \in canceled
  PROVE  \A u \in Waiters : EventFlags(u)'
<1> SUFFICES ASSUME NEW u \in Waiters PROVE EventFlags(u)'
  OBVIOUS
<1>1. EventFlags(u)
  BY DEF EventInv
<1>2. CASE u \in D
  <2>1. list_'[u] = "none" /\ st'[u] = "destroyed" /\ u \notin active'
    <3>1. active' = active \ D /\ \A v \in D : list_'[v] = "none" /\ st'[v] = "destroyed"
      BY FramesDestroyed
    <3> QED BY <1>2, <3>1
  <2>2. u \notin firing' /\ u \notin got'
    <3>1. st[u] # "done"
      BY <1>2
    <3> QED BY <1>1, <1>2, <3>1 DEF EventFlags
  <2> QED BY <2>1, <2>2 DEF EventFlags
<1>3. CASE u \notin D
  <2>1. list_'[u] = list_[u] /\ st'[u] = st[u] /\ active' = active \ D
    BY <1>3, FramesDestroyed
  <2>2. SameWaiter(u)
    BY <1>3, <2>1 DEF SameWaiter
  <2> QED BY <1>1, <2>2, FlagsKept
<1> QED BY <1>2, <1>3

-----------------------------------------------------------------------------
(* async_event: one lemma per action.                                      *)

\* A new event has no waiters.
LEMMA EventBegins == Event!Init => EventInv
<1> SUFFICES ASSUME Event!Init PROVE EventInv
  OBVIOUS
<1>1. EventTypes
  <2>1. <<>> \in Seq(Waiters)
    BY SMTT(30)
  <2> QED BY <2>1 DEF Event!Init, EventTypes, Flag
<1>2. Elems(<<>>) = {} /\ Distinct(<<>>)
  BY SMTT(30) DEF Elems, Distinct
<1>3. EventLists
  BY <1>2 DEF Event!Init, EventLists
<1>4. \A w \in Waiters : EventFlags(w)
  BY DEF Event!Init, EventFlags
<1> QED BY <1>1, <1>3, <1>4 DEF EventInv, EventEnds, Event!Init

\* await_suspend() links the waiter, or finds the event set or the stop requested.
LEMMA WaitStep ==
  ASSUME EventInv, NEW w \in Waiters, Event!wait(w)
  PROVE  EventInv'
<1> USE DEF EventInv
<1>0. /\ st[w] = "new" /\ event_alive = "yes" /\ UNCHANGED <<event_alive, set_, setting>>
      /\ UNCHANGED <<claimed_by_set, claimed, queue, stopped, fired, firing>>
  BY DEF Event!wait, Event!event_vars, Event!stop_vars
<1>1. EventFlags(w) /\ w \notin claimed /\ w \notin canceled /\ w \notin firing /\ w \notin active
      /\ w \notin got /\ list_[w] = "none"
  <2>1. EventFlags(w) /\ list_[w] \in {"none", "event", "set"}
    BY DEF EventTypes
  <2> QED BY <1>0, <2>1 DEF EventFlags
<1>2. w \notin Elems(waiters_)
  BY <1>1 DEF EventLists
<1>3. CASE /\ Event!Goto(w, "done") /\ got' \in {got, got \cup {w}}
           /\ canceled' \in {canceled, canceled \cup {w}}
           /\ ~(w \in got' /\ w \in canceled')
           /\ UNCHANGED <<waiters_, list_, active>>
  <2>1. /\ st' \in [Waiters -> {"new", "waiting", "posted", "done", "destroyed"}]
        /\ st'[w] = "done" /\ \A u \in Waiters \ {w} : st'[u] = st[u]
    BY <1>3, Gone
  <2>2. EventTypes'
    BY <1>0, <1>3, <2>1 DEF EventTypes
  <2>3. EventLists'
    <3>1. \A u \in Waiters : st'[u] = "posted" <=> st[u] = "posted"
      BY <1>0, <2>1
    <3>2. list_' = list_
      BY <1>3
    <3> QED BY <1>0, <1>3, <3>1, <3>2, ListsKept
  <2>4. \A u \in Waiters \ {w} : SameWaiter(u)
    BY <1>0, <1>3, <2>1 DEF SameWaiter
  <2>5. EventFlags(w)'
    BY <1>0, <1>1, <1>3, <2>1, SMTT(30) DEF EventFlags
  <2>6. \A u \in Waiters : EventFlags(u)'
    BY <1>0, <2>4, <2>5, FlagsKept
  <2> QED BY <1>0, <1>3, <2>2, <2>3, <2>6 DEF EventEnds
<1>4. CASE /\ set_ = "no" /\ waiters_' = Append(waiters_, w) /\ Event!Relink({w}, "event")
           /\ active' = active \cup {w} /\ Event!Goto(w, "waiting")
           /\ UNCHANGED <<canceled, got, refused>>
  <2>1. /\ st' \in [Waiters -> {"new", "waiting", "posted", "done", "destroyed"}]
        /\ st'[w] = "waiting" /\ \A u \in Waiters \ {w} : st'[u] = st[u]
    BY <1>4, Gone
  <2>2. /\ list_' \in [Waiters -> {"none", "event", "set"}]
        /\ list_'[w] = "event" /\ \A u \in Waiters \ {w} : list_'[u] = list_[u]
    BY <1>4, Relinked
  <2>3. /\ waiters_' \in Seq(Waiters) /\ Elems(waiters_') = Elems(waiters_) \cup {w}
        /\ Distinct(waiters_')
    <3>1. waiters_ \in Seq(Waiters) /\ Distinct(waiters_) /\ waiters_' = Append(waiters_, w)
      BY <1>4 DEF EventTypes, EventLists
    <3> QED BY <1>2, <3>1, Appended, SMTT(30)
  <2>4. EventTypes'
    BY <1>0, <2>1, <2>2, <2>3 DEF EventTypes
  <2>5. EventLists'
    <3>1. \A u \in Waiters : st'[u] = "posted" <=> st[u] = "posted"
      BY <1>0, <2>1
    <3>2. \A u \in Waiters : /\ list_'[u] = "event" <=> list_[u] = "event" \/ u = w
                             /\ list_'[u] = "set" <=> list_[u] = "set"
      BY <1>1, <2>2
    <3> QED BY <1>0, <2>3, <3>1, <3>2 DEF EventLists
  <2>6. \A u \in Waiters \ {w} : SameWaiter(u)
    BY <1>0, <1>4, <2>1, <2>2 DEF SameWaiter
  <2>7. EventFlags(w)'
    BY <1>0, <1>1, <1>4, <2>1, <2>2, SMTT(30) DEF EventFlags
  <2>8. \A u \in Waiters : EventFlags(u)'
    BY <1>0, <2>6, <2>7, FlagsKept
  <2> QED BY <1>0, <1>4, <2>4, <2>5, <2>8 DEF EventEnds
<1> QED BY <1>1, <1>3, <1>4 DEF Event!wait

\* await_resume(), when the executor runs a posted waiter.
LEMMA ResumeStep ==
  ASSUME EventInv, NEW w \in Waiters, Event!await_resume(w)
  PROVE  EventInv'
<1> USE DEF EventInv
<1>0. /\ st[w] = "posted" /\ Head(queue) = w /\ queue' = Tail(queue)
      /\ active' = active \ {w} /\ Event!Goto(w, "done")
      /\ UNCHANGED <<event_alive, set_, setting, claimed_by_set, claimed, canceled, firing>>
  BY DEF Event!await_resume, Event!event_vars, Event!stop_vars
<1>1. /\ EventFlags(w) /\ queue \in Seq(Waiters) /\ Distinct(queue) /\ w \in Elems(queue)
      /\ waiters_ \in Seq(Waiters) /\ Distinct(waiters_) /\ claimed_by_set' = claimed_by_set
  BY <1>0 DEF EventTypes, EventLists
<1>2. w \notin firing /\ w \in claimed /\ w \notin got /\ list_[w] # "set"
  BY <1>0, <1>1 DEF EventFlags
<1>3. /\ st' \in [Waiters -> {"new", "waiting", "posted", "done", "destroyed"}]
      /\ st'[w] = "done" /\ \A u \in Waiters \ {w} : st'[u] = st[u]
  BY <1>0, Gone
<1>4. /\ queue' \in Seq(Waiters) /\ Distinct(queue') /\ Elems(queue') = Elems(queue) \ {w}
  <2>1. queue # <<>>
    BY <1>1, Holding
  <2>2. /\ Tail(queue) \in Seq(Waiters) /\ Distinct(Tail(queue))
        /\ Elems(queue) = Elems(Tail(queue)) \cup {Head(queue)}
        /\ Head(queue) \notin Elems(Tail(queue))
    BY <1>1, <2>1, Popped
  <2> QED BY <1>0, <2>2
<1>5. \A u \in Waiters : st'[u] = "posted" <=> u \in Elems(queue')
  BY <1>3, <1>4 DEF EventLists
<1>6. CASE /\ w \in canceled /\ waiters_' = Event!Without(waiters_, {w})
           /\ Event!Relink({w}, "none") /\ UNCHANGED got
  <2>1. /\ list_' \in [Waiters -> {"none", "event", "set"}]
        /\ list_'[w] = "none" /\ \A u \in Waiters \ {w} : list_'[u] = list_[u]
    BY <1>6, Relinked
  <2>2. /\ waiters_' \in Seq(Waiters) /\ Distinct(waiters_')
        /\ Elems(waiters_') = Elems(waiters_) \ {w}
    BY <1>1, <1>6, Filtered
  <2>3. EventTypes'
    BY <1>0, <1>3, <1>4, <2>1, <2>2 DEF EventTypes
  <2>4. EventLists'
    <3>1. \A u \in Waiters : /\ list_'[u] = "event" <=> u \in Elems(waiters_')
                             /\ list_'[u] = "set" <=> u \in Elems(claimed_by_set')
      <4>1. \A u \in Waiters : /\ list_'[u] = "event" <=> list_[u] = "event" /\ u # w
                               /\ list_'[u] = "set" <=> list_[u] = "set"
        BY <1>2, <2>1
      <4>2. \A u \in Waiters : /\ list_[u] = "event" <=> u \in Elems(waiters_)
                               /\ list_[u] = "set" <=> u \in Elems(claimed_by_set)
        BY DEF EventLists
      <4> QED BY <1>1, <2>2, <4>1, <4>2
    <3>2. Distinct(claimed_by_set')
      BY <1>1 DEF EventLists
    <3> QED BY <1>4, <1>5, <2>2, <3>1, <3>2 DEF EventLists
  <2>5. EventFlags(w)'
    BY <1>0, <1>1, <1>2, <1>3, <1>6, <2>1 DEF EventFlags
  <2>6. \A u \in Waiters \ {w} : SameWaiter(u)
    BY <1>0, <1>3, <1>6, <2>1 DEF SameWaiter
  <2>7. \A u \in Waiters : EventFlags(u)'
    BY <1>0, <2>5, <2>6, FlagsKept
  <2>8. EventEnds'
    <3>1. event_alive' = "no" => waiters_' = <<>>
      <4> SUFFICES ASSUME event_alive' = "no" PROVE waiters_' = <<>>
        OBVIOUS
      <4>1. waiters_ = <<>> /\ Elems(<<>>) = {}
        BY <1>0, Holding DEF EventEnds
      <4>2. Elems(waiters_') = {}
        BY <2>2, <4>1
      <4> QED BY <2>2, <4>2, Holding
    <3> QED BY <1>0, <1>1, <3>1 DEF EventEnds
  <2> QED BY <1>6, <2>3, <2>4, <2>7, <2>8
<1>7. CASE w \notin canceled /\ got' = got \cup {w} /\ UNCHANGED <<waiters_, list_>>
  <2>1. EventTypes'
    BY <1>0, <1>3, <1>4, <1>7 DEF EventTypes
  <2>2. EventLists'
    BY <1>1, <1>4, <1>5, <1>7 DEF EventLists
  <2>3. EventFlags(w)'
    BY <1>0, <1>1, <1>2, <1>3, <1>7 DEF EventFlags
  <2>4. \A u \in Waiters \ {w} : SameWaiter(u)
    BY <1>0, <1>3, <1>7 DEF SameWaiter
  <2>5. \A u \in Waiters : EventFlags(u)'
    BY <1>0, <2>3, <2>4, FlagsKept
  <2> QED BY <1>0, <1>7, <2>1, <2>2, <2>5 DEF EventEnds
<1> QED BY <1>6, <1>7 DEF Event!await_resume

\* A stop callback claims its waiter, or comes too late.
LEMMA CancelClaims ==
  ASSUME EventInv, NEW w \in Waiters, Event!cancel_claim(w)
  PROVE  EventInv'
<1> USE DEF EventInv
<1>0. /\ w \in active /\ claimed' = claimed \cup {w}
      /\ firing' = (IF w \in claimed THEN firing ELSE firing \cup {w})
      /\ UNCHANGED <<event_alive, set_, setting, waiters_, claimed_by_set, list_, canceled,
                     active, st, queue, got, refused>>
  BY DEF Event!cancel_claim, Event!event_vars, Event!lists, Event!result_vars
<1>1. EventFlags(w) /\ st[w] \in {"waiting", "posted"}
  BY <1>0 DEF EventFlags
<1>2. EventTypes'
  BY <1>0 DEF EventTypes
<1>3. EventLists'
  BY <1>0, ListsKept
<1>4. EventFlags(w)'
  BY <1>0, <1>1, SMTT(30) DEF EventFlags
<1>5. \A u \in Waiters \ {w} : SameWaiter(u)
  BY <1>0 DEF SameWaiter
<1>6. \A u \in Waiters : EventFlags(u)'
  BY <1>0, <1>4, <1>5, FlagsKept
<1> QED BY <1>0, <1>2, <1>3, <1>6 DEF EventEnds

\* A stop callback that has claimed its waiter unlinks and posts it.
LEMMA CancelPosts ==
  ASSUME EventInv, NEW w \in Waiters, Event!cancel_post(w)
  PROVE  EventInv'
<1> USE DEF EventInv
<1>0. /\ w \in firing /\ firing' = firing \ {w} /\ canceled' = canceled \cup {w}
      /\ Event!Goto(w, "posted") /\ queue' = Append(queue, w)
      /\ UNCHANGED <<event_alive, set_, setting, waiters_, claimed_by_set, list_, claimed,
                     active, got, refused>>
  BY DEF Event!cancel_post, Event!event_vars, Event!lists, Event!result_vars
<1>1. EventFlags(w) /\ st[w] = "waiting" /\ w \in claimed /\ list_[w] # "set" /\ w \notin got
  BY <1>0 DEF EventFlags
<1>2. /\ st' \in [Waiters -> {"new", "waiting", "posted", "done", "destroyed"}]
      /\ st'[w] = "posted" /\ \A u \in Waiters \ {w} : st'[u] = st[u]
  BY <1>0, Gone
<1>3. queue' \in Seq(Waiters) /\ Distinct(queue') /\ Elems(queue') = Elems(queue) \cup {w}
  <2>1. queue \in Seq(Waiters) /\ Distinct(queue) /\ w \notin Elems(queue)
    BY <1>1 DEF EventTypes, EventLists
  <2>2. queue' = Append(queue, w)
    BY <1>0
  <2> QED BY <2>1, <2>2, Appended, SMTT(30)
<1>4. EventTypes'
  BY <1>0, <1>2, <1>3 DEF EventTypes
<1>5. EventLists'
  <2>1. \A u \in Waiters : st'[u] = "posted" <=> u \in Elems(queue')
    BY <1>2, <1>3 DEF EventLists
  <2> QED BY <1>0, <1>3, <2>1 DEF EventLists
<1>6. EventFlags(w)'
  BY <1>0, <1>1, <1>2, SMTT(30) DEF EventFlags
<1>7. \A u \in Waiters \ {w} : SameWaiter(u)
  BY <1>0, <1>2 DEF SameWaiter
<1>8. \A u \in Waiters : EventFlags(u)'
  BY <1>0, <1>6, <1>7, FlagsKept
<1> QED BY <1>0, <1>4, <1>5, <1>8 DEF EventEnds

\* Whom an unwinding may take with it is suspended, and not about to be posted.
LEMMA MayBeDestroyed ==
  ASSUME EventInv, NEW u \in Event!Destroyable
  PROVE  u \in Waiters /\ st[u] = "waiting" /\ u \notin firing
<1>1. u \in Waiters /\ st[u] = "waiting" /\ (u \in claimed => list_[u] = "set")
  BY DEF Event!Destroyable
<1>2. EventFlags(u)
  BY <1>1 DEF EventInv
<1> QED BY <1>1, <1>2 DEF EventFlags

\* Frames go while the executor's queue stays as it is, or loses them.
LEMMA FramesStep ==
  ASSUME EventInv, NEW D \in SUBSET Waiters, Event!destroy_frames(D),
         D \cap firing = {}, \A u \in D : st[u] \in {"waiting", "posted"},
         UNCHANGED <<set_, setting, firing, got>>, event_alive' \in {event_alive, "dying"},
         \A u \in Waiters \ D : /\ u \in claimed' <=> u \in claimed
                                /\ u \in canceled' <=> u \in canceled,
         queue' \in Seq(Waiters), Distinct(queue'), Elems(queue') = Elems(queue) \ D
  PROVE  EventInv'
<1> USE DEF EventInv
<1>1. /\ waiters_' \in Seq(Waiters) /\ claimed_by_set' \in Seq(Waiters)
      /\ Distinct(waiters_') /\ Distinct(claimed_by_set')
      /\ Elems(waiters_') = Elems(waiters_) \ D
      /\ Elems(claimed_by_set') = Elems(claimed_by_set) \ D
      /\ list_' \in [Waiters -> {"none", "event", "set"}]
      /\ st' \in [Waiters -> {"new", "waiting", "posted", "done", "destroyed"}]
      /\ \A u \in D : list_'[u] = "none" /\ st'[u] = "destroyed"
      /\ \A u \in Waiters \ D : list_'[u] = list_[u] /\ st'[u] = st[u]
  BY FramesDestroyed
<1>2. EventTypes'
  BY <1>1 DEF EventTypes
<1>3. EventLists'
  <2>1. ASSUME NEW u \in Waiters
        PROVE  /\ st'[u] = "posted" <=> u \in Elems(queue')
               /\ list_'[u] = "event" <=> u \in Elems(waiters_')
               /\ list_'[u] = "set" <=> u \in Elems(claimed_by_set')
    <3>1. CASE u \in D
      <4>1. list_'[u] = "none" /\ st'[u] = "destroyed"
        BY <1>1, <3>1
      <4> QED BY <1>1, <3>1, <4>1
    <3>2. CASE u \notin D
      <4>1. list_'[u] = list_[u] /\ st'[u] = st[u]
        BY <1>1, <3>2
      <4>2. /\ st[u] = "posted" <=> u \in Elems(queue)
            /\ list_[u] = "event" <=> u \in Elems(waiters_)
            /\ list_[u] = "set" <=> u \in Elems(claimed_by_set)
        BY DEF EventLists
      <4>3. /\ u \in Elems(queue') <=> u \in Elems(queue)
            /\ u \in Elems(waiters_') <=> u \in Elems(waiters_)
            /\ u \in Elems(claimed_by_set') <=> u \in Elems(claimed_by_set)
        BY <1>1, <3>2
      <4> QED BY <4>1, <4>2, <4>3
    <3> QED BY <3>1, <3>2
  <2> QED BY <1>1, <2>1 DEF EventLists
<1>4. \A u \in Waiters : EventFlags(u)'
  BY DestroyedFlags
<1>5. EventEnds'
  <2>1. event_alive' = "no" => waiters_' = <<>>
    <3> SUFFICES ASSUME event_alive' = "no" PROVE waiters_' = <<>>
      OBVIOUS
    <3>1. event_alive = "no" /\ waiters_ = <<>>
      BY DEF EventEnds
    <3>2. Elems(waiters_') = {}
      BY <1>1, <3>1, Holding
    <3> QED BY <1>1, <3>2, Holding
  <2>2. setting' = "no" => claimed_by_set' = <<>>
    <3> SUFFICES ASSUME setting' = "no" PROVE claimed_by_set' = <<>>
      OBVIOUS
    <3>1. claimed_by_set = <<>>
      BY DEF EventEnds
    <3>2. Elems(claimed_by_set') = {}
      BY <1>1, <3>1, Holding
    <3> QED BY <1>1, <3>2, Holding
  <2> QED BY <2>1, <2>2 DEF EventEnds
<1> QED BY <1>2, <1>3, <1>4, <1>5

\* The frames of waiting coroutines are destroyed.
LEMMA DestroyStep ==
  ASSUME EventInv, NEW w \in Waiters, Event!destroy(w)
  PROVE  EventInv'
<1>1. /\ w \in Event!Destroyable \/ st[w] = "posted"
      /\ Event!destroy_frames({w}) /\ queue' = Event!Without(queue, {w})
      /\ UNCHANGED <<event_alive, set_, setting, claimed, canceled, firing, got>>
  BY DEF Event!destroy, Event!event_vars, Event!stop_vars, Event!result_vars
<1>2. st[w] \in {"waiting", "posted"} /\ w \notin firing
  <2>1. CASE w \in Event!Destroyable
    BY <2>1, MayBeDestroyed
  <2>2. CASE st[w] = "posted"
    BY <2>2 DEF EventInv, EventFlags
  <2> QED BY <1>1, <2>1, <2>2
<1>3. queue' \in Seq(Waiters) /\ Distinct(queue') /\ Elems(queue') = Elems(queue) \ {w}
  <2>1. queue \in Seq(Waiters) /\ Distinct(queue)
    BY DEF EventInv, EventTypes, EventLists
  <2> QED BY <1>1, <2>1, Filtered
<1>4. PICK D : D = {w}
  OBVIOUS
<1>5. /\ D \in SUBSET Waiters /\ Event!destroy_frames(D) /\ D \cap firing = {}
      /\ \A u \in D : st[u] \in {"waiting", "posted"}
      /\ Elems(queue') = Elems(queue) \ D
  BY <1>1, <1>2, <1>3, <1>4
<1> HIDE <1>4
<1> QED BY <1>1, <1>3, <1>5, FramesStep

\* The first of a list, and what a pop leaves.
LEMMA FirstOf ==
  ASSUME EventInv
  PROVE  /\ waiters_ # <<>> =>
                /\ Head(waiters_) \in Waiters /\ list_[Head(waiters_)] = "event"
                /\ Tail(waiters_) \in Seq(Waiters) /\ Distinct(Tail(waiters_))
                /\ Elems(Tail(waiters_)) = Elems(waiters_) \ {Head(waiters_)}
         /\ claimed_by_set # <<>> =>
                /\ Head(claimed_by_set) \in Waiters /\ list_[Head(claimed_by_set)] = "set"
                /\ Tail(claimed_by_set) \in Seq(Waiters) /\ Distinct(Tail(claimed_by_set))
                /\ Elems(Tail(claimed_by_set)) = Elems(claimed_by_set) \ {Head(claimed_by_set)}
<1>1. /\ waiters_ \in Seq(Waiters) /\ Distinct(waiters_)
      /\ claimed_by_set \in Seq(Waiters) /\ Distinct(claimed_by_set)
      /\ \A w \in Waiters : /\ list_[w] = "event" <=> w \in Elems(waiters_)
                            /\ list_[w] = "set" <=> w \in Elems(claimed_by_set)
  BY DEF EventInv, EventTypes, EventLists
<1>2. ASSUME NEW s \in Seq(Waiters), Distinct(s), s # <<>>
      PROVE  /\ Head(s) \in Waiters /\ Head(s) \in Elems(s)
             /\ Tail(s) \in Seq(Waiters) /\ Distinct(Tail(s))
             /\ Elems(Tail(s)) = Elems(s) \ {Head(s)}
  <2>1. /\ Head(s) \in Waiters /\ Head(s) \in Elems(s) /\ Tail(s) \in Seq(Waiters)
        /\ Elems(s) = Elems(Tail(s)) \cup {Head(s)}
        /\ Distinct(Tail(s)) /\ Head(s) \notin Elems(Tail(s))
    BY <1>2, Popped
  <2> QED BY <2>1
<1> QED BY <1>1, <1>2

\* set() claims all the waiters.
LEMMA SetStep ==
  ASSUME EventInv, Event!set
  PROVE  EventInv'
<1> USE DEF EventInv
<1>0. /\ event_alive = "yes" /\ setting = "no" /\ set_' = "yes" /\ setting' = "yes"
      /\ claimed_by_set' = Event!Without(waiters_, claimed)
      /\ claimed' = claimed \cup Elems(waiters_) /\ waiters_' = <<>>
      /\ list_' = [w \in Waiters |-> IF list_[w] # "event" THEN list_[w]
                                     ELSE IF w \in claimed THEN "none" ELSE "set"]
      /\ UNCHANGED <<event_alive, canceled, active, st, queue, firing, got>>
  BY DEF Event!set, Event!Free, Event!claim_all, Event!Range, Elems, Event!stop_vars,
         Event!result_vars
<1>1. /\ waiters_ \in Seq(Waiters) /\ Distinct(waiters_) /\ claimed_by_set = <<>>
  BY <1>0 DEF EventTypes, EventLists, EventEnds
<1>2. /\ claimed_by_set' \in Seq(Waiters) /\ Distinct(claimed_by_set')
      /\ Elems(claimed_by_set') = Elems(waiters_) \ claimed
  BY <1>0, <1>1, Filtered
<1>3. \A u \in Waiters : list_[u] \in {"none", "event", "set"} /\ list_[u] # "set"
  BY <1>1, Holding DEF EventTypes, EventLists
<1>4. \A u \in Waiters : u \in Elems(waiters_) <=> list_[u] = "event"
  BY DEF EventLists
<1>5. \A u \in Waiters :
          list_'[u] = IF list_[u] = "event" /\ u \notin claimed THEN "set" ELSE "none"
  BY <1>0, <1>3
<1>6. EventTypes'
  <2>1. list_' \in [Waiters -> {"none", "event", "set"}]
    BY <1>0, <1>3
  <2>2. waiters_' \in Seq(Waiters)
    BY <1>0, SMTT(30)
  <2> QED BY <1>0, <1>2, <2>1, <2>2 DEF EventTypes, Flag
<1>7. EventLists'
  <2>1. Distinct(waiters_') /\ Elems(waiters_') = {}
    BY <1>0, Holding
  <2>2. \A u \in Waiters : /\ list_'[u] = "event" <=> u \in Elems(waiters_')
                           /\ list_'[u] = "set" <=> u \in Elems(claimed_by_set')
    BY <1>2, <1>4, <1>5, <2>1
  <2> QED BY <1>0, <1>2, <2>1, <2>2 DEF EventLists
<1>8. ASSUME NEW u \in Waiters PROVE EventFlags(u)'
  <2>1. EventFlags(u) /\ list_[u] # "set"
    BY <1>3
  <2>2. u \in claimed' <=> u \in claimed \/ list_[u] = "event"
    BY <1>0, <1>4
  <2>3. list_'[u] = IF list_[u] = "event" /\ u \notin claimed THEN "set" ELSE "none"
    BY <1>5
  <2> QED BY <1>0, <2>1, <2>2, <2>3, SMTT(30) DEF EventFlags
<1> QED BY <1>0, <1>6, <1>7, <1>8 DEF EventEnds

\* set() posts the first of those that it claimed.
LEMMA SetPosts ==
  ASSUME EventInv, Event!set_post
  PROVE  EventInv'
<1> USE DEF EventInv
<1>0. /\ setting = "yes" /\ claimed_by_set # <<>> /\ claimed_by_set' = Tail(claimed_by_set)
      /\ UNCHANGED <<event_alive, set_, setting, waiters_, claimed, canceled, active, firing,
                     got>>
  BY DEF Event!set_post, Event!event_vars, Event!stop_vars, Event!result_vars
<1>1. PICK w \in Waiters : w = Head(claimed_by_set)
  BY <1>0, FirstOf
<1>2. /\ Event!Goto(w, "posted") /\ queue' = Append(queue, w) /\ Event!Relink({w}, "none")
  BY <1>1 DEF Event!set_post
<1>3. /\ list_[w] = "set" /\ claimed_by_set' \in Seq(Waiters) /\ Distinct(claimed_by_set')
      /\ Elems(claimed_by_set') = Elems(claimed_by_set) \ {w}
  BY <1>0, <1>1, FirstOf
<1>4. /\ EventFlags(w) /\ st[w] = "waiting" /\ w \in claimed /\ w \notin firing /\ w \notin got
  BY <1>3 DEF EventFlags
<1> HIDE <1>1
<1>5. /\ st' \in [Waiters -> {"new", "waiting", "posted", "done", "destroyed"}]
      /\ st'[w] = "posted" /\ \A u \in Waiters \ {w} : st'[u] = st[u]
  BY <1>2, Gone
<1>6. /\ list_' \in [Waiters -> {"none", "event", "set"}]
      /\ list_'[w] = "none" /\ \A u \in Waiters \ {w} : list_'[u] = list_[u]
  BY <1>2, Relinked
<1>7. queue' \in Seq(Waiters) /\ Distinct(queue') /\ Elems(queue') = Elems(queue) \cup {w}
  <2>1. queue \in Seq(Waiters) /\ Distinct(queue) /\ w \notin Elems(queue)
    BY <1>4 DEF EventTypes, EventLists
  <2>2. queue' = Append(queue, w)
    BY <1>2
  <2> QED BY <2>1, <2>2, Appended, SMTT(30)
<1>8. EventTypes'
  BY <1>0, <1>3, <1>5, <1>6, <1>7 DEF EventTypes
<1>9. EventLists'
  <2>1. \A u \in Waiters : st'[u] = "posted" <=> u \in Elems(queue')
    BY <1>5, <1>7 DEF EventLists
  <2>2. \A u \in Waiters : list_'[u] = "event" <=> u \in Elems(waiters_')
    BY <1>0, <1>3, <1>6 DEF EventLists
  <2>3. \A u \in Waiters : list_'[u] = "set" <=> u \in Elems(claimed_by_set')
    BY <1>3, <1>6 DEF EventLists
  <2> QED BY <1>0, <1>3, <1>7, <2>1, <2>2, <2>3 DEF EventLists
<1>10. EventFlags(w)'
  BY <1>0, <1>4, <1>5, <1>6, SMTT(30) DEF EventFlags
<1>11. \A u \in Waiters \ {w} : SameWaiter(u)
  BY <1>0, <1>5, <1>6 DEF SameWaiter
<1>12. \A u \in Waiters : EventFlags(u)'
  BY <1>0, <1>10, <1>11, FlagsKept
<1> QED BY <1>0, <1>8, <1>9, <1>12 DEF EventEnds

\* The executor refuses that one, and its frames go.
LEMMA SetAbandons ==
  ASSUME EventInv, Event!set_abandoned
  PROVE  EventInv'
<1>0. /\ claimed_by_set # <<>> /\ event_alive' \in {event_alive, "dying"}
      /\ UNCHANGED <<set_, setting, claimed, canceled, queue, firing, got>>
  BY DEF Event!set_abandoned, Event!stop_vars, Event!result_vars
<1>1. PICK D \in SUBSET (Event!Destroyable \ {Head(claimed_by_set)}) :
          Event!destroy_frames(D \cup {Head(claimed_by_set)})
  BY DEF Event!set_abandoned
<1>2. Head(claimed_by_set) \in Waiters /\ list_[Head(claimed_by_set)] = "set"
  BY <1>0, FirstOf
<1>3. PICK E : E = D \cup {Head(claimed_by_set)}
  OBVIOUS
<1>4. \A u \in E : u \in Waiters /\ st[u] = "waiting" /\ u \notin firing
  <2>1. \A u \in D : u \in Event!Destroyable
    BY <1>1
  <2>2. /\ st[Head(claimed_by_set)] = "waiting" /\ Head(claimed_by_set) \notin firing
    BY <1>2 DEF EventInv, EventFlags
  <2> QED BY <1>2, <1>3, <2>1, <2>2, MayBeDestroyed
<1>5. Event!destroy_frames(E)
  BY <1>1, <1>3
<1>6. /\ queue' \in Seq(Waiters) /\ Distinct(queue') /\ Elems(queue') = Elems(queue) \ E
  <2>1. queue \in Seq(Waiters) /\ Distinct(queue) /\ queue' = queue
    BY <1>0 DEF EventInv, EventTypes, EventLists
  <2>2. \A u \in E : u \notin Elems(queue)
    BY <1>4 DEF EventInv, EventLists
  <2> QED BY <2>1, <2>2
<1> HIDE <1>3
<1>7. E \in SUBSET Waiters /\ E \cap firing = {} /\ \A u \in E : st[u] \in {"waiting", "posted"}
  BY <1>4
<1> QED BY <1>0, <1>5, <1>6, <1>7, FramesStep

\* ~async_event takes the next waiter.
LEMMA DestroyPops ==
  ASSUME EventInv, Event!destroy_pop
  PROVE  EventInv'
<1>0. /\ event_alive = "dying" /\ waiters_ # <<>>
      /\ UNCHANGED <<event_alive, set_, setting, firing, got>>
  BY DEF Event!destroy_pop, Event!event_vars, Event!stop_vars, Event!result_vars
<1>1. PICK w \in Waiters : w = Head(waiters_)
  BY <1>0, FirstOf
<1>2. /\ list_[w] = "event" /\ Tail(waiters_) \in Seq(Waiters) /\ Distinct(Tail(waiters_))
      /\ Elems(Tail(waiters_)) = Elems(waiters_) \ {w} /\ EventFlags(w)
  BY <1>0, <1>1, FirstOf DEF EventInv
<1>3. claimed' = claimed \cup {w}
  BY <1>1 DEF Event!destroy_pop
<1>4. \/ /\ w \in claimed
         /\ waiters_' = Tail(waiters_) /\ Event!Relink({w}, "none")
         /\ UNCHANGED <<claimed_by_set, canceled, active, st, queue>>
      \/ /\ w \notin claimed /\ canceled' = canceled \cup {w}
         /\ waiters_' = Tail(waiters_) /\ Event!Relink({w}, "none")
         /\ Event!Goto(w, "posted") /\ queue' = Append(queue, w)
         /\ UNCHANGED <<claimed_by_set, active>>
      \/ /\ w \notin claimed /\ canceled' = canceled \cup {w}
         /\ \E D \in SUBSET (Event!Destroyable \ {w}) : Event!destroy_frames(D \cup {w})
         /\ UNCHANGED queue
  BY <1>1 DEF Event!destroy_pop
<1> HIDE <1>1
<1>5. ASSUME waiters_' = Tail(waiters_), Event!Relink({w}, "none"),
             UNCHANGED <<claimed_by_set, active>>,
             \/ w \in claimed /\ UNCHANGED <<canceled, st, queue>>
             \/ /\ w \notin claimed /\ canceled' = canceled \cup {w}
                /\ Event!Goto(w, "posted") /\ queue' = Append(queue, w)
      PROVE  EventInv'
  <2>1. /\ list_' \in [Waiters -> {"none", "event", "set"}]
        /\ list_'[w] = "none" /\ \A u \in Waiters \ {w} : list_'[u] = list_[u]
    BY <1>5, Relinked DEF EventInv
  <2>2. /\ Distinct(waiters_') /\ Distinct(claimed_by_set')
        /\ \A u \in Waiters : /\ list_'[u] = "event" <=> u \in Elems(waiters_')
                              /\ list_'[u] = "set" <=> u \in Elems(claimed_by_set')
    <3>1. \A u \in Waiters : /\ list_'[u] = "event" <=> list_[u] = "event" /\ u # w
                             /\ list_'[u] = "set" <=> list_[u] = "set"
      BY <1>2, <2>1
    <3>2. \A u \in Waiters : /\ list_[u] = "event" <=> u \in Elems(waiters_)
                             /\ list_[u] = "set" <=> u \in Elems(claimed_by_set)
      BY DEF EventInv, EventLists
    <3>3. /\ Distinct(claimed_by_set) /\ claimed_by_set' = claimed_by_set
          /\ waiters_' = Tail(waiters_)
      BY <1>5 DEF EventInv, EventLists
    <3>4. \A u \in Waiters : /\ u \in Elems(waiters_') <=> u \in Elems(waiters_) /\ u # w
                             /\ u \in Elems(claimed_by_set') <=> u \in Elems(claimed_by_set)
      BY <1>2, <3>3
    <3> QED BY <1>2, <3>1, <3>2, <3>3, <3>4
  <2>3. EventEnds'
    BY <1>0, <1>5 DEF EventInv, EventEnds
  <2>4. CASE w \in claimed /\ UNCHANGED <<canceled, st, queue>>
    <3>1. EventTypes'
      BY <1>0, <1>2, <1>5, <2>1, <2>4 DEF EventInv, EventTypes
    <3>2. EventLists'
      BY <2>2, <2>4 DEF EventInv, EventLists
    <3>3. EventFlags(w)'
      BY <1>0, <1>2, <1>3, <1>5, <2>1, <2>4, SMTT(30) DEF EventFlags
    <3>4. \A u \in Waiters \ {w} : SameWaiter(u)
      BY <1>0, <1>3, <1>5, <2>1, <2>4 DEF SameWaiter
    <3>5. \A u \in Waiters : EventFlags(u)'
      BY <1>0, <3>3, <3>4, FlagsKept DEF EventInv
    <3> QED BY <1>0, <2>3, <3>1, <3>2, <3>5 DEF EventInv
  <2>5. CASE /\ w \notin claimed /\ canceled' = canceled \cup {w}
             /\ Event!Goto(w, "posted") /\ queue' = Append(queue, w)
    <3>1. st[w] = "waiting" /\ w \notin firing /\ w \notin got
      BY <1>2, <2>5 DEF EventFlags
    <3>2. /\ st' \in [Waiters -> {"new", "waiting", "posted", "done", "destroyed"}]
          /\ st'[w] = "posted" /\ \A u \in Waiters \ {w} : st'[u] = st[u]
      BY <2>5, Gone DEF EventInv
    <3>3. queue' \in Seq(Waiters) /\ Distinct(queue') /\ Elems(queue') = Elems(queue) \cup {w}
      <4>1. queue \in Seq(Waiters) /\ Distinct(queue) /\ w \notin Elems(queue)
        BY <3>1 DEF EventInv, EventTypes, EventLists
      <4>2. queue' = Append(queue, w)
        BY <2>5
      <4> QED BY <4>1, <4>2, Appended, SMTT(30)
    <3>4. EventTypes'
      BY <1>0, <1>2, <1>5, <2>1, <3>2, <3>3 DEF EventInv, EventTypes
    <3>5. EventLists'
      <4>1. \A u \in Waiters : st'[u] = "posted" <=> u \in Elems(queue')
        BY <3>2, <3>3 DEF EventInv, EventLists
      <4> QED BY <2>2, <3>3, <4>1 DEF EventLists
    <3>6. EventFlags(w)'
      BY <1>0, <1>2, <1>3, <1>5, <2>1, <2>5, <3>1, <3>2, SMTT(30) DEF EventFlags
    <3>7. \A u \in Waiters \ {w} : SameWaiter(u)
      BY <1>0, <1>3, <1>5, <2>1, <2>5, <3>2 DEF SameWaiter
    <3>8. \A u \in Waiters : EventFlags(u)'
      BY <1>0, <3>6, <3>7, FlagsKept DEF EventInv
    <3> QED BY <1>0, <2>3, <3>4, <3>5, <3>8 DEF EventInv
  <2> QED BY <1>5, <2>4, <2>5
<1>6. CASE /\ w \notin claimed /\ canceled' = canceled \cup {w}
           /\ \E D \in SUBSET (Event!Destroyable \ {w}) : Event!destroy_frames(D \cup {w})
           /\ UNCHANGED queue
  <2>1. PICK D \in SUBSET (Event!Destroyable \ {w}) : Event!destroy_frames(D \cup {w})
    BY <1>6
  <2>2. PICK E : E = D \cup {w}
    OBVIOUS
  <2>3. \A u \in E : u \in Waiters /\ st[u] = "waiting" /\ u \notin firing
    <3>1. \A u \in D : u \in Event!Destroyable
      BY <2>1
    <3>2. st[w] = "waiting" /\ w \notin firing
      BY <1>2, <1>6 DEF EventFlags
    <3> QED BY <2>2, <3>1, <3>2, MayBeDestroyed
  <2>4. /\ Event!destroy_frames(E)
        /\ \A u \in Waiters \ E : /\ u \in claimed' <=> u \in claimed
                                  /\ u \in canceled' <=> u \in canceled
    BY <1>3, <1>6, <2>1, <2>2
  <2>5. queue' \in Seq(Waiters) /\ Distinct(queue') /\ Elems(queue') = Elems(queue) \ E
    <3>1. queue \in Seq(Waiters) /\ Distinct(queue) /\ queue' = queue
      BY <1>6 DEF EventInv, EventTypes, EventLists
    <3>2. \A u \in E : u \notin Elems(queue)
      BY <2>3 DEF EventInv, EventLists
    <3> QED BY <3>1, <3>2
  <2> HIDE <2>2
  <2>6. /\ E \in SUBSET Waiters /\ E \cap firing = {}
        /\ \A u \in E : st[u] \in {"waiting", "posted"}
    BY <2>3
  <2> QED BY <1>0, <2>4, <2>5, <2>6, FramesStep
<1> QED BY <1>4, <1>5, <1>6

\* Every step of an event preserves the invariant.
LEMMA EventStep == EventInv /\ [Event!Next]_Event!vars => EventInv'
<1> SUFFICES ASSUME EventInv, [Event!Next]_Event!vars PROVE EventInv'
  OBVIOUS
\* Steps that touch no waiter.
<1>1. ASSUME UNCHANGED <<waiters_, claimed_by_set, list_, claimed, canceled, active, st, queue,
                         firing, got>>,
             event_alive' \in {"yes", "dying", "no"}, set_' \in {set_, "no"}, setting' \in Flag,
             EventEnds'
      PROVE  EventInv'
  <2>1. EventTypes'
    BY <1>1 DEF EventInv, EventTypes, Flag
  <2>2. EventLists'
    BY <1>1, ListsKept DEF EventInv
  <2>3. \A u \in Waiters : SameWaiter(u)
    BY <1>1 DEF SameWaiter
  <2>4. \A u \in Waiters : EventFlags(u)'
    BY <1>1, <2>3, FlagsKept DEF EventInv
  <2> QED BY <1>1, <2>1, <2>2, <2>4 DEF EventInv
<1> USE DEF Event!event_vars, Event!lists, Event!stop_vars, Event!result_vars
<1>2. CASE Event!set_return
  BY <1>1, <1>2 DEF Event!set_return, EventInv, EventTypes, EventEnds, Flag
<1>3. CASE Event!clear
  BY <1>1, <1>3 DEF Event!clear, EventInv, EventTypes, EventEnds, Flag
<1>4. CASE Event!destroy_event
  BY <1>1, <1>4 DEF Event!destroy_event, EventInv, EventTypes, EventEnds, Flag
<1>5. CASE Event!destroyed_event
  BY <1>1, <1>5 DEF Event!destroyed_event, EventInv, EventTypes, EventEnds, Flag
<1>6. CASE \E w \in Waiters : Event!request_stop(w)
  BY <1>1, <1>6 DEF Event!request_stop, EventInv, EventTypes, EventEnds, Flag
<1>7. CASE UNCHANGED Event!vars
  BY <1>1, <1>7 DEF Event!vars, EventInv, EventTypes, EventEnds, Flag
<1> HIDE DEF Event!event_vars, Event!lists, Event!stop_vars, Event!result_vars
<1>8. CASE Event!set_post \/ Event!set_abandoned \/ Event!destroy_pop \/ Event!set
  BY <1>8, SetPosts, SetAbandons, DestroyPops, SetStep
<1>9. ASSUME NEW w \in Waiters,
             \/ Event!wait(w) \/ Event!await_resume(w) \/ Event!destroy(w)
             \/ Event!cancel_claim(w) \/ Event!cancel_post(w)
      PROVE  EventInv'
  BY <1>9, WaitStep, ResumeStep, DestroyStep, CancelClaims, CancelPosts
<1> QED
  BY <1>2, <1>3, <1>4, <1>5, <1>6, <1>7, <1>8, <1>9
     DEF Event!Next, Event!LoopStep, Event!CancelStep

\* The invariant says where the waiters of an event are.
LEMMA EventInPlace == EventInv => EventWaiterInOnePlace
<1> SUFFICES ASSUME EventInv PROVE EventWaiterInOnePlace
  OBVIOUS
<1>1. \A s : Event!Range(s) = Elems(s)
  BY DEF Event!Range, Elems
<1>2. ASSUME NEW w \in Waiters
      PROVE  /\ st[w] = "posted" <=> w \in Event!Range(queue)
             /\ list_[w] = "event" <=> w \in Event!Range(waiters_)
             /\ list_[w] = "set" <=> w \in Event!Range(claimed_by_set)
             /\ list_[w] # "none" => st[w] \in {"waiting", "posted"}
             /\ st[w] = "waiting" =>
                    /\ set_ = "yes" => w \in claimed
                    /\ w \in claimed => w \in firing \/ list_[w] = "set"
  BY <1>1 DEF EventInv, EventLists, EventFlags
<1>3. \A w \in firing : st[w] = "waiting"
  BY DEF EventInv, EventTypes, EventFlags
<1>4. got \cap canceled = {}
  BY DEF EventInv, EventFlags
<1>5. Distinct(queue) /\ (event_alive = "no" => waiters_ = <<>>)
  BY DEF EventInv, EventLists, EventEnds
<1> QED
  BY <1>2, <1>3, <1>4, <1>5 DEF EventWaiterInOnePlace, Event!WaiterInOnePlace, Distinct

\* A waiter of an event is resumed by one party, is in the list that it says and in no
\* other, and nobody is left out when the event is set, for any number of waiters.
THEOREM EventWaiters == Event!Spec => []EventWaiterInOnePlace
  BY EventInPlace, EventBegins, EventStep, PTL DEF Event!Spec

-----------------------------------------------------------------------------
(* The bridges: the inductive invariant.                                   *)

Kinds == {"beman", "stdexec", "asio", "callback", "copy", "poll", "deferred", "dialog"}

Aws == {"before", "inside", "over"}
Ops == {"none", "pending", "ready", "stored", "over"}
Outcomes == {"none", "value", "code", "exception", "stopped"}
Cos == {"running", "suspended", "queued", "resumed", "given up", "gone"}

WaiterTypes ==
    /\ aw \in [Bridged -> Aws] /\ op \in [Bridged -> Ops]
    /\ sent \in [Bridged -> Outcomes] /\ result_ \in [Bridged -> 0 .. 4]
    /\ bridge_co \in [Bridged -> Cos] /\ hands \in [Bridged -> {0, 1}]
    /\ bridge_got \in [Bridged -> Outcomes]

ServiceTypes ==
    /\ bridge \in Kinds /\ has_ec \in Flag /\ error_ \in Flag
    /\ list \in Seq(Bridged) /\ ready_ \in Seq(Bridged) /\ at \in Nat \ {0}

\* How far the waiter has come, how far its work, and how often it was handed on.
BridgeStages(w) ==
    /\ aw[w] = "before" <=> bridge_co[w] = "running"
    /\ bridge_co[w] = "running" <=> op[w] = "none"
    /\ op[w] \in {"pending", "ready", "stored"} => bridge_co[w] = "suspended"
    /\ hands[w] = IF bridge_co[w] \in {"running", "suspended"} THEN 0 ELSE 1
    /\ bridge_got[w] # "none" => bridge_co[w] = "gone" /\ bridge_got[w] = sent[w]

\* Of await_suspend() and the receiver of stdexec's awaitable the second one resumes.
SecondResumes(w) ==
    bridge = "stdexec" =>
        /\ bridge_co[w] \in {"running", "suspended", "resumed", "gone"}
        /\ aw[w] = "before" => w \notin done_
        /\ aw[w] = "inside" => bridge_co[w] = "suspended" /\ (w \in done_ <=> op[w] = "over")
        /\ aw[w] = "over" => w \in done_ /\ (bridge_co[w] = "suspended" => op[w] # "over")

\* The awaitable holds what the waiter is to come to.
Due(w) ==
    \/ op[w] = "stored" \/ bridge_co[w] \in {"queued", "resumed"}
    \/ bridge \in Bridge!Senders /\ op[w] = "over"

\* What it holds is what the work ended with.
Right(w) ==
    /\ bridge \in Bridge!Senders =>
           /\ sent[w] \in {"value", "exception", "stopped", "code"}
           /\ has_ec = "no" => sent[w] # "code"
           /\ result_[w] = Bridge!index(sent[w])
    /\ bridge \notin Bridge!Senders => sent[w] \in Bridge!Ended
    /\ bridge = "callback" /\ result_[w] = 2 => sent[w] = "code"
    /\ bridge \notin Bridge!Senders \cup {"callback", "copy"} => result_[w] = Bridge!ec(sent[w])

RightResult(w) ==
    /\ op[w] = "ready" => sent[w] \in Bridge!Ended
    /\ Due(w) => Right(w)

\* The error in the shared stream is that of the waiter which is about to take it.
StreamError ==
    error_ = "yes" =>
        /\ bridge = "copy"
        /\ \E u \in Bridged : bridge_co[u] = "resumed"
        /\ \A u \in Bridged : bridge_co[u] \in {"suspended", "queued", "resumed"} =>
               bridge_co[u] = "resumed" /\ sent[u] = "code"

\* Who is in the lists of the services and of the GUI.
BridgeLists ==
    /\ Distinct(list) /\ Distinct(ready_)
    /\ bridge \notin {"poll", "deferred", "dialog"} => list = <<>>
    /\ bridge \notin {"poll", "deferred"} => ready_ = <<>>
    /\ worker \in {"unlocked", "scan", "post"} => bridge = "poll"
    /\ worker \in {"job", "posting"} => bridge = "deferred" /\ Len(ready_) = 1
    /\ bridge = "deferred" /\ worker \notin {"job", "posting"} => ready_ = <<>>
    /\ \A w \in Elems(list) :
           IF bridge = "dialog" THEN bridge_co[w] = "queued" ELSE op[w] \in {"pending", "ready"}
    /\ \A w \in Elems(ready_) :
           IF worker = "job" THEN op[w] \in {"pending", "ready"} /\ w \notin Elems(list)
           ELSE op[w] = "stored"

\* What is known of a waiter.
OfWaiter(w) == BridgeStages(w) /\ SecondResumes(w) /\ RightResult(w)

BridgeInv ==
    /\ WaiterTypes /\ ServiceTypes /\ StreamError /\ BridgeLists
    /\ \A w \in Bridged : OfWaiter(w)

-----------------------------------------------------------------------------
(* The bridges: steps of one waiter.                                       *)

\* f becomes g: it has v for w, or is left alone.
Put(g, f, w, v) == g = [f EXCEPT ![w] = v] \/ (g = f /\ v = f[w])

\* A step writes the variables of w, or leaves them as they are.
Writes(w, a, o, s, r, c, h, g) ==
    /\ a \in Aws /\ Put(aw', aw, w, a)
    /\ o \in Ops /\ Put(op', op, w, o)
    /\ s \in Outcomes /\ Put(sent', sent, w, s)
    /\ r \in 0 .. 4 /\ Put(result_', result_, w, r)
    /\ c \in Cos /\ Put(bridge_co', bridge_co, w, c)
    /\ h \in {0, 1} /\ Put(hands', hands, w, h)
    /\ g \in Outcomes /\ Put(bridge_got', bridge_got, w, g)

\* What w has then.
Has(w, a, o, s, r, c, h, g) ==
    /\ aw'[w] = a /\ op'[w] = o /\ sent'[w] = s /\ result_'[w] = r /\ bridge_co'[w] = c
    /\ hands'[w] = h /\ bridge_got'[w] = g

\* Nothing of u changes.
SameBridged(u) ==
    /\ aw'[u] = aw[u] /\ op'[u] = op[u] /\ sent'[u] = sent[u] /\ result_'[u] = result_[u]
    /\ bridge_co'[u] = bridge_co[u] /\ hands'[u] = hands[u] /\ bridge_got'[u] = bridge_got[u]
    /\ u \in done_' <=> u \in done_

\* What a step that writes one waiter leaves behind.
LEMMA WaiterWritten ==
  ASSUME WaiterTypes, NEW w \in Bridged, NEW a, NEW o, NEW s, NEW r, NEW c, NEW h, NEW g,
         Writes(w, a, o, s, r, c, h, g), done_' \in {done_, done_ \cup {w}}
  PROVE  WaiterTypes' /\ Has(w, a, o, s, r, c, h, g) /\ \A u \in Bridged \ {w} : SameBridged(u)
<1>1. aw' \in [Bridged -> Aws] /\ aw'[w] = a /\ \A u \in Bridged \ {w} : aw'[u] = aw[u]
  <2>1. aw \in [Bridged -> Aws] /\ a \in Aws /\ Put(aw', aw, w, a)
    BY DEF WaiterTypes, Writes
  <2> QED BY <2>1 DEF Put
<1>2. op' \in [Bridged -> Ops] /\ op'[w] = o /\ \A u \in Bridged \ {w} : op'[u] = op[u]
  <2>1. op \in [Bridged -> Ops] /\ o \in Ops /\ Put(op', op, w, o)
    BY DEF WaiterTypes, Writes
  <2> QED BY <2>1 DEF Put
<1>3. sent' \in [Bridged -> Outcomes] /\ sent'[w] = s /\ \A u \in Bridged \ {w} : sent'[u] = sent[u]
  <2>1. sent \in [Bridged -> Outcomes] /\ s \in Outcomes /\ Put(sent', sent, w, s)
    BY DEF WaiterTypes, Writes
  <2> QED BY <2>1 DEF Put
<1>4. /\ result_' \in [Bridged -> 0 .. 4] /\ result_'[w] = r
      /\ \A u \in Bridged \ {w} : result_'[u] = result_[u]
  <2>1. result_ \in [Bridged -> 0 .. 4] /\ r \in 0 .. 4 /\ Put(result_', result_, w, r)
    BY DEF WaiterTypes, Writes
  <2> QED BY <2>1 DEF Put
<1>5. /\ bridge_co' \in [Bridged -> Cos] /\ bridge_co'[w] = c
      /\ \A u \in Bridged \ {w} : bridge_co'[u] = bridge_co[u]
  <2>1. bridge_co \in [Bridged -> Cos] /\ c \in Cos /\ Put(bridge_co', bridge_co, w, c)
    BY DEF WaiterTypes, Writes
  <2> QED BY <2>1 DEF Put
<1>6. /\ hands' \in [Bridged -> {0, 1}] /\ hands'[w] = h
      /\ \A u \in Bridged \ {w} : hands'[u] = hands[u]
  <2>1. hands \in [Bridged -> {0, 1}] /\ h \in {0, 1} /\ Put(hands', hands, w, h)
    BY DEF WaiterTypes, Writes
  <2> QED BY <2>1 DEF Put
<1>7. /\ bridge_got' \in [Bridged -> Outcomes] /\ bridge_got'[w] = g
      /\ \A u \in Bridged \ {w} : bridge_got'[u] = bridge_got[u]
  <2>1. bridge_got \in [Bridged -> Outcomes] /\ g \in Outcomes /\ Put(bridge_got', bridge_got, w, g)
    BY DEF WaiterTypes, Writes
  <2> QED BY <2>1 DEF Put
<1>8. \A u \in Bridged \ {w} : u \in done_' <=> u \in done_
  OBVIOUS
<1>9. WaiterTypes'
  BY <1>1, <1>2, <1>3, <1>4, <1>5, <1>6, <1>7 DEF WaiterTypes
<1>10. Has(w, a, o, s, r, c, h, g)
  BY <1>1, <1>2, <1>3, <1>4, <1>5, <1>6, <1>7 DEF Has
<1>11. \A u \in Bridged \ {w} : SameBridged(u)
  BY <1>1, <1>2, <1>3, <1>4, <1>5, <1>6, <1>7, <1>8 DEF SameBridged
<1> QED BY <1>9, <1>10, <1>11

\* A waiter that nothing happens to is as far as it was.
LEMMA StagesKept ==
  ASSUME NEW u \in Bridged, BridgeStages(u), SameBridged(u)
  PROVE  BridgeStages(u)'
  BY DEF BridgeStages, SameBridged

\* Its flag says what it said.
LEMMA SecondKept ==
  ASSUME NEW u \in Bridged, SecondResumes(u), SameBridged(u), bridge' = bridge
  PROVE  SecondResumes(u)'
  BY DEF SecondResumes, SameBridged

\* Its awaitable holds what it held.
LEMMA ResultKept ==
  ASSUME NEW u \in Bridged, RightResult(u), SameBridged(u), UNCHANGED <<bridge, has_ec>>
  PROVE  RightResult(u)'
<1>1. has_ec' = has_ec /\ bridge' = bridge
  OBVIOUS
<1>2. Bridge!index(sent[u])' = Bridge!index(sent[u])
  BY <1>1 DEF SameBridged, Bridge!index
<1> QED BY <1>1, <1>2 DEF RightResult, Due, Right, SameBridged, Bridge!Senders, Bridge!ec

\* And so all that is known of it stays.
LEMMA BridgedKept ==
  ASSUME NEW u \in Bridged, OfWaiter(u), SameBridged(u), UNCHANGED <<bridge, has_ec>>
  PROVE  OfWaiter(u)'
<1>1. BridgeStages(u)'
  BY StagesKept DEF OfWaiter
<1>2. SecondResumes(u)'
  BY SecondKept DEF OfWaiter
<1>3. RightResult(u)'
  BY ResultKept DEF OfWaiter
<1> QED BY <1>1, <1>2, <1>3 DEF OfWaiter

\* A step of w, when the services and the GUI have nothing to do with it.
LEMMA WaiterStep ==
  ASSUME BridgeInv, NEW w \in Bridged, NEW a, NEW o, NEW s, NEW r, NEW c, NEW h, NEW g,
         Writes(w, a, o, s, r, c, h, g), done_' \in {done_, done_ \cup {w}},
         UNCHANGED <<bridge, has_ec>>, OfWaiter(w)'
  PROVE  WaiterTypes' /\ \A u \in Bridged : OfWaiter(u)'
<1>1. WaiterTypes' /\ \A u \in Bridged \ {w} : SameBridged(u)
  BY WaiterWritten DEF BridgeInv
<1>2. \A u \in Bridged \ {w} : OfWaiter(u)'
  BY <1>1, BridgedKept DEF BridgeInv
<1> QED BY <1>1, <1>2

\* The lists stay as they are when nobody in them changes.
LEMMA ListsStay ==
  ASSUME BridgeInv, UNCHANGED <<bridge, list, at, ready_>>,
         worker' = worker \/ {worker, worker'} \subseteq {"check", "asleep", "exited", "closed"},
         \A u \in Elems(list) \cup Elems(ready_) :
             bridge_co'[u] = bridge_co[u] /\ op'[u] = op[u]
  PROVE  BridgeLists'
<1>1. Elems(list') = Elems(list) /\ Elems(ready_') = Elems(ready_) /\ Len(ready_') = Len(ready_)
  OBVIOUS
<1>2. CASE worker' = worker
  BY <1>1, <1>2, SMTT(30) DEF BridgeInv, BridgeLists
<1>3. CASE {worker, worker'} \subseteq {"check", "asleep", "exited", "closed"}
  BY <1>1, <1>3, SMTT(30) DEF BridgeInv, BridgeLists
<1> QED BY <1>2, <1>3

\* The bridges without a service have no lists.
LEMMA NoLists ==
  ASSUME BridgeInv, bridge \notin {"poll", "deferred", "dialog"},
         UNCHANGED <<bridge, list, at, ready_, worker>>
  PROVE  BridgeLists'
<1>1. list = <<>> /\ ready_ = <<>>
  BY DEF BridgeInv, BridgeLists
<1>2. Elems(<<>>) = {}
  BY SMTT(30) DEF Elems
<1>3. \A u \in Elems(list) \cup Elems(ready_) : bridge_co'[u] = bridge_co[u] /\ op'[u] = op[u]
  BY <1>1, <1>2
<1> QED BY <1>3, ListsStay

\* What the step of one waiter has to show.
LEMMA Settled ==
  ASSUME BridgeInv, NEW w \in Bridged, NEW a, NEW o, NEW s, NEW r, NEW c, NEW h, NEW g,
         Writes(w, a, o, s, r, c, h, g), done_' \in {done_, done_ \cup {w}},
         UNCHANGED <<bridge, has_ec>>,
         BridgeStages(w)', SecondResumes(w)', RightResult(w)',
         StreamError', BridgeLists', ServiceTypes'
  PROVE  BridgeInv'
<1>1. OfWaiter(w)'
  BY DEF OfWaiter
<1>2. WaiterTypes' /\ \A u \in Bridged : OfWaiter(u)'
  BY <1>1, WaiterStep
<1> QED BY <1>2 DEF BridgeInv

\* What the invariant says of one waiter.
LEMMA Known ==
  ASSUME BridgeInv, NEW w \in Bridged
  PROVE  /\ aw[w] \in Aws /\ op[w] \in Ops /\ sent[w] \in Outcomes /\ result_[w] \in 0 .. 4
         /\ bridge_co[w] \in Cos /\ hands[w] \in {0, 1} /\ bridge_got[w] \in Outcomes
         /\ OfWaiter(w) /\ bridge \in Kinds /\ has_ec \in Flag
         /\ BridgeStages(w) /\ SecondResumes(w) /\ RightResult(w)
  BY DEF BridgeInv, WaiterTypes, ServiceTypes, OfWaiter

\* A waiter that is handed on had not been before.
LEMMA HandedOn ==
  ASSUME BridgeInv, NEW w \in Bridged, NEW c, Bridge!Hand(w, c),
         bridge_co[w] \in {"running", "suspended"}
  PROVE  Put(hands', hands, w, 1) /\ Put(bridge_co', bridge_co, w, c)
<1>1. hands[w] = 0
  BY Known DEF BridgeStages
<1>2. hands[w] + 1 = 1
  BY <1>1, SMTT(30)
<1>3. hands' = [hands EXCEPT ![w] = 1]
  BY <1>2 DEF Bridge!Hand
<1> QED BY <1>3 DEF Bridge!Hand, Put

\* No step outside the shared stream touches its error.
LEMMA ErrorStays ==
  ASSUME BridgeInv, UNCHANGED <<bridge, error_>>, bridge # "copy" \/ error_ # "yes"
  PROVE  StreamError'
  BY DEF BridgeInv, StreamError

\* Whoever is in a list is suspended, or in the queue of the GUI.
LEMMA InServices ==
  ASSUME BridgeInv, NEW u \in Elems(list) \cup Elems(ready_)
  PROVE  /\ u \in Bridged
         /\ bridge = "dialog" => bridge_co[u] = "queued" /\ op[u] = "over"
         /\ bridge # "dialog" => bridge_co[u] = "suspended" /\ op[u] \in {"pending", "ready", "stored"}
<1>1. u \in Bridged
  <2>1. \A s \in Seq(Bridged) : \A i \in DOMAIN s : s[i] \in Bridged
    BY SMTT(30)
  <2> QED BY <2>1 DEF BridgeInv, ServiceTypes, Elems
<1>2. bridge = "dialog" => u \in Elems(list)
  <2>1. bridge = "dialog" => ready_ = <<>>
    BY DEF BridgeInv, BridgeLists
  <2> QED BY <2>1, Holding
<1>3. BridgeStages(u) /\ op[u] \in Ops
  BY <1>1, Known
<1>4. bridge # "dialog" => op[u] \in {"pending", "ready", "stored"}
  BY SMTT(30) DEF BridgeInv, BridgeLists
<1>5. bridge = "dialog" => bridge_co[u] = "queued"
  BY <1>2 DEF BridgeInv, BridgeLists
<1>6. bridge_co[u] = "queued" => op[u] = "over"
  BY <1>3 DEF BridgeStages, Ops
<1> QED BY <1>1, <1>3, <1>4, <1>5, <1>6 DEF BridgeStages

-----------------------------------------------------------------------------
(* The bridges: await_suspend().                                           *)

\* await_suspend() is entered, and nothing is known of the waiter before.
LEMMA Entered ==
  ASSUME BridgeInv, NEW w \in Bridged, Bridge!Enter(w)
  PROVE  /\ aw[w] = "before" /\ op[w] = "none" /\ bridge_co[w] = "running" /\ hands[w] = 0
         /\ bridge_got[w] = "none" /\ (bridge = "stdexec" => w \notin done_)
         /\ UNCHANGED <<bridge, has_ec, done_>>
         /\ Put(aw', aw, w, "inside") /\ Put(bridge_got', bridge_got, w, bridge_got[w])
         /\ w \notin Elems(list) \cup Elems(ready_)
<1>1. /\ aw[w] = "before" /\ aw' = [aw EXCEPT ![w] = "inside"]
      /\ UNCHANGED <<bridge, has_ec, done_, bridge_got>>
  BY DEF Bridge!Enter
<1>2. /\ op[w] = "none" /\ bridge_co[w] = "running" /\ hands[w] = 0 /\ bridge_got[w] = "none"
  BY <1>1, Known DEF BridgeStages
<1>3. bridge = "stdexec" => w \notin done_
  BY <1>1, Known DEF SecondResumes
<1>4. w \notin Elems(list) \cup Elems(ready_)
  BY <1>2, InServices
<1> QED BY <1>1, <1>2, <1>3, <1>4 DEF Put

\* The work is started.
LEMMA Starting ==
  ASSUME BridgeInv, NEW w \in Bridged, Bridge!Enter(w), Bridge!Start(w),
         StreamError', BridgeLists', ServiceTypes'
  PROVE  BridgeInv'
<1>1. Writes(w, "inside", "pending", sent[w], result_[w], "suspended", hands[w], bridge_got[w])
  BY Entered, Known DEF Bridge!Start, Writes, Put, Aws, Ops, Cos
<1>2. Has(w, "inside", "pending", sent[w], result_[w], "suspended", hands[w], bridge_got[w])
  BY <1>1, Entered, WaiterWritten DEF BridgeInv
<1>3. BridgeStages(w)'
  BY <1>2, Entered DEF Has, BridgeStages
<1>4. SecondResumes(w)'
  BY <1>2, Entered DEF Has, SecondResumes
<1>5. RightResult(w)'
  BY <1>2, Entered DEF Has, RightResult, Due
<1>6. done_' \in {done_, done_ \cup {w}} /\ UNCHANGED <<bridge, has_ec>>
  BY Entered
<1> QED BY <1>1, <1>3, <1>4, <1>5, <1>6, Settled

\* The work could not be started, and the waiter goes on with an error or is given up.
LEMMA NotStarted ==
  ASSUME BridgeInv, NEW w \in Bridged, Bridge!Enter(w), bridge \in {"asio", "callback", "copy"},
         op' = [op EXCEPT ![w] = "over"],
         NEW c, NEW s, NEW r, Bridge!Hand(w, c), s \in Outcomes, r \in 0 .. 4,
         Put(sent', sent, w, s), Put(result_', result_, w, r),
         \/ c = "given up" /\ bridge = "asio"
         \/ c = "resumed" /\ s = "code" /\ bridge \in {"callback", "copy"},
         StreamError', BridgeLists', ServiceTypes'
  PROVE  BridgeInv'
<1>0. bridge_co[w] \in {"running", "suspended"}
  BY Entered
<1>1. Writes(w, "inside", "over", s, r, c, 1, bridge_got[w])
  BY <1>0, Entered, Known, HandedOn DEF Writes, Put, Aws, Ops, Cos
<1>2. Has(w, "inside", "over", s, r, c, 1, bridge_got[w])
  BY <1>1, Entered, WaiterWritten DEF BridgeInv
<1>3. BridgeStages(w)'
  BY <1>2, Entered DEF Has, BridgeStages
<1>4. SecondResumes(w)'
  BY Entered DEF SecondResumes
<1>5. RightResult(w)'
  <2>1. op'[w] = "over" /\ bridge_co'[w] = c /\ sent'[w] = s /\ bridge' = bridge
    BY <1>2, Entered DEF Has
  <2>2. CASE c = "given up" /\ bridge = "asio"
    BY <2>1, <2>2 DEF RightResult, Due, Bridge!Senders
  <2>3. CASE s = "code" /\ bridge \in {"callback", "copy"}
    BY <2>1, <2>3 DEF RightResult, Right, Bridge!Senders, Bridge!Ended
  <2> QED BY <2>2, <2>3
<1>6. done_' \in {done_, done_ \cup {w}} /\ UNCHANGED <<bridge, has_ec>>
  BY Entered
<1> QED BY <1>1, <1>3, <1>4, <1>5, <1>6, Settled

\* The waiter is put on the list of a service.
LEMMA Listed ==
  ASSUME BridgeInv, NEW w \in Bridged, Bridge!Enter(w), Bridge!Start(w),
         bridge \in {"poll", "deferred"}, list' = Append(list, w), UNCHANGED <<at, ready_, worker>>
  PROVE  BridgeInv'
<1>1. list' \in Seq(Bridged) /\ Distinct(list') /\ Elems(list') = Elems(list) \cup {w}
  <2>1. list \in Seq(Bridged) /\ Distinct(list) /\ w \notin Elems(list)
    BY Entered DEF BridgeInv, ServiceTypes, BridgeLists
  <2> QED BY <2>1, Appended, SMTT(30)
<1>2. op'[w] = "pending" /\ \A u \in Bridged \ {w} : op'[u] = op[u]
  <2>1. op \in [Bridged -> Ops] /\ op' = [op EXCEPT ![w] = "pending"]
    BY DEF BridgeInv, WaiterTypes, Bridge!Start
  <2> QED BY <2>1
<1>3. BridgeLists'
  <2>1. \A u \in Elems(list) \cup Elems(ready_) : u # w /\ op'[u] = op[u]
    BY <1>2, Entered, InServices
  <2>2. bridge' = bridge /\ ready_' = ready_ /\ worker' = worker /\ Elems(ready_') = Elems(ready_)
    BY Entered
  <2>3. \A u \in Elems(list') : op'[u] \in {"pending", "ready"}
    BY <1>1, <1>2, <2>1 DEF BridgeInv, BridgeLists
  <2>4. \A u \in Elems(ready_') : IF worker' = "job" THEN op'[u] \in {"pending", "ready"} /\ u \notin Elems(list')
                                  ELSE op'[u] = "stored"
    <3> SUFFICES ASSUME NEW u \in Elems(ready_)
                 PROVE  IF worker = "job" THEN op'[u] \in {"pending", "ready"} /\ u \notin Elems(list')
                        ELSE op'[u] = "stored"
      BY <2>2
    <3>1. IF worker = "job" THEN op[u] \in {"pending", "ready"} /\ u \notin Elems(list)
          ELSE op[u] = "stored"
      BY DEF BridgeInv, BridgeLists
    <3> QED BY <1>1, <2>1, <3>1
  <2>5. /\ Distinct(ready_') /\ bridge' \in {"poll", "deferred"}
        /\ worker' \in {"unlocked", "scan", "post"} => bridge' = "poll"
        /\ worker' \in {"job", "posting"} => bridge' = "deferred" /\ Len(ready_') = 1
        /\ bridge' = "deferred" /\ worker' \notin {"job", "posting"} => ready_' = <<>>
    BY <2>2 DEF BridgeInv, BridgeLists
  <2> QED BY <1>1, <2>3, <2>4, <2>5 DEF BridgeLists
<1>4. StreamError'
  BY Entered, ErrorStays DEF Bridge!Start
<1>5. ServiceTypes'
  BY <1>1, Entered DEF BridgeInv, ServiceTypes, Bridge!Start
<1> QED BY <1>3, <1>4, <1>5, Starting

\* await_suspend() of all the bridges.
LEMMA SuspendStep ==
  ASSUME BridgeInv, NEW w \in Bridged, Bridge!suspend(w)
  PROVE  BridgeInv'
<1>0. Bridge!Enter(w)
  BY DEF Bridge!suspend, Bridge!sender_suspend, Bridge!asio_suspend, Bridge!callback_suspend,
         Bridge!copy_suspend, Bridge!poll_suspend, Bridge!deferred_suspend, Bridge!dialog_suspend
<1>1. ASSUME UNCHANGED <<list, at, ready_, worker>>, error_' \in Flag
      PROVE  ServiceTypes'
  BY <1>0, <1>1, Entered DEF BridgeInv, ServiceTypes
<1>2. ASSUME UNCHANGED <<list, at, ready_, worker>>, bridge \notin {"poll", "deferred", "dialog"}
      PROVE  BridgeLists'
  BY <1>0, <1>2, Entered, NoLists
<1>3. error_ \in Flag
  BY DEF BridgeInv, ServiceTypes
<1>4. CASE Bridge!sender_suspend(w)
  <2>1. /\ bridge \in {"beman", "stdexec"} /\ Bridge!Start(w) /\ error_' = error_
        /\ UNCHANGED <<list, at, ready_, worker>>
    BY <1>4 DEF Bridge!sender_suspend, Bridge!Senders, Bridge!Start, Bridge!service_vars
  <2>2. StreamError'
    BY <1>0, <2>1, Entered, ErrorStays
  <2> QED BY <1>0, <1>1, <1>2, <1>3, <2>1, <2>2, Starting
<1>5. CASE Bridge!asio_suspend(w)
  <2>1. bridge = "asio" /\ error_' = error_ /\ UNCHANGED <<list, at, ready_, worker>>
    BY <1>5 DEF Bridge!asio_suspend, Bridge!Start, Bridge!service_vars
  <2>2. StreamError' /\ BridgeLists' /\ ServiceTypes'
    BY <1>0, <1>1, <1>2, <1>3, <2>1, Entered, ErrorStays
  <2>3. CASE Bridge!Start(w)
    BY <1>0, <2>2, <2>3, Starting
  <2>4. CASE Bridge!abandon(w) /\ op' = [op EXCEPT ![w] = "over"] /\ UNCHANGED <<sent, result_>>
    <3>1. Bridge!Hand(w, "given up") /\ Put(sent', sent, w, sent[w]) /\ Put(result_', result_, w, result_[w])
      BY <2>4 DEF Bridge!abandon, Put
    <3>2. sent[w] \in Outcomes /\ result_[w] \in 0 .. 4
      BY Known
    <3> QED BY <1>0, <2>1, <2>2, <2>4, <3>1, <3>2, NotStarted
  <2> QED BY <1>5, <2>3, <2>4 DEF Bridge!asio_suspend
<1>6. CASE Bridge!callback_suspend(w)
  <2>1. bridge = "callback" /\ error_' = error_ /\ UNCHANGED <<list, at, ready_, worker>>
    BY <1>6 DEF Bridge!callback_suspend, Bridge!Start, Bridge!service_vars
  <2>2. StreamError' /\ BridgeLists' /\ ServiceTypes'
    BY <1>0, <1>1, <1>2, <1>3, <2>1, Entered, ErrorStays
  <2>3. CASE Bridge!Start(w)
    BY <1>0, <2>2, <2>3, Starting
  <2>4. CASE /\ Bridge!Hand(w, "resumed") /\ op' = [op EXCEPT ![w] = "over"]
             /\ sent' = [sent EXCEPT ![w] = "code"] /\ result_' = [result_ EXCEPT ![w] = 2]
    <3>1. Put(sent', sent, w, "code") /\ Put(result_', result_, w, 2)
      BY <2>4 DEF Put
    <3>2. "code" \in Outcomes /\ 2 \in 0 .. 4
      BY SMTT(30) DEF Outcomes
    <3> QED BY <1>0, <2>1, <2>2, <2>4, <3>1, <3>2, NotStarted
  <2> QED BY <1>6, <2>3, <2>4 DEF Bridge!callback_suspend
<1>7. CASE Bridge!copy_suspend(w)
  <2>1. /\ bridge = "copy" /\ UNCHANGED <<list, at, ready_, worker>>
        /\ \A u \in Bridged : bridge_co[u] \notin {"suspended", "queued", "resumed"}
    BY <1>7 DEF Bridge!copy_suspend, Bridge!service_vars
  <2>2. error_ # "yes"
    BY <2>1 DEF BridgeInv, StreamError
  <2>3. BridgeLists'
    BY <1>2, <2>1
  <2>4. CASE Bridge!Start(w)
    <3>1. error_' = error_
      BY <2>4 DEF Bridge!Start
    <3>2. StreamError' /\ ServiceTypes'
      BY <1>0, <1>1, <1>3, <2>1, <2>2, <3>1, Entered, ErrorStays
    <3> QED BY <1>0, <2>3, <2>4, <3>2, Starting
  <2>5. CASE /\ Bridge!Hand(w, "resumed") /\ op' = [op EXCEPT ![w] = "over"]
             /\ sent' = [sent EXCEPT ![w] = "code"] /\ error_' = "yes" /\ UNCHANGED result_
    <3>1. Put(sent', sent, w, "code") /\ Put(result_', result_, w, result_[w])
      BY <2>5 DEF Put
    <3>2. "code" \in Outcomes /\ result_[w] \in 0 .. 4
      BY Known DEF Outcomes
    <3>3. ServiceTypes'
      BY <1>1, <2>1, <2>5 DEF Flag
    <3>4. StreamError'
      <4>1. bridge_co \in [Bridged -> Cos] /\ sent \in [Bridged -> Outcomes]
        BY DEF BridgeInv, WaiterTypes
      <4>2. /\ bridge_co'[w] = "resumed" /\ sent'[w] = "code" /\ bridge' = "copy"
            /\ \A u \in Bridged \ {w} : bridge_co'[u] = bridge_co[u]
        BY <1>0, <2>1, <2>5, <4>1, Entered DEF Bridge!Hand
      <4> QED BY <2>1, <4>2 DEF StreamError
    <3> QED BY <1>0, <2>1, <2>3, <2>5, <3>1, <3>2, <3>3, <3>4, NotStarted
  <2> QED BY <1>7, <2>4, <2>5 DEF Bridge!copy_suspend
<1>8. CASE Bridge!poll_suspend(w) \/ Bridge!deferred_suspend(w)
  BY <1>0, <1>8, Listed DEF Bridge!poll_suspend, Bridge!deferred_suspend
<1>9. CASE Bridge!dialog_suspend(w)
  <2>1. /\ bridge = "dialog" /\ Bridge!Start(w) /\ error_' = error_
        /\ UNCHANGED <<list, at, ready_, worker>>
    BY <1>9 DEF Bridge!dialog_suspend, Bridge!Start, Bridge!service_vars
  <2>2. StreamError' /\ ServiceTypes'
    BY <1>0, <1>1, <1>3, <2>1, Entered, ErrorStays
  <2>3. \A u \in Elems(list) \cup Elems(ready_) : bridge_co'[u] = bridge_co[u] /\ op'[u] = op[u]
    <3>1. \A u \in Elems(list) \cup Elems(ready_) : u # w /\ u \in Bridged
      BY <1>0, Entered, InServices
    <3>2. bridge_co \in [Bridged -> Cos] /\ op \in [Bridged -> Ops]
      BY DEF BridgeInv, WaiterTypes
    <3> QED BY <2>1, <3>1, <3>2 DEF Bridge!Start
  <2>4. BridgeLists'
    BY <1>0, <2>1, <2>3, Entered, ListsStay
  <2> QED BY <1>0, <2>1, <2>2, <2>4, Starting
<1> QED BY <1>4, <1>5, <1>6, <1>7, <1>8, <1>9 DEF Bridge!suspend

-----------------------------------------------------------------------------
(* The bridges: the end of the work.                                       *)

\* Work that has not ended leaves everything outside it alone, if it is not that of a
\* service or of the GUI.
LEMMA OnlyTheWork ==
  ASSUME BridgeInv, NEW w \in Bridged, op[w] \in {"pending", "ready", "stored"}, Bridge!Outside
  PROVE  /\ UNCHANGED <<bridge, has_ec, aw, bridge_got>> /\ StreamError' /\ ServiceTypes'
         /\ bridge \notin {"poll", "deferred", "dialog"} => BridgeLists'
<1>1. UNCHANGED <<bridge, has_ec, aw, bridge_got, error_, list, at, ready_, worker>>
  BY DEF Bridge!Outside, Bridge!service_vars
<1>2. bridge_co[w] = "suspended"
  BY Known DEF BridgeStages
<1>3. bridge # "copy" \/ error_ # "yes"
  BY <1>2 DEF BridgeInv, StreamError
<1>4. StreamError'
  BY <1>1, <1>3, ErrorStays
<1>5. ServiceTypes'
  BY <1>1 DEF BridgeInv, ServiceTypes
<1>6. bridge \notin {"poll", "deferred", "dialog"} => BridgeLists'
  BY <1>1, NoLists
<1> QED BY <1>1, <1>4, <1>5, <1>6

\* What the work ended with is put into the awaitable.
LEMMA ResultStored ==
  ASSUME BridgeInv, NEW w \in Bridged, op[w] \in {"pending", "ready"},
         NEW s \in Outcomes, NEW r \in 0 .. 4, Bridge!Store(w, s, r),
         UNCHANGED <<bridge, has_ec, aw, bridge_got, done_, bridge_co, hands>>,
         bridge \in Bridge!Senders =>
             /\ s \in {"value", "exception", "stopped", "code"}
             /\ has_ec = "no" => s # "code"
             /\ r = Bridge!index(s),
         bridge \notin Bridge!Senders => s \in Bridge!Ended,
         bridge = "callback" => r # 2,
         bridge \notin Bridge!Senders \cup {"callback"} => r = Bridge!ec(s),
         StreamError', BridgeLists', ServiceTypes'
  PROVE  BridgeInv'
<1>0. bridge_co[w] = "suspended" /\ aw[w] # "before" /\ hands[w] = 0 /\ bridge_got[w] = "none"
  BY Known DEF BridgeStages
<1>1. Writes(w, aw[w], "stored", s, r, "suspended", 0, "none")
  BY <1>0, Known DEF Bridge!Store, Writes, Put, Aws, Ops, Cos, Outcomes
<1>2. Has(w, aw[w], "stored", s, r, "suspended", 0, "none") /\ done_' \in {done_, done_ \cup {w}}
  BY <1>1, WaiterWritten DEF BridgeInv
<1>3. BridgeStages(w)'
  BY <1>0, <1>2 DEF Has, BridgeStages
<1>4. SecondResumes(w)'
  BY <1>0, <1>2, Known DEF Has, SecondResumes
<1>5. RightResult(w)'
  <2>1. op'[w] = "stored" /\ sent'[w] = s /\ result_'[w] = r /\ bridge' = bridge /\ has_ec' = has_ec
    BY <1>2 DEF Has
  <2>2. Bridge!index(s)' = Bridge!index(s)
    BY <2>1 DEF Bridge!index
  <2>3. sent'[w] = s /\ Bridge!index(sent[w])' = Bridge!index(s)
    BY <2>1, <2>2 DEF Bridge!index
  <2>4. CASE bridge \in Bridge!Senders
    <3>1. bridge # "callback" /\ bridge \in Bridge!Senders \cup {"callback", "copy"}
      BY <2>4 DEF Bridge!Senders
    <3> QED BY <2>1, <2>3, <2>4, <3>1 DEF RightResult, Right
  <2>5. CASE bridge \notin Bridge!Senders
    BY <2>1, <2>5 DEF RightResult, Right, Bridge!ec
  <2> QED BY <2>4, <2>5
<1>6. UNCHANGED <<bridge, has_ec>>
  OBVIOUS
<1> QED BY <1>1, <1>2, <1>3, <1>4, <1>5, <1>6, Settled

\* The result that is stored is still there when the waiter is on its way.
LEMMA ResultStays ==
  ASSUME BridgeInv, NEW w \in Bridged, UNCHANGED <<bridge, has_ec>>,
         sent'[w] = sent[w], result_'[w] = result_[w], op'[w] # "ready",
         Due(w)
  PROVE  RightResult(w)'
<1>1. RightResult(w)
  BY Known
<1>2. bridge' = bridge /\ has_ec' = has_ec
  OBVIOUS
<1>3. Bridge!index(sent[w])' = Bridge!index(sent[w])
  BY <1>2 DEF Bridge!index
<1>4. Right(w)
  BY <1>1 DEF RightResult
<1>5. Right(w)'
  BY <1>2, <1>3, <1>4 DEF Right, Bridge!ec
<1> QED BY <1>5 DEF RightResult

\* The work is over, and the waiter is handed on or given up.
LEMMA WorkOver ==
  ASSUME BridgeInv, NEW w \in Bridged, op[w] \in {"pending", "stored"}, bridge # "stdexec",
         op' = [op EXCEPT ![w] = "over"], NEW c \in {"queued", "given up"}, Bridge!Hand(w, c),
         NEW s \in Outcomes, Put(sent', sent, w, s), UNCHANGED result_,
         UNCHANGED <<bridge, has_ec, aw, bridge_got, done_>>,
         \/ op[w] = "stored" /\ s = sent[w]
         \/ bridge = "copy" /\ s \in Bridge!Ended
         \/ bridge = "asio" /\ c = "given up",
         StreamError', BridgeLists', ServiceTypes'
  PROVE  BridgeInv'
<1>0. bridge_co[w] = "suspended" /\ aw[w] # "before" /\ hands[w] = 0 /\ bridge_got[w] = "none"
  BY Known DEF BridgeStages
<1>1. Writes(w, aw[w], "over", s, result_[w], c, 1, "none")
  BY <1>0, Known, HandedOn DEF Writes, Put, Aws, Ops, Cos, Outcomes
<1>2. Has(w, aw[w], "over", s, result_[w], c, 1, "none") /\ done_' \in {done_, done_ \cup {w}}
  BY <1>1, WaiterWritten DEF BridgeInv
<1>3. BridgeStages(w)'
  BY <1>0, <1>2 DEF Has, BridgeStages
<1>4. SecondResumes(w)'
  BY DEF SecondResumes
<1>5. RightResult(w)'
  <2>1. /\ op'[w] = "over" /\ bridge_co'[w] = c /\ sent'[w] = s /\ result_'[w] = result_[w]
        /\ bridge' = bridge
    BY <1>2 DEF Has
  <2>2. CASE op[w] = "stored" /\ s = sent[w]
    BY <2>1, <2>2, ResultStays DEF Due
  <2>3. CASE bridge = "copy" /\ s \in Bridge!Ended
    BY <2>1, <2>3 DEF RightResult, Right, Bridge!Senders
  <2>4. CASE bridge = "asio" /\ c = "given up"
    BY <2>1, <2>4 DEF RightResult, Due, Bridge!Senders
  <2> QED BY <2>2, <2>3, <2>4
<1>6. UNCHANGED <<bridge, has_ec>>
  OBVIOUS
<1> QED BY <1>1, <1>2, <1>3, <1>4, <1>5, <1>6, Settled

\* The receivers of the senders.
LEMMA ReceiverStep ==
  ASSUME BridgeInv, NEW w \in Bridged,
         Bridge!receive(w) \/ Bridge!receiver_post(w) \/ Bridge!resume_if_ready(w)
  PROVE  BridgeInv'
<1>1. CASE Bridge!receive(w)
  <2>1. /\ bridge \in {"beman", "stdexec"} /\ op[w] = "pending" /\ Bridge!Outside
        /\ UNCHANGED <<done_, bridge_co, hands>>
    BY <1>1 DEF Bridge!receive, Bridge!Senders
  <2>2. PICK s \in {"value", "exception", "stopped"}
                       \cup (IF has_ec = "yes" THEN {"code"} ELSE {}) :
                 Bridge!Store(w, s, Bridge!index(s))
    BY <1>1 DEF Bridge!receive
  <2>3. s \in {"value", "exception", "stopped", "code"} /\ (has_ec = "no" => s # "code")
    BY <2>2
  <2>4. Bridge!index(s) \in 0 .. 4
    BY <2>3, SMTT(30) DEF Bridge!index
  <2>5. s \in Outcomes
    BY <2>3 DEF Outcomes
  <2>6. /\ UNCHANGED <<bridge, has_ec, aw, bridge_got>>
        /\ StreamError' /\ ServiceTypes' /\ BridgeLists'
    BY <2>1, OnlyTheWork
  <2>7. UNCHANGED <<bridge, has_ec, aw, bridge_got, done_, bridge_co, hands>>
    BY <2>1, <2>6
  <2>8. bridge \in Bridge!Senders /\ bridge # "callback"
    BY <2>1 DEF Bridge!Senders
  <2> QED BY <2>1, <2>2, <2>3, <2>4, <2>5, <2>6, <2>7, <2>8, ResultStored
<1>2. CASE Bridge!receiver_post(w)
  <2>1. /\ bridge = "beman" /\ op[w] = "stored" /\ Bridge!Outside
        /\ op' = [op EXCEPT ![w] = "over"] /\ UNCHANGED <<sent, result_, done_>>
    BY <1>2 DEF Bridge!receiver_post
  <2>2. PICK c \in {"queued", "given up"} : Bridge!Hand(w, c)
    BY <1>2 DEF Bridge!receiver_post, Bridge!post, Bridge!abandon
  <2>3. /\ UNCHANGED <<bridge, has_ec, aw, bridge_got>>
        /\ StreamError' /\ ServiceTypes' /\ BridgeLists'
    BY <2>1, OnlyTheWork
  <2>4. Put(sent', sent, w, sent[w]) /\ sent[w] \in Outcomes
    BY <2>1, Known DEF Put
  <2> QED BY <2>1, <2>2, <2>3, <2>4, WorkOver
<1>3. CASE Bridge!resume_if_ready(w)
  <2>1. /\ bridge = "stdexec" /\ op[w] = "stored" /\ Bridge!Outside
        /\ op' = [op EXCEPT ![w] = "over"] /\ UNCHANGED <<sent, result_>>
        /\ done_' = done_ \cup {w}
        /\ IF w \in done_ THEN Bridge!Hand(w, "resumed") ELSE UNCHANGED <<bridge_co, hands>>
    BY <1>3 DEF Bridge!resume_if_ready
  <2>2. /\ UNCHANGED <<bridge, has_ec, aw, bridge_got>>
        /\ StreamError' /\ ServiceTypes' /\ BridgeLists'
    BY <2>1, OnlyTheWork
  <2>3. /\ bridge_co[w] = "suspended" /\ aw[w] # "before" /\ hands[w] = 0
        /\ bridge_got[w] = "none" /\ (aw[w] = "inside" => w \notin done_)
        /\ aw[w] = "over" => w \in done_
    BY <2>1, Known DEF BridgeStages, SecondResumes
  <2>4. PICK c, h : /\ c = IF w \in done_ THEN "resumed" ELSE "suspended"
                    /\ h = IF w \in done_ THEN 1 ELSE 0
    OBVIOUS
  <2>5. Put(hands', hands, w, h) /\ Put(bridge_co', bridge_co, w, c)
    <3>1. CASE w \in done_
      BY <2>1, <2>3, <2>4, <3>1, HandedOn
    <3>2. CASE w \notin done_
      BY <2>1, <2>3, <2>4, <3>2 DEF Put
    <3> QED BY <3>1, <3>2
  <2>6. c \in {"resumed", "suspended"} /\ h \in {0, 1}
    BY <2>4
  <2>7. Writes(w, aw[w], "over", sent[w], result_[w], c, h, "none")
    BY <2>1, <2>2, <2>3, <2>5, <2>6, Known DEF Writes, Put, Aws, Ops, Cos, Outcomes
  <2>8. Has(w, aw[w], "over", sent[w], result_[w], c, h, "none")
    BY <2>1, <2>7, WaiterWritten DEF BridgeInv
  <2>9. BridgeStages(w)'
    BY <2>3, <2>4, <2>8 DEF Has, BridgeStages
  <2>10. SecondResumes(w)'
    BY <2>1, <2>2, <2>3, <2>4, <2>8, Known DEF Has, SecondResumes, Aws
  <2>11. RightResult(w)'
    BY <2>1, <2>2, <2>8, ResultStays DEF Has, Due
  <2>12. done_' \in {done_, done_ \cup {w}} /\ UNCHANGED <<bridge, has_ec>>
    BY <2>1, <2>2
  <2> QED BY <2>2, <2>7, <2>9, <2>10, <2>11, <2>12, Settled
<1> QED BY <1>1, <1>2, <1>3

\* Asio's handlers.
LEMMA AsioStep ==
  ASSUME BridgeInv, NEW w \in Bridged,
         Bridge!store_result(w) \/ Bridge!handler(w) \/ Bridge!destroy_handler(w)
  PROVE  BridgeInv'
<1>1. bridge = "asio" /\ op[w] \in {"pending", "stored"} /\ Bridge!Outside /\ UNCHANGED done_
  BY DEF Bridge!store_result, Bridge!handler, Bridge!destroy_handler
<1>2. /\ UNCHANGED <<bridge, has_ec, aw, bridge_got, done_>>
      /\ StreamError' /\ ServiceTypes' /\ BridgeLists'
  BY <1>1, OnlyTheWork
<1>3. CASE Bridge!store_result(w)
  <2>1. op[w] = "pending" /\ UNCHANGED <<bridge_co, hands>>
    BY <1>3 DEF Bridge!store_result
  <2>2. PICK s \in Bridge!Ended : Bridge!Store(w, s, Bridge!ec(s))
    BY <1>3 DEF Bridge!store_result
  <2>3. Bridge!ec(s) \in 0 .. 4
    BY SMTT(30) DEF Bridge!ec
  <2>4. s \in Outcomes
    BY DEF Outcomes, Bridge!Ended
  <2>5. bridge \notin Bridge!Senders /\ bridge # "callback"
    BY <1>1 DEF Bridge!Senders
  <2>6. UNCHANGED <<bridge, has_ec, aw, bridge_got, done_, bridge_co, hands>>
    BY <1>2, <2>1
  <2> QED BY <1>2, <2>1, <2>2, <2>3, <2>4, <2>5, <2>6, ResultStored
<1>4. CASE Bridge!handler(w)
  <2>1. op[w] = "stored" /\ op' = [op EXCEPT ![w] = "over"] /\ UNCHANGED <<sent, result_>>
    BY <1>4 DEF Bridge!handler
  <2>2. PICK c \in {"queued", "given up"} : Bridge!Hand(w, c)
    <3>1. PICK o \in Bridge!net_post :
             /\ bridge_co' = [bridge_co EXCEPT ![w] = IF o = "queued" THEN "queued" ELSE "given up"]
             /\ hands' = [hands EXCEPT ![w] = hands[w] + (IF o = "not taken" THEN 0 ELSE 1)
                              + (IF Bridge!asio_post_throws(o) THEN 1 ELSE 0)]
      BY <1>4 DEF Bridge!handler
    <3>2. hands[w] + 1 + 0 = hands[w] + 1 /\ hands[w] + 0 + 1 = hands[w] + 1
      <4>1. hands[w] \in {0, 1}
        BY Known
      <4> QED BY <4>1, SMTT(30)
    <3>3. hands[w] + (IF o = "not taken" THEN 0 ELSE 1)
             + (IF Bridge!asio_post_throws(o) THEN 1 ELSE 0) = hands[w] + 1
      <4>1. CASE o = "not taken"
        BY <3>2, <4>1 DEF Bridge!asio_post_throws
      <4>2. CASE o # "not taken"
        BY <3>2, <4>2 DEF Bridge!asio_post_throws
      <4> QED BY <4>1, <4>2
    <3>4. PICK c \in {"queued", "given up"} : c = IF o = "queued" THEN "queued" ELSE "given up"
      OBVIOUS
    <3> QED BY <3>1, <3>3, <3>4 DEF Bridge!Hand
  <2>3. Put(sent', sent, w, sent[w]) /\ sent[w] \in Outcomes
    BY <2>1, Known DEF Put
  <2> QED BY <1>1, <1>2, <2>1, <2>2, <2>3, WorkOver
<1>5. CASE Bridge!destroy_handler(w)
  <2>1. /\ op[w] = "pending" /\ op' = [op EXCEPT ![w] = "over"] /\ UNCHANGED <<sent, result_>>
        /\ Bridge!Hand(w, "given up")
    BY <1>5 DEF Bridge!destroy_handler, Bridge!abandon
  <2>2. Put(sent', sent, w, sent[w]) /\ sent[w] \in Outcomes
    BY <2>1, Known DEF Put
  <2>3. PICK c \in {"queued", "given up"} : c = "given up"
    OBVIOUS
  <2>4. Bridge!Hand(w, c)
    BY <2>1, <2>3
  <2> QED BY <1>1, <1>2, <2>1, <2>2, <2>3, <2>4, WorkOver
<1> QED BY <1>3, <1>4, <1>5

\* The callbacks of the driver.
LEMMA DriverStep ==
  ASSUME BridgeInv, NEW w \in Bridged, Bridge!on_complete(w) \/ Bridge!copy_complete(w)
  PROVE  BridgeInv'
<1>1. /\ bridge \in {"callback", "copy"} /\ op[w] \in {"pending", "stored"} /\ Bridge!Outside
      /\ UNCHANGED done_
  BY DEF Bridge!on_complete, Bridge!copy_complete
<1>2. /\ UNCHANGED <<bridge, has_ec, aw, bridge_got, done_>>
      /\ StreamError' /\ ServiceTypes' /\ BridgeLists'
  BY <1>1, OnlyTheWork
<1>3. CASE Bridge!on_complete(w)
  <2>1. bridge = "callback"
    BY <1>3 DEF Bridge!on_complete
  <2>2. CASE /\ op[w] = "pending" /\ \E s \in Bridge!Ended : Bridge!Store(w, s, 1)
             /\ UNCHANGED <<bridge_co, hands>>
    <3>1. PICK s \in Bridge!Ended : Bridge!Store(w, s, 1)
      BY <2>2
    <3>2. PICK r : r = 1
      OBVIOUS
    <3>3. r \in 0 .. 4 /\ r # 2
      BY <3>2, SMTT(30)
    <3>4. s \in Outcomes
      BY DEF Outcomes, Bridge!Ended
    <3>5. bridge \notin Bridge!Senders /\ bridge \in Bridge!Senders \cup {"callback"}
      BY <2>1 DEF Bridge!Senders
    <3>6. UNCHANGED <<bridge, has_ec, aw, bridge_got, done_, bridge_co, hands>>
      BY <1>2, <2>2
    <3>7. Bridge!Store(w, s, r) /\ op[w] \in {"pending", "ready"}
      BY <2>2, <3>1, <3>2
    <3> HIDE <3>2
    <3> QED BY <1>2, <3>3, <3>4, <3>5, <3>6, <3>7, ResultStored
  <2>3. CASE /\ op[w] = "stored" /\ Bridge!post(w) /\ op' = [op EXCEPT ![w] = "over"]
             /\ UNCHANGED <<sent, result_>>
    <3>1. PICK c \in {"queued", "given up"} : Bridge!Hand(w, c)
      BY <2>3 DEF Bridge!post, Bridge!abandon
    <3>2. Put(sent', sent, w, sent[w]) /\ sent[w] \in Outcomes
      BY <2>3, Known DEF Put
    <3> QED BY <1>2, <2>1, <2>3, <3>1, <3>2, WorkOver
  <2> QED BY <1>3, <2>2, <2>3 DEF Bridge!on_complete
<1>4. CASE Bridge!copy_complete(w)
  <2>1. /\ bridge = "copy" /\ op[w] = "pending" /\ op' = [op EXCEPT ![w] = "over"]
        /\ UNCHANGED result_
    BY <1>4 DEF Bridge!copy_complete
  <2>2. PICK c \in {"queued", "given up"} : Bridge!Hand(w, c)
    BY <1>4 DEF Bridge!copy_complete, Bridge!post, Bridge!abandon
  <2>3. PICK s \in Bridge!Ended : sent' = [sent EXCEPT ![w] = s]
    BY <1>4 DEF Bridge!copy_complete
  <2>4. Put(sent', sent, w, s) /\ s \in Outcomes
    BY <2>3 DEF Put, Outcomes, Bridge!Ended
  <2> QED BY <1>2, <2>1, <2>2, <2>3, <2>4, WorkOver
<1> QED BY <1>3, <1>4

\* The device is done with the work, and nobody has seen it yet.
LEMMA DeviceStep ==
  ASSUME BridgeInv, NEW w \in Bridged, Bridge!device(w)
  PROVE  BridgeInv'
<1>1. /\ bridge \in {"poll", "deferred"} /\ op[w] = "pending" /\ op' = [op EXCEPT ![w] = "ready"]
      /\ UNCHANGED <<result_, done_, bridge_co, hands>> /\ Bridge!Outside
  BY DEF Bridge!device
<1>2. PICK s \in Bridge!Ended : sent' = [sent EXCEPT ![w] = s]
  BY DEF Bridge!device
<1>3. UNCHANGED <<bridge, has_ec, aw, bridge_got>> /\ StreamError' /\ ServiceTypes'
  BY <1>1, OnlyTheWork
<1>4. bridge_co[w] = "suspended" /\ bridge_got[w] = "none" /\ s \in Outcomes
  BY <1>1, Known DEF BridgeStages, Bridge!Ended, Outcomes
<1>5. Writes(w, aw[w], "ready", s, result_[w], "suspended", hands[w], "none")
  BY <1>1, <1>2, <1>3, <1>4, Known DEF Writes, Put, Aws, Ops, Cos, Outcomes
<1>6. Has(w, aw[w], "ready", s, result_[w], "suspended", hands[w], "none")
  BY <1>1, <1>5, WaiterWritten DEF BridgeInv
<1>7. BridgeStages(w)'
  BY <1>1, <1>4, <1>6, Known DEF Has, BridgeStages
<1>8. SecondResumes(w)'
  BY <1>1, <1>3 DEF SecondResumes
<1>9. RightResult(w)'
  BY <1>1, <1>3, <1>6 DEF Has, RightResult, Due, Bridge!Senders
<1>10. BridgeLists'
  <2>1. UNCHANGED <<bridge, list, ready_, worker>> /\ bridge # "dialog"
    BY <1>1 DEF Bridge!Outside, Bridge!service_vars
  <2>2. /\ op'[w] = "ready" /\ \A u \in Bridged \ {w} : op'[u] = op[u]
    <3>1. op \in [Bridged -> Ops]
      BY DEF BridgeInv, WaiterTypes
    <3> QED BY <1>1, <3>1
  <2>3. \A u \in Elems(list) : op'[u] \in {"pending", "ready"}
    BY <2>1, <2>2, InServices DEF BridgeInv, BridgeLists
  <2>4. \A u \in Elems(ready_) : IF worker = "job" THEN op'[u] \in {"pending", "ready"} /\ u \notin Elems(list)
                                 ELSE op'[u] = "stored"
    <3> SUFFICES ASSUME NEW u \in Elems(ready_)
                 PROVE  IF worker = "job" THEN op'[u] \in {"pending", "ready"} /\ u \notin Elems(list)
                        ELSE op'[u] = "stored"
      OBVIOUS
    <3>1. IF worker = "job" THEN op[u] \in {"pending", "ready"} /\ u \notin Elems(list)
          ELSE op[u] = "stored"
      BY DEF BridgeInv, BridgeLists
    <3>2. u \in Bridged
      BY InServices
    <3> QED BY <1>1, <2>2, <3>1, <3>2
  <2>5. /\ Distinct(list) /\ Distinct(ready_)
        /\ worker \in {"unlocked", "scan", "post"} => bridge = "poll"
        /\ worker \in {"job", "posting"} => bridge = "deferred" /\ Len(ready_) = 1
        /\ bridge = "deferred" /\ worker \notin {"job", "posting"} => ready_ = <<>>
    BY DEF BridgeInv, BridgeLists
  <2>6. /\ list' = list /\ ready_' = ready_ /\ worker' = worker /\ bridge' = bridge
        /\ Elems(list') = Elems(list) /\ Elems(ready_') = Elems(ready_)
    BY <2>1
  <2>7. bridge' \in {"poll", "deferred"}
    BY <1>1, <2>6
  <2> QED BY <2>3, <2>4, <2>5, <2>6, <2>7 DEF BridgeLists
<1> QED BY <1>1, <1>3, <1>5, <1>7, <1>8, <1>9, <1>10, Settled

-----------------------------------------------------------------------------
(* The bridges: the waiter itself.                                         *)

\* The lists do not change with a waiter that is not in them.
LEMMA Elsewhere ==
  ASSUME BridgeInv, NEW w \in Bridged, w \notin Elems(list) \cup Elems(ready_),
         NEW a, NEW o, NEW s, NEW r, NEW c, NEW h, NEW g, Writes(w, a, o, s, r, c, h, g),
         done_' \in {done_, done_ \cup {w}},
         UNCHANGED <<bridge, list, at, ready_>>,
         worker' = worker \/ {worker, worker'} \subseteq {"check", "asleep", "exited", "closed"}
  PROVE  BridgeLists'
<1>1. \A u \in Bridged \ {w} : SameBridged(u)
  BY WaiterWritten DEF BridgeInv
<1>2. \A u \in Elems(list) \cup Elems(ready_) : bridge_co'[u] = bridge_co[u] /\ op'[u] = op[u]
  BY <1>1, InServices DEF SameBridged
<1> QED BY <1>2, ListsStay

\* The end of await_suspend().
LEMMA ReturnStep ==
  ASSUME BridgeInv, NEW w \in Bridged, Bridge!suspend_return(w)
  PROVE  BridgeInv'
<1>1. /\ aw[w] = "inside" /\ aw' = [aw EXCEPT ![w] = "over"]
      /\ worker' = (IF bridge = "deferred" /\ worker = "asleep" THEN "check" ELSE worker)
      /\ UNCHANGED <<bridge, has_ec, op, sent, result_, error_, bridge_got, list, at, ready_>>
  BY DEF Bridge!suspend_return
<1>2. ServiceTypes' /\ UNCHANGED <<bridge, has_ec>>
  BY <1>1 DEF BridgeInv, ServiceTypes
<1>3. worker' = worker \/ {worker, worker'} \subseteq {"check", "asleep", "exited", "closed"}
  BY <1>1
<1>4. bridge_co[w] # "running"
  BY <1>1, Known DEF BridgeStages
<1>5. CASE bridge = "stdexec" /\ w \in done_
  <2>1. done_' = done_ \cup {w} /\ Bridge!Hand(w, "resumed")
    BY <1>5 DEF Bridge!suspend_return
  <2>2. bridge_co[w] = "suspended" /\ op[w] = "over" /\ bridge_got[w] = "none"
    BY <1>1, <1>5, Known DEF BridgeStages, SecondResumes
  <2>3. Writes(w, "over", "over", sent[w], result_[w], "resumed", 1, "none")
    BY <1>1, <2>1, <2>2, Known, HandedOn DEF Writes, Put, Aws, Ops, Cos, Outcomes
  <2>4. Has(w, "over", "over", sent[w], result_[w], "resumed", 1, "none")
    BY <2>1, <2>3, WaiterWritten DEF BridgeInv
  <2>5. BridgeStages(w)' /\ SecondResumes(w)'
    BY <2>1, <2>4 DEF Has, BridgeStages, SecondResumes
  <2>6. RightResult(w)'
    BY <1>2, <1>5, <2>2, <2>4, ResultStays DEF Has, Due, Bridge!Senders
  <2>7. StreamError'
    BY <1>1, <1>5, ErrorStays
  <2>8. BridgeLists'
    BY <1>1, <1>5, NoLists
  <2>9. done_' \in {done_, done_ \cup {w}}
    BY <2>1
  <2> QED BY <1>2, <2>3, <2>5, <2>6, <2>7, <2>8, <2>9, Settled
<1>6. CASE ~(bridge = "stdexec" /\ w \in done_)
  <2>1. /\ UNCHANGED <<bridge_co, hands>>
        /\ IF bridge = "stdexec" THEN done_' = done_ \cup {w} ELSE done_' = done_
    BY <1>6 DEF Bridge!suspend_return
  <2>2. Writes(w, "over", op[w], sent[w], result_[w], bridge_co[w], hands[w], bridge_got[w])
    BY <1>1, <2>1, Known DEF Writes, Put, Aws
  <2>3. done_' \in {done_, done_ \cup {w}}
    BY <2>1
  <2>4. Has(w, "over", op[w], sent[w], result_[w], bridge_co[w], hands[w], bridge_got[w])
    BY <2>2, <2>3, WaiterWritten DEF BridgeInv
  <2>5. BridgeStages(w)'
    BY <1>4, <2>4, Known DEF Has, BridgeStages
  <2>6. SecondResumes(w)'
    BY <1>1, <1>2, <1>6, <2>1, <2>4, Known DEF Has, SecondResumes
  <2>7. RightResult(w)'
    <3>1. RightResult(w) /\ bridge' = bridge /\ has_ec' = has_ec
      BY <1>2, Known
    <3>2. Bridge!index(sent[w])' = Bridge!index(sent[w])
      BY <2>4, <3>1 DEF Has, Bridge!index
    <3> QED BY <2>4, <3>1, <3>2 DEF Has, RightResult, Due, Right, Bridge!ec
  <2>8. StreamError'
    BY <1>1, <2>1 DEF BridgeInv, StreamError
  <2>9. BridgeLists'
    BY <1>1, <1>3, <2>1, ListsStay
  <2> QED BY <1>2, <2>2, <2>3, <2>5, <2>6, <2>7, <2>8, <2>9, Settled
<1> QED BY <1>5, <1>6

\* What the executors and the scopes of the waiters do.
LEMMA RunStep ==
  ASSUME BridgeInv, NEW w \in Bridged, Bridge!run(w) \/ Bridge!unwind(w)
  PROVE  BridgeInv'
<1>1. UNCHANGED <<bridge, has_ec, aw, op, sent, result_, done_, error_, hands, bridge_got,
                  list, at, ready_, worker>>
  BY DEF Bridge!run, Bridge!unwind, Bridge!op_vars, Bridge!service_vars
<1>2. PICK c \in {"resumed", "given up", "gone"} :
          /\ bridge_co' = [bridge_co EXCEPT ![w] = c]
          /\ IF c = "gone" THEN bridge_co[w] = "given up" ELSE bridge_co[w] = "queued" /\ bridge # "dialog"
  BY DEF Bridge!run, Bridge!unwind
<1>3. /\ bridge_co[w] \in {"queued", "given up"} /\ aw[w] # "before" /\ op[w] = "over"
      /\ hands[w] = 1 /\ bridge_got[w] = "none"
  BY <1>2, Known DEF BridgeStages, Ops
<1>4. Writes(w, aw[w], "over", sent[w], result_[w], c, 1, "none")
  BY <1>1, <1>2, <1>3, Known DEF Writes, Put, Aws, Ops, Cos, Outcomes
<1>5. Has(w, aw[w], "over", sent[w], result_[w], c, 1, "none") /\ done_' \in {done_, done_ \cup {w}}
  BY <1>1, <1>4, WaiterWritten DEF BridgeInv
<1>6. UNCHANGED <<bridge, has_ec>> /\ ServiceTypes'
  BY <1>1 DEF BridgeInv, ServiceTypes
<1>7. BridgeStages(w)'
  BY <1>3, <1>5 DEF Has, BridgeStages
<1>8. bridge # "stdexec"
  BY <1>3, Known DEF SecondResumes
<1>9. SecondResumes(w)'
  BY <1>6, <1>8 DEF SecondResumes
<1>10. RightResult(w)'
  <2>1. CASE c = "gone" /\ bridge \notin Bridge!Senders
    BY <1>5, <1>6, <2>1 DEF Has, RightResult, Due
  <2>2. CASE ~(c = "gone" /\ bridge \notin Bridge!Senders)
    <3>1. Due(w)
      BY <1>2, <1>3, <2>2 DEF Due
    <3> QED BY <1>5, <1>6, <3>1, ResultStays DEF Has
  <2> QED BY <2>1, <2>2
<1>11. StreamError'
  <2>1. CASE error_ # "yes"
    BY <1>1, <2>1, ErrorStays
  <2>2. CASE error_ = "yes"
    <3>1. /\ bridge = "copy" /\ bridge_co[w] = "given up" /\ c = "gone"
          /\ \E u \in Bridged : bridge_co[u] = "resumed"
          /\ \A u \in Bridged : bridge_co[u] \in {"suspended", "queued", "resumed"} =>
                 bridge_co[u] = "resumed" /\ sent[u] = "code"
      BY <1>2, <1>3, <2>2 DEF BridgeInv, StreamError
    <3>2. bridge_co'[w] = "gone" /\ \A u \in Bridged \ {w} : bridge_co'[u] = bridge_co[u]
      <4>1. bridge_co \in [Bridged -> Cos]
        BY DEF BridgeInv, WaiterTypes
      <4> QED BY <1>2, <3>1, <4>1
    <3>3. bridge' = bridge /\ sent' = sent
      BY <1>1
    <3>4. PICK u \in Bridged : bridge_co[u] = "resumed"
      BY <3>1
    <3>5. bridge_co'[u] = "resumed"
      BY <3>1, <3>2, <3>4
    <3> QED BY <3>1, <3>2, <3>3, <3>5 DEF StreamError
  <2> QED BY <2>1, <2>2
<1>12. w \notin Elems(list) \cup Elems(ready_)
  BY <1>2, <1>3, InServices
<1>13. BridgeLists'
  BY <1>1, <1>4, <1>5, <1>12, Elsewhere
<1> QED BY <1>4, <1>5, <1>6, <1>7, <1>9, <1>10, <1>11, <1>13, Settled

\* await_resume() gives the waiter what its work ended with.
LEMMA GivenWhatWasSent ==
  ASSUME BridgeInv, NEW w \in Bridged, Bridge!await_resume(w)
  PROVE  bridge_got' = [bridge_got EXCEPT ![w] = sent[w]]
<1>1. bridge_co[w] = "resumed"
  BY DEF Bridge!await_resume
<1>2. Right(w) /\ has_ec \in {"yes", "no"}
  BY <1>1, Known DEF RightResult, Due, Flag
<1> DEFINE G == CASE bridge \in Bridge!Senders /\ has_ec = "yes" -> Bridge!await_resume_ec(result_[w])
                 [] bridge \in Bridge!Senders /\ has_ec = "no" -> Bridge!await_resume_no_ec(result_[w])
                 [] bridge = "callback" -> Bridge!await_resume_query(w)
                 [] bridge = "copy" -> Bridge!await_resume_copy(w)
                 [] OTHER -> Bridge!await_resume_code(result_[w])
<1>a. bridge_got' = [bridge_got EXCEPT ![w] = G]
  BY DEF Bridge!await_resume
<1>3. ASSUME bridge \in Bridge!Senders /\ has_ec = "yes" PROVE G = sent[w]
  <2>1. Bridge!await_resume_ec(result_[w]) = sent[w]
    BY <1>2, <1>3, SMTT(30) DEF Right, Bridge!index, Bridge!await_resume_ec
  <2>2. G = Bridge!await_resume_ec(result_[w])
    BY <1>3 DEF Bridge!Senders
  <2> QED BY <2>1, <2>2
<1>4. ASSUME bridge \in Bridge!Senders /\ has_ec = "no" PROVE G = sent[w]
  <2>1. Bridge!await_resume_no_ec(result_[w]) = sent[w]
    BY <1>2, <1>4, SMTT(30) DEF Right, Bridge!index, Bridge!await_resume_no_ec
  <2>2. G = Bridge!await_resume_no_ec(result_[w])
    BY <1>4 DEF Bridge!Senders
  <2> QED BY <2>1, <2>2
<1>5. ASSUME bridge \notin Bridge!Senders /\ bridge = "callback" PROVE G = sent[w]
  <2>1. Bridge!await_resume_query(w) = sent[w]
    BY <1>2, <1>5, SMTT(30) DEF Right, Bridge!Ended, Bridge!await_resume_query
  <2>2. G = Bridge!await_resume_query(w)
    BY <1>5 DEF Bridge!Senders
  <2> QED BY <2>1, <2>2
<1>6. ASSUME bridge \notin Bridge!Senders /\ bridge = "copy" PROVE G = sent[w]
  <2>1. error_ = "yes" => sent[w] = "code"
    BY <1>1 DEF BridgeInv, StreamError
  <2>2. Bridge!await_resume_copy(w) = sent[w]
    BY <1>2, <1>6, <2>1, SMTT(30) DEF Right, Bridge!Ended, Bridge!await_resume_copy
  <2>3. G = Bridge!await_resume_copy(w)
    BY <1>6 DEF Bridge!Senders
  <2> QED BY <2>2, <2>3
<1>7. ASSUME bridge \notin Bridge!Senders /\ bridge \notin {"callback", "copy"} PROVE G = sent[w]
  <2>1. Bridge!await_resume_code(result_[w]) = sent[w]
    BY <1>2, <1>7, SMTT(30) DEF Right, Bridge!Ended, Bridge!ec, Bridge!await_resume_code
  <2>2. G = Bridge!await_resume_code(result_[w])
    BY <1>7 DEF Bridge!Senders
  <2> QED BY <2>1, <2>2
<1> HIDE DEF G
<1> QED BY <1>a, <1>2, <1>3, <1>4, <1>5, <1>6, <1>7

\* await_resume(), when the coroutine goes on and ends.
LEMMA AwaitResumeStep ==
  ASSUME BridgeInv, NEW w \in Bridged, Bridge!await_resume(w)
  PROVE  BridgeInv'
<1>1. /\ bridge_co[w] = "resumed" /\ bridge_co' = [bridge_co EXCEPT ![w] = "gone"] /\ error_' = "no"
      /\ UNCHANGED <<bridge, has_ec, aw, op, sent, result_, done_, hands, list, at, ready_, worker>>
  BY DEF Bridge!await_resume, Bridge!service_vars
<1>2. aw[w] # "before" /\ op[w] = "over" /\ hands[w] = 1
  BY <1>1, Known DEF BridgeStages, Ops
<1>3. Writes(w, aw[w], "over", sent[w], result_[w], "gone", 1, sent[w])
  BY <1>1, <1>2, Known, GivenWhatWasSent DEF Writes, Put, Aws, Ops, Cos, Outcomes
<1>4. Has(w, aw[w], "over", sent[w], result_[w], "gone", 1, sent[w]) /\ done_' \in {done_, done_ \cup {w}}
  BY <1>1, <1>3, WaiterWritten DEF BridgeInv
<1>5. UNCHANGED <<bridge, has_ec>> /\ ServiceTypes'
  BY <1>1 DEF BridgeInv, ServiceTypes, Flag
<1>6. BridgeStages(w)'
  BY <1>2, <1>4 DEF Has, BridgeStages
<1>7. SecondResumes(w)'
  BY <1>1, <1>2, <1>4, <1>5, Known DEF Has, SecondResumes
<1>8. RightResult(w)'
  BY <1>1, <1>4, <1>5, ResultStays DEF Has, Due
<1>9. StreamError'
  BY <1>1 DEF StreamError
<1>10. w \notin Elems(list) \cup Elems(ready_)
  BY <1>1, InServices
<1>11. BridgeLists'
  BY <1>1, <1>3, <1>4, <1>10, Elsewhere
<1> QED BY <1>3, <1>4, <1>5, <1>6, <1>7, <1>8, <1>9, <1>11, Settled

-----------------------------------------------------------------------------
(* The bridges: the services and the GUI.                                  *)

\* A list of one element.
LEMMA Single ==
  ASSUME NEW S, NEW e \in S
  PROVE  <<e>> \in Seq(S) /\ Distinct(<<e>>) /\ Elems(<<e>>) = {e} /\ Len(<<e>>) = 1
<1>1. <<e>> \in Seq(S) /\ Len(<<e>>) = 1 /\ DOMAIN <<e>> = {1} /\ <<e>>[1] = e
  BY SMTT(30)
<1>2. Elems(<<e>>) = {e}
  BY <1>1 DEF Elems
<1>3. Distinct(<<e>>)
  BY <1>1 DEF Distinct
<1> QED BY <1>1, <1>2, <1>3

\* The element of a list that has one.
LEMMA OnlyOne ==
  ASSUME NEW S, NEW s \in Seq(S), Len(s) = 1
  PROVE  s[1] \in S /\ Elems(s) = {s[1]}
<1>1. DOMAIN s = {1} /\ s[1] \in S
  BY SMTT(30)
<1> QED BY <1>1 DEF Elems

\* A list of none.
LEMMA Empty == Elems(<<>>) = {} /\ Distinct(<<>>)
<1>1. DOMAIN <<>> = {}
  BY SMTT(30)
<1> QED BY <1>1 DEF Elems, Distinct

\* An element is overwritten with the last one, which is then dropped.
LEMMA SwappedOut ==
  ASSUME NEW S, NEW s \in Seq(S), Distinct(s), NEW k \in 1 .. Len(s),
         NEW r, r = SubSeq([s EXCEPT ![k] = s[Len(s)]], 1, Len(s) - 1)
  PROVE  r \in Seq(S) /\ Distinct(r) /\ Elems(r) = Elems(s) \ {s[k]}
<1>1. /\ Len(s) \in Nat /\ Len(s) > 0 /\ DOMAIN s = 1 .. Len(s) /\ k \in Nat
      /\ \A i \in 1 .. Len(s) : s[i] \in S
  BY SMTT(30)
<1> DEFINE t == [s EXCEPT ![k] = s[Len(s)]]
<1>2. t \in Seq(S) /\ Len(t) = Len(s) /\ \A i \in 1 .. Len(s) : t[i] = IF i = k THEN s[Len(s)] ELSE s[i]
  BY <1>1, SMTT(30)
<1>3. r = SubSeq(t, 1, Len(s) - 1)
  OBVIOUS
<1> HIDE DEF t
<1>4. r \in Seq(S) /\ Len(r) = Len(s) - 1 /\ \A i \in 1 .. Len(s) - 1 : r[i] = t[i]
  BY <1>1, <1>2, <1>3, SMTT(30)
<1>5. DOMAIN r = 1 .. Len(s) - 1
  BY <1>1, <1>4, SMTT(30)
<1>6. \A i \in DOMAIN r : i \in DOMAIN s /\ i # Len(s) /\ r[i] = IF i = k THEN s[Len(s)] ELSE s[i]
  BY <1>1, <1>2, <1>4, <1>5, SMTT(30)
<1>7. Len(s) \in DOMAIN s /\ k \in DOMAIN s /\ \A i \in DOMAIN s : i # Len(s) => i \in DOMAIN r
  BY <1>1, <1>5, SMTT(30)
<1>8. Distinct(r)
  <2> SUFFICES ASSUME NEW i \in DOMAIN r, NEW j \in DOMAIN r, r[i] = r[j] PROVE i = j
    BY DEF Distinct
  <2>1. \A x, y \in DOMAIN s : s[x] = s[y] => x = y
    BY DEF Distinct
  <2>2. CASE i = k /\ j # k
    BY <1>6, <1>7, <2>1, <2>2
  <2>3. CASE i # k /\ j = k
    BY <1>6, <1>7, <2>1, <2>3
  <2>4. CASE i # k /\ j # k
    BY <1>6, <1>7, <2>1, <2>4
  <2> QED BY <2>2, <2>3, <2>4
<1>9. \A x \in Elems(r) : x \in Elems(s) /\ x # s[k]
  <2> SUFFICES ASSUME NEW i \in DOMAIN r PROVE r[i] \in Elems(s) /\ r[i] # s[k]
    BY DEF Elems
  <2>1. \A x, y \in DOMAIN s : s[x] = s[y] => x = y
    BY DEF Distinct
  <2>2. CASE i = k
    BY <1>6, <1>7, <2>1, <2>2 DEF Elems
  <2>3. CASE i # k
    BY <1>6, <1>7, <2>1, <2>3 DEF Elems
  <2> QED BY <2>2, <2>3
<1>10. \A x \in Elems(s) : x # s[k] => x \in Elems(r)
  <2> SUFFICES ASSUME NEW i \in DOMAIN s, s[i] # s[k] PROVE s[i] \in Elems(r)
    BY DEF Elems
  <2>1. i # k
    OBVIOUS
  <2>2. CASE i # Len(s)
    BY <1>6, <1>7, <2>1, <2>2 DEF Elems
  <2>3. CASE i = Len(s)
    <3>1. k \in DOMAIN r /\ r[k] = s[i]
      BY <1>6, <1>7, <2>1, <2>3
    <3> QED BY <3>1 DEF Elems
  <2> QED BY <2>2, <2>3
<1> QED BY <1>4, <1>8, <1>9, <1>10

\* A step of a service or of the GUI that does nothing for a waiter.
LEMMA ServiceOnly ==
  ASSUME BridgeInv, BridgeLists', list' \in Seq(Bridged), ready_' \in Seq(Bridged), at' \in Nat \ {0},
         UNCHANGED <<bridge, has_ec, aw, op, sent, result_, done_, error_, bridge_co, hands, bridge_got>>
  PROVE  BridgeInv'
<1>1. WaiterTypes'
  BY DEF BridgeInv, WaiterTypes
<1>2. ServiceTypes'
  BY DEF BridgeInv, ServiceTypes
<1>3. StreamError'
  BY DEF BridgeInv, StreamError
<1>4. \A u \in Bridged : SameBridged(u)
  BY DEF SameBridged
<1>5. \A u \in Bridged : OfWaiter(u)'
  BY <1>4, BridgedKept DEF BridgeInv
<1> QED BY <1>1, <1>2, <1>3, <1>5 DEF BridgeInv

\* The same, when its thread only goes on.
LEMMA ThreadOnly ==
  ASSUME BridgeInv, UNCHANGED <<list, ready_>>, at' \in Nat \ {0},
         UNCHANGED <<bridge, has_ec, aw, op, sent, result_, done_, error_, bridge_co, hands, bridge_got>>,
         \/ worker' = worker
         \/ {worker, worker'} \subseteq {"check", "asleep", "exited", "closed"}
         \/ {worker, worker'} \subseteq {"unlocked", "scan", "post"}
  PROVE  BridgeInv'
<1>1. /\ list' = list /\ ready_' = ready_ /\ op' = op /\ bridge_co' = bridge_co /\ bridge' = bridge
      /\ Elems(list') = Elems(list) /\ Elems(ready_') = Elems(ready_)
  OBVIOUS
<1>2. list' \in Seq(Bridged) /\ ready_' \in Seq(Bridged)
  BY DEF BridgeInv, ServiceTypes
<1>3. /\ worker' = "job" <=> worker = "job"
      /\ worker' \in {"job", "posting"} <=> worker \in {"job", "posting"}
      /\ worker' \in {"unlocked", "scan", "post"} => bridge = "poll"
  BY DEF BridgeInv, BridgeLists
<1>4. BridgeLists'
  <2>1. BridgeLists
    BY DEF BridgeInv
  <2> QED BY <1>1, <1>3, <2>1 DEF BridgeLists
<1> QED BY <1>2, <1>4, ServiceOnly

\* A waiter's work changes with nobody else's.
LEMMA OneOp ==
  ASSUME BridgeInv, NEW w \in Bridged, NEW o, op' = [op EXCEPT ![w] = o]
  PROVE  op'[w] = o /\ \A u \in Bridged \ {w} : op'[u] = op[u]
<1>1. op \in [Bridged -> Ops]
  BY DEF BridgeInv, WaiterTypes
<1> QED BY <1>1

\* A waiter is handed on without anybody else.
LEMMA OneCo ==
  ASSUME BridgeInv, NEW w \in Bridged, NEW c, bridge_co' = [bridge_co EXCEPT ![w] = c]
  PROVE  bridge_co'[w] = c /\ \A u \in Bridged \ {w} : bridge_co'[u] = bridge_co[u]
<1>1. bridge_co \in [Bridged -> Cos]
  BY DEF BridgeInv, WaiterTypes
<1> QED BY <1>1

\* The thread of the dialog.
LEMMA AnswerStep ==
  ASSUME BridgeInv, NEW w \in Bridged, Bridge!dialog_answer(w)
  PROVE  BridgeInv'
<1>1. /\ bridge = "dialog" /\ op[w] \in {"pending", "stored"}
      /\ UNCHANGED <<bridge, has_ec, aw, done_, error_, bridge_got, at, ready_>>
  BY DEF Bridge!dialog_answer
<1>2. StreamError'
  BY <1>1, ErrorStays
<1>3. bridge_co[w] = "suspended"
  BY <1>1, Known DEF BridgeStages
<1>4. w \notin Elems(list) \cup Elems(ready_)
  BY <1>1, <1>3, InServices
<1>5. bridge \notin Bridge!Senders /\ bridge \notin Bridge!Senders \cup {"callback"}
  BY <1>1 DEF Bridge!Senders
<1>6. CASE op[w] = "pending" /\ Bridge!Store(w, "value", 1) /\ UNCHANGED <<bridge_co, hands, list, worker>>
  <2>1. ServiceTypes'
    BY <1>1, <1>6 DEF BridgeInv, ServiceTypes
  <2>2. op' = [op EXCEPT ![w] = "stored"]
    BY <1>6 DEF Bridge!Store
  <2>3. \A u \in Elems(list) \cup Elems(ready_) : bridge_co'[u] = bridge_co[u] /\ op'[u] = op[u]
    BY <1>4, <1>6, <2>2, InServices, OneOp, ZenonT(30)
  <2>4. BridgeLists'
    BY <1>1, <1>6, <2>3, ListsStay
  <2>5. PICK s \in Outcomes : s = "value"
    BY DEF Outcomes
  <2>6. PICK r \in 0 .. 4 : r = 1
    BY SMTT(30)
  <2>7. Bridge!Store(w, s, r) /\ r = Bridge!ec(s) /\ s \in Bridge!Ended
    BY <1>6, <2>5, <2>6 DEF Bridge!ec, Bridge!Ended
  <2>8. UNCHANGED <<bridge, has_ec, aw, bridge_got, done_, bridge_co, hands>>
    BY <1>1, <1>6
  <2>9. bridge # "callback" /\ op[w] \in {"pending", "ready"}
    BY <1>1, <1>6
  <2> HIDE <2>5, <2>6
  <2> QED BY <1>2, <1>5, <2>1, <2>4, <2>7, <2>8, <2>9, ResultStored
<1>7. CASE /\ op[w] = "stored" /\ op' = [op EXCEPT ![w] = "over"]
           /\ Bridge!post_to_gui_thread(w) /\ UNCHANGED <<sent, result_>>
  <2>1. /\ Bridge!Hand(w, "queued") /\ list' = Append(list, w)
        /\ worker' = IF worker = "asleep" THEN "check" ELSE worker
    BY <1>7 DEF Bridge!post_to_gui_thread
  <2>2. list' \in Seq(Bridged) /\ Distinct(list') /\ Elems(list') = Elems(list) \cup {w}
    <3>1. list \in Seq(Bridged) /\ Distinct(list) /\ w \notin Elems(list)
      BY <1>4 DEF BridgeInv, ServiceTypes, BridgeLists
    <3> QED BY <2>1, <3>1, Appended, SMTT(30)
  <2>3. ServiceTypes'
    BY <1>1, <2>2 DEF BridgeInv, ServiceTypes
  <2>4. bridge_co' = [bridge_co EXCEPT ![w] = "queued"]
    BY <2>1 DEF Bridge!Hand
  <2>5. BridgeLists'
    <3>1. \A u \in Elems(list') : bridge_co'[u] = "queued"
      BY <1>1, <2>2, <2>4, OneCo, InServices
    <3>2. ready_' = <<>> /\ bridge' = "dialog"
      BY <1>1 DEF BridgeInv, BridgeLists
    <3>3. worker \notin {"unlocked", "scan", "post", "job", "posting"}
      BY <1>1 DEF BridgeInv, BridgeLists
    <3>4. worker' \notin {"unlocked", "scan", "post", "job", "posting"}
      BY <2>1, <3>3
    <3>5. Elems(ready_') = {} /\ Distinct(ready_')
      BY <3>2, Empty
    <3> QED BY <2>2, <3>1, <3>2, <3>4, <3>5 DEF BridgeLists
  <2>6. Put(sent', sent, w, sent[w]) /\ sent[w] \in Outcomes
    BY <1>7, Known DEF Put
  <2>7. PICK c \in {"queued", "given up"} : c = "queued"
    OBVIOUS
  <2>8. Bridge!Hand(w, c)
    BY <2>1, <2>7
  <2> QED BY <1>1, <1>2, <1>7, <2>3, <2>5, <2>6, <2>8, WorkOver
<1> QED BY <1>6, <1>7 DEF Bridge!dialog_answer

\* The steps of a waiter, of its work and of its executor.
LEMMA BridgeWaitStep ==
  ASSUME BridgeInv, NEW w \in Bridged, Bridge!WaitStep(w)
  PROVE  BridgeInv'
  BY ReturnStep, RunStep, AwaitResumeStep, ReceiverStep, AsioStep, DriverStep, AnswerStep,
     DeviceStep DEF Bridge!WaitStep

\* poll_service::run().
LEMMA PollEntryStep ==
  ASSUME BridgeInv, Bridge!poll_entry
  PROVE  BridgeInv'
<1>1. /\ worker = "scan" /\ at <= Len(list)
      /\ UNCHANGED <<bridge, has_ec, aw, done_, error_, bridge_got, bridge_co, hands, worker>>
  BY DEF Bridge!poll_entry, Bridge!Service
<1>2. /\ bridge = "poll" /\ list \in Seq(Bridged) /\ ready_ \in Seq(Bridged) /\ at \in Nat \ {0}
      /\ Distinct(list) /\ Distinct(ready_)
  BY <1>1 DEF BridgeInv, ServiceTypes, BridgeLists
<1>3. at \in 1 .. Len(list) /\ at \in DOMAIN list
  BY <1>1, <1>2, SMTT(30)
<1>4. PICK e : e = list[at]
  OBVIOUS
<1>5. e \in Elems(list) /\ e \in Bridged
  BY <1>3, <1>4, InServices DEF Elems
<1>6. CASE at' = at + 1 /\ UNCHANGED <<op, sent, result_, list, ready_>>
  <2>1. at' \in Nat \ {0}
    BY <1>2, <1>6, SMTT(30)
  <2> QED BY <1>1, <1>6, <2>1, ThreadOnly
<1>7. CASE /\ op[e] = "ready" /\ Bridge!Store(e, sent[e], Bridge!ec(sent[e]))
           /\ ready_' = Append(ready_, e) /\ UNCHANGED at
           /\ list' = SubSeq([list EXCEPT ![at] = list[Len(list)]], 1, Len(list) - 1)
  <2>1. list' \in Seq(Bridged) /\ Distinct(list') /\ Elems(list') = Elems(list) \ {e}
    <3>1. PICK r : r = list'
      OBVIOUS
    <3>2. r = SubSeq([list EXCEPT ![at] = list[Len(list)]], 1, Len(list) - 1)
      BY <1>7, <3>1
    <3>3. r \in Seq(Bridged) /\ Distinct(r) /\ Elems(r) = Elems(list) \ {list[at]}
      BY <1>2, <1>3, <3>2, SwappedOut
    <3> QED BY <1>4, <3>1, <3>3
  <2>2. \A u \in Elems(ready_) : op[u] = "stored" /\ u \in Bridged
    BY <1>1, InServices DEF BridgeInv, BridgeLists
  <2>3. ready_' \in Seq(Bridged) /\ Distinct(ready_') /\ Elems(ready_') = Elems(ready_) \cup {e}
    <3>1. ready_ \in Seq(Bridged) /\ Distinct(ready_) /\ e \in Bridged /\ e \notin Elems(ready_)
      BY <1>2, <1>5, <1>7, <2>2
    <3>2. \A u \in Bridged : u \notin Elems(ready_) =>
              /\ Append(ready_, u) \in Seq(Bridged) /\ Distinct(Append(ready_, u))
              /\ Elems(Append(ready_, u)) = Elems(ready_) \cup {u}
      BY <1>2, Appended, SMTT(30)
    <3> QED BY <1>7, <3>1, <3>2
  <2>4. op'[e] = "stored" /\ \A u \in Bridged \ {e} : op'[u] = op[u]
    BY <1>5, <1>7, OneOp DEF Bridge!Store
  <2>5. BridgeLists'
    <3>1. \A u \in Elems(list') : op'[u] \in {"pending", "ready"}
      BY <1>2, <2>1, <2>4, InServices DEF BridgeInv, BridgeLists
    <3>2. \A u \in Elems(ready_') : op'[u] = "stored"
      BY <2>2, <2>3, <2>4
    <3>3. bridge' = "poll" /\ worker' = "scan"
      BY <1>1, <1>2
    <3> QED BY <2>1, <2>3, <3>1, <3>2, <3>3 DEF BridgeLists
  <2>6. ServiceTypes'
    BY <1>1, <1>2, <1>7, <2>1, <2>3 DEF BridgeInv, ServiceTypes
  <2>7. StreamError'
    BY <1>1, <1>2, ErrorStays
  <2>8. sent[e] \in Outcomes /\ sent[e] \in Bridge!Ended
    BY <1>5, <1>7, Known DEF RightResult
  <2>9. Bridge!ec(sent[e]) \in 0 .. 4
    BY SMTT(30) DEF Bridge!ec
  <2>10. PICK s \in Outcomes, r \in 0 .. 4 : s = sent[e] /\ r = Bridge!ec(sent[e])
    BY <2>8, <2>9
  <2>11. Bridge!Store(e, s, r) /\ s \in Bridge!Ended /\ r = Bridge!ec(s) /\ op[e] \in {"pending", "ready"}
    BY <1>7, <2>8, <2>10
  <2>12. bridge \notin Bridge!Senders /\ bridge # "callback"
    BY <1>2 DEF Bridge!Senders
  <2>13. UNCHANGED <<bridge, has_ec, aw, bridge_got, done_, bridge_co, hands>>
    BY <1>1
  <2> HIDE <2>10
  <2> QED BY <1>5, <2>5, <2>6, <2>7, <2>11, <2>12, <2>13, ResultStored
<1> QED BY <1>4, <1>6, <1>7 DEF Bridge!poll_entry

\* The waiter at the head of ready_, or the one of the job, is posted.
LEMMA PostReady ==
  ASSUME BridgeInv, NEW w \in Bridged, op[w] = "stored", bridge \in {"poll", "deferred"},
         Bridge!post(w), op' = [op EXCEPT ![w] = "over"],
         UNCHANGED <<sent, result_, list, at>>,
         UNCHANGED <<bridge, has_ec, aw, done_, error_, bridge_got>>,
         ready_' \in Seq(Bridged), Distinct(ready_'), Elems(ready_') = Elems(ready_) \ {w},
         \/ worker = "post" /\ worker' = "post"
         \/ worker = "posting" /\ worker' = "check" /\ ready_' = <<>>
  PROVE  BridgeInv'
<1>1. PICK c \in {"queued", "given up"} : Bridge!Hand(w, c)
  BY DEF Bridge!post, Bridge!abandon
<1>2. Put(sent', sent, w, sent[w]) /\ sent[w] \in Outcomes
  BY Known DEF Put
<1>3. StreamError'
  BY ErrorStays
<1>4. ServiceTypes'
  BY DEF BridgeInv, ServiceTypes
<1>5. \A u \in Bridged \ {w} : op'[u] = op[u]
  BY OneOp
<1>6. BridgeLists'
  <2>1. \A u \in Elems(list) : op[u] \in {"pending", "ready"} /\ u \in Bridged
    BY InServices DEF BridgeInv, BridgeLists
  <2>2. \A u \in Elems(ready_) : op[u] = "stored" /\ u \in Bridged
    BY InServices DEF BridgeInv, BridgeLists
  <2>3. list' = list /\ Elems(list') = Elems(list) /\ Distinct(list)
    BY DEF BridgeInv, BridgeLists
  <2>4. \A u \in Elems(list') : op'[u] \in {"pending", "ready"}
    BY <1>5, <2>1, <2>3
  <2>5. \A u \in Elems(ready_') : op'[u] = "stored"
    BY <1>5, <2>2
  <2>6. CASE worker = "post" /\ worker' = "post"
    <3>1. bridge' = "poll"
      BY <2>6 DEF BridgeInv, BridgeLists
    <3> QED BY <2>3, <2>4, <2>5, <2>6, <3>1 DEF BridgeLists
  <2>7. CASE worker = "posting" /\ worker' = "check" /\ ready_' = <<>>
    BY <2>3, <2>4, <2>5, <2>7 DEF BridgeLists
  <2> QED BY <2>6, <2>7
<1>7. bridge # "stdexec" /\ UNCHANGED <<bridge, has_ec, aw, bridge_got, done_>>
  OBVIOUS
<1> QED BY <1>1, <1>2, <1>3, <1>4, <1>6, <1>7, WorkOver

\* The rest of poll_service::run().
LEMMA PollStep ==
  ASSUME BridgeInv, Bridge!poll_lock \/ Bridge!poll_unlock \/ Bridge!poll_post
  PROVE  BridgeInv'
<1>1. ready_ \in Seq(Bridged) /\ Distinct(ready_) /\ at \in Nat \ {0}
  BY DEF BridgeInv, ServiceTypes, BridgeLists
<1>2. CASE Bridge!poll_lock
  <2>1. at' \in Nat \ {0}
    BY <1>2, SMTT(30) DEF Bridge!poll_lock
  <2> QED BY <1>2, <2>1, ThreadOnly DEF Bridge!poll_lock, Bridge!Service
<1>3. CASE Bridge!poll_unlock
  BY <1>1, <1>3, ThreadOnly DEF Bridge!poll_unlock, Bridge!Service
<1>4. CASE Bridge!poll_post
  <2>1. worker = "post" /\ UNCHANGED <<sent, result_, list, at>>
        /\ UNCHANGED <<bridge, has_ec, aw, done_, error_, bridge_got>>
    BY <1>4 DEF Bridge!poll_post, Bridge!Service
  <2>2. bridge = "poll"
    BY <2>1 DEF BridgeInv, BridgeLists
  <2>3. CASE /\ ready_ # <<>> /\ ready_' = Tail(ready_) /\ worker' = worker
             /\ Bridge!post(Head(ready_)) /\ op' = [op EXCEPT ![Head(ready_)] = "over"]
    <3>1. PICK w : w = Head(ready_)
      OBVIOUS
    <3>2. /\ w \in Bridged /\ w \in Elems(ready_) /\ ready_' \in Seq(Bridged) /\ Distinct(ready_')
          /\ Elems(ready_') = Elems(ready_) \ {w}
      <4>1. ready_ # <<>>
        BY <2>3
      <4>2. /\ Head(ready_) \in Bridged /\ Head(ready_) \in Elems(ready_) /\ Tail(ready_) \in Seq(Bridged)
            /\ Elems(ready_) = Elems(Tail(ready_)) \cup {Head(ready_)}
            /\ Distinct(Tail(ready_)) /\ Head(ready_) \notin Elems(Tail(ready_))
        BY <1>1, <4>1, Popped
      <4> QED BY <2>3, <3>1, <4>2
    <3>3. op[w] = "stored"
      BY <2>1, <3>2 DEF BridgeInv, BridgeLists
    <3>4. Bridge!post(w) /\ op' = [op EXCEPT ![w] = "over"]
      BY <2>3, <3>1
    <3>5. worker' = "post"
      BY <2>1, <2>3
    <3> HIDE <3>1
    <3> QED BY <2>1, <2>2, <3>2, <3>3, <3>4, <3>5, PostReady
  <2>4. CASE worker' = "unlocked" /\ UNCHANGED <<op, bridge_co, hands, ready_>>
    BY <1>1, <2>1, <2>4, ThreadOnly
  <2> QED BY <1>4, <2>3, <2>4 DEF Bridge!poll_post
<1> QED BY <1>2, <1>3, <1>4

\* sync_service::run().
LEMMA JobStep ==
  ASSUME BridgeInv, Bridge!take_job \/ Bridge!job
  PROVE  BridgeInv'
<1>1. /\ list \in Seq(Bridged) /\ ready_ \in Seq(Bridged) /\ at \in Nat \ {0}
      /\ Distinct(list) /\ Distinct(ready_)
  BY DEF BridgeInv, ServiceTypes, BridgeLists
<1>2. UNCHANGED <<bridge, has_ec, aw, done_, error_, bridge_got, at>>
  BY DEF Bridge!take_job, Bridge!job, Bridge!Service
<1>3. CASE Bridge!take_job
  <2>1. /\ bridge = "deferred" /\ worker = "check"
        /\ UNCHANGED <<op, sent, result_, bridge_co, hands>>
    BY <1>3 DEF Bridge!take_job
  <2>2. CASE list # <<>> /\ list' = Tail(list) /\ ready_' = <<Head(list)>> /\ worker' = "job"
    <3>1. list # <<>>
      BY <2>2
    <3>2. /\ Head(list) \in Bridged /\ Head(list) \in Elems(list) /\ Tail(list) \in Seq(Bridged)
          /\ Elems(list) = Elems(Tail(list)) \cup {Head(list)}
          /\ Distinct(Tail(list)) /\ Head(list) \notin Elems(Tail(list))
      BY <1>1, <3>1, Popped
    <3>3. PICK w : w = Head(list)
      OBVIOUS
    <3>4. /\ w \in Bridged /\ w \in Elems(list) /\ list' \in Seq(Bridged) /\ Distinct(list')
          /\ Elems(list') \subseteq Elems(list) /\ w \notin Elems(list')
      BY <2>2, <3>2, <3>3
    <3>5. ready_' = <<w>>
      BY <2>2, <3>3
    <3> HIDE <3>3
    <3>6. ready_' \in Seq(Bridged) /\ Distinct(ready_') /\ Elems(ready_') = {w} /\ Len(ready_') = 1
      <4>1. <<w>> \in Seq(Bridged) /\ Distinct(<<w>>) /\ Elems(<<w>>) = {w} /\ Len(<<w>>) = 1
        BY <3>4, Single
      <4> QED BY <3>5, <4>1
    <3>7. \A u \in Elems(list) : op'[u] \in {"pending", "ready"}
      BY <2>1 DEF BridgeInv, BridgeLists
    <3>8. bridge' = "deferred" /\ worker' = "job"
      BY <1>2, <2>1, <2>2
    <3>9. BridgeLists'
      BY <3>4, <3>6, <3>7, <3>8 DEF BridgeLists
    <3>10. at' \in Nat \ {0}
      BY <1>1, <1>2
    <3> QED BY <1>2, <2>1, <3>4, <3>6, <3>9, <3>10, ServiceOnly
  <2>3. CASE /\ worker' = IF stop_ = "yes" THEN "exited" ELSE "asleep"
             /\ UNCHANGED <<list, ready_>>
    BY <1>1, <1>2, <2>1, <2>3, ThreadOnly
  <2> QED BY <1>3, <2>2, <2>3 DEF Bridge!take_job
<1>4. CASE Bridge!job
  <2>1. worker \in {"job", "posting"}
    BY <1>4 DEF Bridge!job
  <2>2. bridge = "deferred" /\ Len(ready_) = 1
    BY <2>1 DEF BridgeInv, BridgeLists
  <2>3. PICK w : w = ready_[1]
    OBVIOUS
  <2>4. w \in Bridged /\ Elems(ready_) = {w}
    BY <1>1, <2>2, <2>3, OnlyOne
  <2>5. CASE /\ worker = "job" /\ worker' = "posting"
             /\ op[w] = "ready" /\ Bridge!Store(w, sent[w], Bridge!ec(sent[w]))
             /\ UNCHANGED <<bridge_co, hands, list, ready_>>
    <3>1. w \notin Elems(list)
      BY <2>4, <2>5 DEF BridgeInv, BridgeLists
    <3>2. op'[w] = "stored" /\ \A u \in Bridged \ {w} : op'[u] = op[u]
      BY <2>4, <2>5, OneOp DEF Bridge!Store
    <3>3. BridgeLists'
      <4>1. \A u \in Elems(list) : op[u] \in {"pending", "ready"} /\ u \in Bridged
        BY <2>2, InServices DEF BridgeInv, BridgeLists
      <4>2. /\ list' = list /\ Elems(list') = Elems(list) /\ ready_' = ready_
            /\ Elems(ready_') = {w} /\ Len(ready_') = 1
        BY <2>2, <2>4, <2>5
      <4>3. \A u \in Elems(list') : op'[u] \in {"pending", "ready"}
        BY <3>1, <3>2, <4>1, <4>2
      <4>4. \A u \in Elems(ready_') : op'[u] = "stored"
        BY <3>2, <4>2
      <4>5. bridge' = "deferred" /\ worker' = "posting" /\ Distinct(list') /\ Distinct(ready_')
        BY <1>1, <1>2, <2>2, <2>5
      <4> QED BY <4>2, <4>3, <4>4, <4>5 DEF BridgeLists
    <3>4. ServiceTypes'
      BY <1>2, <2>5 DEF BridgeInv, ServiceTypes
    <3>5. StreamError'
      BY <1>2, <2>2, ErrorStays
    <3>6. sent[w] \in Outcomes /\ sent[w] \in Bridge!Ended
      BY <2>4, <2>5, Known DEF RightResult
    <3>7. Bridge!ec(sent[w]) \in 0 .. 4
      BY SMTT(30) DEF Bridge!ec
    <3>8. PICK s \in Outcomes, r \in 0 .. 4 : s = sent[w] /\ r = Bridge!ec(sent[w])
      BY <3>6, <3>7
    <3>9. Bridge!Store(w, s, r) /\ s \in Bridge!Ended /\ r = Bridge!ec(s) /\ op[w] \in {"pending", "ready"}
      BY <2>5, <3>6, <3>8
    <3>10. bridge \notin Bridge!Senders /\ bridge # "callback"
      BY <2>2 DEF Bridge!Senders
    <3>11. UNCHANGED <<bridge, has_ec, aw, bridge_got, done_, bridge_co, hands>>
      BY <1>2, <2>5
    <3> HIDE <3>8
    <3> QED BY <2>4, <3>3, <3>4, <3>5, <3>9, <3>10, <3>11, ResultStored
  <2>6. CASE /\ worker = "posting" /\ worker' = "check" /\ ready_' = <<>>
             /\ Bridge!post(w) /\ op' = [op EXCEPT ![w] = "over"]
             /\ UNCHANGED <<sent, result_, list>>
    <3>1. op[w] = "stored"
      BY <2>4, <2>6 DEF BridgeInv, BridgeLists
    <3>2. ready_' \in Seq(Bridged) /\ Distinct(ready_') /\ Elems(ready_') = Elems(ready_) \ {w}
      <4>1. <<>> \in Seq(Bridged)
        BY SMTT(30)
      <4> QED BY <2>4, <2>6, <4>1, Empty
    <3>3. UNCHANGED <<sent, result_, list, at>>
          /\ UNCHANGED <<bridge, has_ec, aw, done_, error_, bridge_got>>
      BY <1>2, <2>6
    <3>4. bridge \in {"poll", "deferred"}
      BY <2>2
    <3> HIDE <2>3
    <3> QED BY <2>4, <2>6, <3>1, <3>2, <3>3, <3>4, PostReady
  <2> QED BY <1>4, <2>3, <2>5, <2>6 DEF Bridge!job
<1> QED BY <1>3, <1>4

\* The loop of the GUI, and ~gui_app: the waiter at the head of the queue goes on, or is
\* given up.
LEMMA DequeueStep ==
  ASSUME BridgeInv, bridge = "dialog", list # <<>>, list' = Tail(list), worker' = worker,
         NEW c \in {"resumed", "given up"}, bridge_co' = [bridge_co EXCEPT ![Head(list)] = c],
         UNCHANGED <<bridge, has_ec, aw, op, sent, result_, done_, error_, hands, bridge_got>>,
         UNCHANGED <<at, ready_>>
  PROVE  BridgeInv'
<1>1. list \in Seq(Bridged) /\ Distinct(list)
  BY DEF BridgeInv, ServiceTypes, BridgeLists
<1>2. /\ Head(list) \in Bridged /\ Head(list) \in Elems(list) /\ Tail(list) \in Seq(Bridged)
      /\ Elems(list) = Elems(Tail(list)) \cup {Head(list)}
      /\ Distinct(Tail(list)) /\ Head(list) \notin Elems(Tail(list))
  BY <1>1, Popped
<1>3. PICK w : w = Head(list)
  OBVIOUS
<1>4. /\ w \in Bridged /\ w \in Elems(list) /\ list' \in Seq(Bridged) /\ Distinct(list')
      /\ Elems(list') \subseteq Elems(list) /\ w \notin Elems(list')
      /\ bridge_co' = [bridge_co EXCEPT ![w] = c]
  BY <1>2, <1>3
<1> HIDE <1>3
<1>5. bridge_co[w] = "queued" /\ op[w] = "over"
  BY <1>4, InServices
<1>6. aw[w] # "before" /\ hands[w] = 1 /\ bridge_got[w] = "none"
  BY <1>4, <1>5, Known DEF BridgeStages
<1>7. Writes(w, aw[w], "over", sent[w], result_[w], c, 1, "none")
  BY <1>4, <1>5, <1>6, Known DEF Writes, Put, Aws, Ops, Cos, Outcomes
<1>8. Has(w, aw[w], "over", sent[w], result_[w], c, 1, "none") /\ done_' \in {done_, done_ \cup {w}}
  BY <1>4, <1>7, WaiterWritten DEF BridgeInv
<1>9. UNCHANGED <<bridge, has_ec>>
  OBVIOUS
<1>10. BridgeStages(w)'
  BY <1>6, <1>8 DEF Has, BridgeStages
<1>11. SecondResumes(w)'
  BY DEF SecondResumes
<1>12. RightResult(w)'
  BY <1>4, <1>5, <1>8, <1>9, ResultStays DEF Has, Due
<1>13. StreamError'
  BY ErrorStays
<1>14. ServiceTypes'
  BY <1>4 DEF BridgeInv, ServiceTypes
<1>15. BridgeLists'
  <2>1. \A u \in Elems(list') : bridge_co'[u] = "queued"
    <3>1. \A u \in Elems(list') : u \in Elems(list) /\ u # w
      BY <1>4
    <3>2. \A u \in Elems(list) : u \in Bridged /\ bridge_co[u] = "queued"
      BY InServices
    <3>3. \A u \in Bridged \ {w} : bridge_co'[u] = bridge_co[u]
      BY <1>4, OneCo
    <3> QED BY <3>1, <3>2, <3>3
  <2>2. ready_ = <<>> /\ worker \notin {"unlocked", "scan", "post", "job", "posting"}
    BY DEF BridgeInv, BridgeLists
  <2>3. ready_' = <<>> /\ bridge' = "dialog" /\ Elems(ready_') = {} /\ Distinct(ready_')
    BY <2>2, Empty
  <2> QED BY <1>4, <2>1, <2>2, <2>3 DEF BridgeLists
<1> QED BY <1>4, <1>7, <1>8, <1>9, <1>10, <1>11, <1>12, <1>13, <1>14, <1>15, Settled

\* The loop of the GUI and ~gui_app.
LEMMA GuiStep ==
  ASSUME BridgeInv, Bridge!gui_run \/ Bridge!destroy_app
  PROVE  BridgeInv'
<1>1. /\ bridge = "dialog"
      /\ UNCHANGED <<bridge, has_ec, aw, op, sent, result_, done_, error_, hands, bridge_got>>
      /\ UNCHANGED <<at, ready_>>
  BY DEF Bridge!gui_run, Bridge!destroy_app, Bridge!Service
<1>2. at \in Nat \ {0}
  BY DEF BridgeInv, ServiceTypes
<1>3. CASE /\ UNCHANGED <<bridge_co, list>>
           /\ {worker, worker'} \subseteq {"check", "asleep", "exited", "closed"}
  BY <1>1, <1>2, <1>3, ThreadOnly
<1>4. CASE \E c \in {"resumed", "given up"} :
               /\ list # <<>> /\ list' = Tail(list) /\ worker' = worker
               /\ bridge_co' = [bridge_co EXCEPT ![Head(list)] = c]
  BY <1>1, <1>4, DequeueStep
<1>5. CASE Bridge!gui_run
  BY <1>3, <1>4, <1>5 DEF Bridge!gui_run
<1>6. CASE Bridge!destroy_app
  BY <1>3, <1>4, <1>6 DEF Bridge!destroy_app
<1> QED BY <1>5, <1>6

\* Nobody waits yet.
LEMMA BridgeBegins == Bridge!Init => BridgeInv
<1> SUFFICES ASSUME Bridge!Init PROVE BridgeInv
  OBVIOUS
<1>1. <<>> \in Seq(Bridged) /\ 1 \in Nat \ {0} /\ 0 \in 0 .. 4
  BY SMTT(30)
<1>2. WaiterTypes
  BY <1>1 DEF Bridge!Init, WaiterTypes, Aws, Ops, Outcomes, Cos
<1>3. ServiceTypes
  BY <1>1 DEF Bridge!Init, ServiceTypes, Kinds, Bridge!Senders, Flag
<1>4. StreamError
  BY DEF Bridge!Init, StreamError
<1>5. BridgeLists
  <2>1. list = <<>> /\ ready_ = <<>> /\ worker = IF bridge = "poll" THEN "unlocked" ELSE "check"
    BY DEF Bridge!Init
  <2>2. Elems(list) = {} /\ Elems(ready_) = {} /\ Distinct(list) /\ Distinct(ready_)
    BY <2>1, Empty
  <2> QED BY <2>1, <2>2 DEF BridgeLists
<1>6. ASSUME NEW w \in Bridged PROVE OfWaiter(w)
  <2>1. /\ aw[w] = "before" /\ bridge_co[w] = "running" /\ op[w] = "none" /\ hands[w] = 0
        /\ bridge_got[w] = "none" /\ w \notin done_
    BY DEF Bridge!Init
  <2> QED BY <2>1 DEF OfWaiter, BridgeStages, SecondResumes, RightResult, Due
<1> QED BY <1>2, <1>3, <1>4, <1>5, <1>6 DEF BridgeInv

\* Every step of a bridge preserves the invariant.
LEMMA BridgeStep == BridgeInv /\ [Bridge!Next]_(Bridge!vars) => BridgeInv'
<1> SUFFICES ASSUME BridgeInv, [Bridge!Next]_(Bridge!vars) PROVE BridgeInv'
  OBVIOUS
<1>1. at \in Nat \ {0}
  BY DEF BridgeInv, ServiceTypes
<1>2. CASE \E w \in Bridged : Bridge!suspend(w) \/ Bridge!WaitStep(w)
  BY <1>2, SuspendStep, BridgeWaitStep
<1>3. CASE Bridge!ServiceStep
  BY <1>3, PollEntryStep, PollStep, JobStep, GuiStep DEF Bridge!ServiceStep
<1>4. CASE Bridge!spurious_wakeup
  <2>1. UNCHANGED <<list, at, ready_>> /\ worker = "asleep" /\ worker' = "check"
        /\ UNCHANGED <<bridge, has_ec, aw, op, sent, result_, done_, error_, bridge_co, hands, bridge_got>>
    BY <1>4 DEF Bridge!spurious_wakeup, Bridge!Service
  <2> QED BY <1>1, <2>1, ThreadOnly
<1>5. CASE Bridge!destroy_service \/ Bridge!quit
  <2>1. UNCHANGED <<list, at, ready_>> /\ worker' = (IF worker = "asleep" THEN "check" ELSE worker)
        /\ UNCHANGED <<bridge, has_ec, aw, op, sent, result_, done_, error_, bridge_co, hands, bridge_got>>
    BY <1>5 DEF Bridge!destroy_service, Bridge!quit, Bridge!op_vars
  <2> QED BY <1>1, <2>1, ThreadOnly
<1>6. CASE UNCHANGED Bridge!vars
  <2>1. UNCHANGED <<list, at, ready_>> /\ worker' = worker
        /\ UNCHANGED <<bridge, has_ec, aw, op, sent, result_, done_, error_, bridge_co, hands, bridge_got>>
    BY <1>6 DEF Bridge!vars, Bridge!op_vars, Bridge!service_vars
  <2> QED BY <1>1, <2>1, ThreadOnly
<1> QED BY <1>2, <1>3, <1>4, <1>5, <1>6 DEF Bridge!Next

\* A list made of two has the elements of both.
LEMMA Joined ==
  ASSUME NEW S, NEW s \in Seq(S), NEW t \in Seq(S)
  PROVE  Bridge!Range(s \o t) = Elems(s) \cup Elems(t)
<1> DEFINE r == s \o t
<1>1. /\ r \in Seq(S) /\ Len(r) = Len(s) + Len(t) /\ Len(s) \in Nat /\ Len(t) \in Nat
      /\ \A i \in 1 .. Len(s) + Len(t) : r[i] = IF i <= Len(s) THEN s[i] ELSE t[i - Len(s)]
  BY SMTT(30)
<1>2. DOMAIN r = 1 .. Len(s) + Len(t) /\ DOMAIN s = 1 .. Len(s) /\ DOMAIN t = 1 .. Len(t)
  BY <1>1, SMTT(30)
<1> HIDE DEF r
<1>3. \A i \in DOMAIN r : r[i] \in Elems(s) \cup Elems(t)
  <2> SUFFICES ASSUME NEW i \in DOMAIN r PROVE r[i] \in Elems(s) \cup Elems(t)
    OBVIOUS
  <2>1. CASE i <= Len(s)
    <3>1. i \in DOMAIN s /\ r[i] = s[i]
      BY <1>1, <1>2, <2>1, SMTT(30)
    <3> QED BY <3>1 DEF Elems
  <2>2. CASE ~(i <= Len(s))
    <3>1. i - Len(s) \in DOMAIN t /\ r[i] = t[i - Len(s)]
      BY <1>1, <1>2, <2>2, SMTT(30)
    <3> QED BY <3>1 DEF Elems
  <2> QED BY <2>1, <2>2
<1>4. \A i \in DOMAIN s : i \in DOMAIN r /\ r[i] = s[i]
  BY <1>1, <1>2, SMTT(30)
<1>5. \A i \in DOMAIN t : i + Len(s) \in DOMAIN r /\ r[i + Len(s)] = t[i]
  BY <1>1, <1>2, SMTT(30)
<1>6. Bridge!Range(r) = Elems(r)
  BY DEF Bridge!Range, Elems
<1>7. Elems(r) = Elems(s) \cup Elems(t)
  <2>1. \A x \in Elems(r) : x \in Elems(s) \cup Elems(t)
    BY <1>3 DEF Elems
  <2>2. \A x \in Elems(s) : x \in Elems(r)
    BY <1>4 DEF Elems
  <2>3. \A x \in Elems(t) : x \in Elems(r)
    BY <1>5 DEF Elems
  <2> QED BY <2>1, <2>2, <2>3
<1> QED BY <1>6, <1>7 DEF r

\* The invariant says that nobody is handed on twice.
LEMMA BridgeHandsOnce == BridgeInv => HandedOnce
<1> SUFFICES ASSUME BridgeInv, NEW w \in Bridged
             PROVE  /\ hands[w] <= 1 /\ bridge_got[w] \in {"none", sent[w]}
                    /\ bridge_co[w] = "gone" =>
                           /\ op[w] = "over" /\ w \notin Bridge!Range(list \o ready_)
                           /\ bridge = "stdexec" => aw[w] = "over"
  BY DEF HandedOnce, Bridge!HandedOnce
<1>1. hands[w] \in {0, 1}
  BY Known
<1>2. hands[w] <= 1
  BY <1>1, SMTT(30)
<1>3. bridge_got[w] \in {"none", sent[w]}
  BY Known DEF BridgeStages
<1>4. ASSUME bridge_co[w] = "gone"
      PROVE  op[w] = "over" /\ (bridge = "stdexec" => aw[w] = "over")
  BY <1>4, Known DEF BridgeStages, SecondResumes, Aws, Ops
<1>5. Bridge!Range(list \o ready_) = Elems(list) \cup Elems(ready_)
  BY Joined DEF BridgeInv, ServiceTypes
<1>6. bridge_co[w] = "gone" => w \notin Bridge!Range(list \o ready_)
  BY <1>5, InServices
<1> QED BY <1>2, <1>3, <1>4, <1>6

\* A coroutine that waits, through any of the bridges, for work outside the library is
\* handed on once, gets what the work ended with, and nobody uses its awaitable when it
\* has gone: for any number of waiters, and with the executor, the service or the GUI
\* closing at any moment.
THEOREM BridgedHandedOnce == Bridge!Spec => []HandedOnce
  BY BridgeHandsOnce, BridgeBegins, BridgeStep, PTL DEF Bridge!Spec

-----------------------------------------------------------------------------
(* All of them.                                                            *)

\* What happens to one primitive leaves the others alone.
LEMMA EachByItself ==
  [AllNext]_all_vars =>
      [Next]_vars /\ [Event!Next]_(Event!vars) /\ [Bridge!Next]_(Bridge!vars)
<1> SUFFICES ASSUME [AllNext]_all_vars
             PROVE  [Next]_vars /\ [Event!Next]_(Event!vars) /\ [Bridge!Next]_(Bridge!vars)
  OBVIOUS
<1>1. UNCHANGED event_vars => UNCHANGED Event!vars
  BY DEF event_vars, Event!vars, Event!event_vars, Event!lists, Event!stop_vars, Event!result_vars
<1>2. UNCHANGED bridge_vars => UNCHANGED Bridge!vars
  BY DEF bridge_vars, Bridge!vars, Bridge!op_vars, Bridge!service_vars
<1>3. CASE IsWaker /\ Next
  BY <1>1, <1>2, <1>3 DEF IsWaker
<1>4. CASE IsEvent /\ Event!Next
  BY <1>2, <1>4 DEF IsEvent
<1>5. CASE IsBridge /\ Bridge!Next
  BY <1>1, <1>5 DEF IsBridge
<1>6. CASE UNCHANGED all_vars
  BY <1>1, <1>2, <1>6 DEF all_vars
<1> QED BY <1>3, <1>4, <1>5, <1>6 DEF AllNext

\* Whichever primitive a coroutine waits for, what is checked of the three at once holds:
\* one winner per wait and nothing that reaches a dead async_waker, an async_event whose
\* waiters are where they say, and a bridge that hands on each waiter once.
THEOREM AllNotifications ==
  AllInit /\ [][AllNext]_all_vars =>
      [](OneWinner /\ NothingReachesDeadWaker /\ EventWaiterInOnePlace /\ HandedOnce)
<1>1. AllInit => WakerInv /\ EventInv /\ BridgeInv
  BY WakerBegins, EventBegins, BridgeBegins DEF AllInit
<1>2. WakerInv /\ EventInv /\ BridgeInv /\ [AllNext]_all_vars => (WakerInv /\ EventInv /\ BridgeInv)'
  <2> SUFFICES ASSUME WakerInv, EventInv, BridgeInv, [AllNext]_all_vars
               PROVE  WakerInv' /\ EventInv' /\ BridgeInv'
    OBVIOUS
  <2>1. [Next]_vars /\ [Event!Next]_(Event!vars) /\ [Bridge!Next]_(Bridge!vars)
    BY EachByItself
  <2>2. WakerInv'
    BY <2>1, WakerNext
  <2>3. EventInv'
    BY <2>1, EventStep
  <2>4. BridgeInv'
    BY <2>1, BridgeStep
  <2> QED BY <2>2, <2>3, <2>4
<1>3. WakerInv /\ EventInv /\ BridgeInv =>
          OneWinner /\ NothingReachesDeadWaker /\ EventWaiterInOnePlace /\ HandedOnce
  BY EventInPlace, BridgeHandsOnce DEF WakerInv
<1> QED BY <1>1, <1>2, <1>3, PTL

=============================================================================
