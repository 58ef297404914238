-------------------------- MODULE AsyncMutexProofs --------------------------
(***************************************************************************)
(* The lock of an async_mutex always has exactly one owner, a waiter is in *)
(* one place, and the lock is granted in the order of the queue, for any   *)
(* number of coroutines, any of them stoppable or quitters.                *)
(***************************************************************************)
EXTENDS AsyncMutex, TLAPS

\* Every leaf is for Zenon unless it names another prover.
USE Zenon

Distinct(s) == \A i, j \in DOMAIN s : s[i] = s[j] => i = j

\* The elements of r come in the order in which s has them.
InOrder(r, s) ==
    \A i, j \in DOMAIN r : \E a, b \in DOMAIN s :
        r[i] = s[a] /\ r[j] = s[b] /\ (i < j <=> a < b)

-----------------------------------------------------------------------------
(* What the operations of the intrusive list do to its nodes.              *)

\* push_back of a node that is not in the list.
LEMMA Appended ==
  ASSUME NEW S, NEW s \in Seq(S), Distinct(s), NEW e \in S, e \notin Range(s)
  PROVE  /\ Append(s, e) \in Seq(S) /\ Distinct(Append(s, e))
         /\ Range(Append(s, e)) = Range(s) \cup {e}
<1> DEFINE r == Append(s, e)
<1>1. /\ r \in Seq(S) /\ Len(r) = Len(s) + 1 /\ r[Len(s) + 1] = e
      /\ \A i \in 1 .. Len(s) : r[i] = s[i]
    BY SMTT(30)
<1>2. DOMAIN r = 1 .. Len(s) + 1 /\ DOMAIN s = 1 .. Len(s) /\ Len(s) \in Nat
    BY <1>1, SMTT(30)
<1> HIDE DEF r
<1>3. Range(r) = Range(s) \cup {e}
  <2>1. \A x \in Range(r) : x \in Range(s) \cup {e}
    BY <1>1, <1>2, SMTT(30) DEF Range
  <2>2. e \in Range(r)
    BY <1>1, <1>2, SMTT(30) DEF Range
  <2>3. \A x \in Range(s) : x \in Range(r)
    BY <1>1, <1>2, SMTT(30) DEF Range
  <2> QED BY <2>1, <2>2, <2>3
<1>4. Distinct(r)
    BY <1>1, <1>2, SMTT(30) DEF Distinct, Range
<1> QED BY <1>1, <1>3, <1>4 DEF r

\* Dropping the nodes up to position k, as repeated pop_front calls do.
LEMMA Dropped ==
  ASSUME NEW S, NEW s \in Seq(S), Distinct(s), NEW k \in 1 .. Len(s)
  PROVE  LET r == SubSeq(s, k + 1, Len(s)) IN
         /\ r \in Seq(S) /\ Distinct(r)
         /\ Range(r) = Range(s) \ {s[j] : j \in 1 .. k} /\ InOrder(r, s)
<1> DEFINE r == SubSeq(s, k + 1, Len(s))
<1>1. /\ r \in Seq(S) /\ Len(r) = Len(s) - k
      /\ \A i \in 1 .. Len(s) - k : r[i] = s[i + k]
    BY SMTT(30)
<1>2. DOMAIN r = 1 .. Len(s) - k /\ DOMAIN s = 1 .. Len(s) /\ Len(s) \in Nat
    BY <1>1, SMTT(30)
<1> HIDE DEF r
<1>3. Range(r) = Range(s) \ {s[j] : j \in 1 .. k}
  <2>1. ASSUME NEW x \in Range(r) PROVE x \in Range(s) \ {s[j] : j \in 1 .. k}
    <3>1. PICK i \in 1 .. Len(s) - k : x = s[i + k]
      BY <2>1, <1>1, <1>2 DEF Range
    <3>2. i + k \in DOMAIN s /\ \A j \in 1 .. k : s[j] # s[i + k]
      BY <1>2, SMTT(30) DEF Distinct
    <3> QED BY <3>1, <3>2 DEF Range
  <2>2. ASSUME NEW x \in Range(s) \ {s[j] : j \in 1 .. k} PROVE x \in Range(r)
    <3>1. PICK i \in 1 .. Len(s) : x = s[i]
      BY <2>2, <1>2 DEF Range
    <3>2. i - k \in 1 .. Len(s) - k /\ r[i - k] = s[i]
      BY <3>1, <2>2, <1>1, <1>2, SMTT(30)
    <3> QED BY <3>1, <3>2, <1>2 DEF Range
  <2> QED BY <2>1, <2>2
<1>4. Distinct(r)
  <2> SUFFICES ASSUME NEW i \in DOMAIN r, NEW j \in DOMAIN r, r[i] = r[j] PROVE i = j
    BY DEF Distinct
  <2>1. i + k \in DOMAIN s /\ r[i] = s[i + k]
    BY <1>1, <1>2, SMTT(30)
  <2>2. j + k \in DOMAIN s /\ r[j] = s[j + k]
    BY <1>1, <1>2, SMTT(30)
  <2>3. i + k = j + k
    BY <2>1, <2>2 DEF Distinct
  <2> QED BY <2>3, <1>2, SMTT(30)
<1>5. InOrder(r, s)
  <2> SUFFICES ASSUME NEW i \in DOMAIN r, NEW j \in DOMAIN r
               PROVE  \E a, b \in DOMAIN s : r[i] = s[a] /\ r[j] = s[b] /\ (i < j <=> a < b)
    BY DEF InOrder
  <2>1. /\ i + k \in DOMAIN s /\ r[i] = s[i + k] /\ j + k \in DOMAIN s /\ r[j] = s[j + k]
        /\ i < j <=> i + k < j + k
    BY <1>1, <1>2, SMTT(30)
  <2> QED BY <2>1, Zenon
<1> QED BY <1>1, <1>3, <1>4, <1>5 DEF r

\* Removal of one node.
LEMMA Removed ==
  ASSUME NEW S, NEW s \in Seq(S), Distinct(s), NEW k \in 1 .. Len(s)
  PROVE  LET r == SubSeq(s, 1, k - 1) \o SubSeq(s, k + 1, Len(s)) IN
         r \in Seq(S) /\ Distinct(r) /\ Range(r) = Range(s) \ {s[k]} /\ InOrder(r, s)
<1> DEFINE p == SubSeq(s, 1, k - 1)
           q == SubSeq(s, k + 1, Len(s))
           r == p \o q
<1>1. p \in Seq(S) /\ Len(p) = k - 1 /\ \A i \in 1 .. k - 1 : p[i] = s[i]
    BY SMTT(30)
<1>2. /\ q \in Seq(S) /\ Len(q) = Len(s) - k
      /\ \A i \in 1 .. Len(s) - k : q[i] = s[i + k]
    BY SMTT(30)
<1>3. r = p \o q
    OBVIOUS
<1> HIDE DEF p, q, r
<1>4. r \in Seq(S) /\ Len(r) = Len(s) - 1
    BY <1>1, <1>2, <1>3, SMTT(30)
<1>5. /\ \A i \in 1 .. k - 1 : r[i] = s[i]
      /\ \A i \in k .. Len(s) - 1 : r[i] = s[i + 1]
  <2>1. \A i \in 1 .. k - 1 : r[i] = p[i]
    BY <1>1, <1>2, <1>3, SMTT(30)
  <2>2. \A i \in k .. Len(s) - 1 : r[i] = q[i - (k - 1)]
    BY <1>1, <1>2, <1>3, SMTT(30)
  <2> QED BY <2>1, <2>2, <1>1, <1>2, SMTT(30)
<1>6. DOMAIN r = 1 .. Len(s) - 1 /\ DOMAIN s = 1 .. Len(s) /\ Len(s) \in Nat
    BY <1>4, SMTT(30)
<1>7. Range(r) = Range(s) \ {s[k]}
  <2>1. ASSUME NEW x \in Range(r) PROVE x \in Range(s) \ {s[k]}
    <3>1. PICK i \in 1 .. Len(s) - 1 : x = r[i]
      BY <2>1, <1>6 DEF Range
    <3>2. PICK j \in 1 .. Len(s) : j # k /\ x = s[j]
      BY <3>1, <1>5, SMTT(30)
    <3> QED BY <3>2, <1>6 DEF Range, Distinct
  <2>2. ASSUME NEW x \in Range(s) \ {s[k]} PROVE x \in Range(r)
    <3>1. PICK i \in 1 .. Len(s) : x = s[i] /\ i # k
      BY <2>2, <1>6 DEF Range
    <3>2. PICK j \in 1 .. Len(s) - 1 : x = r[j]
      <4>1. CASE i < k
        BY <4>1, <3>1, <1>5, SMTT(30)
      <4>2. CASE i > k
        <5>1. PICK j \in k .. Len(s) - 1 : i = j + 1
          BY <4>2, SMTT(30)
        <5>2. r[j] = x /\ j \in 1 .. Len(s) - 1
          BY <5>1, <3>1, <1>5, <1>6, SMTT(30)
        <5> QED BY <5>2
      <4> QED BY <4>1, <4>2, <3>1, SMTT(30)
    <3> QED BY <3>2, <1>6 DEF Range
  <2> QED BY <2>1, <2>2
<1>8. Distinct(r)
  <2> SUFFICES ASSUME NEW i \in DOMAIN r, NEW j \in DOMAIN r, r[i] = r[j] PROVE i = j
    BY DEF Distinct
  <2>1. PICK a \in 1 .. Len(s) : r[i] = s[a] /\ a = (IF i < k THEN i ELSE i + 1)
    BY <1>5, <1>6, SMTT(30)
  <2>2. PICK b \in 1 .. Len(s) : r[j] = s[b] /\ b = (IF j < k THEN j ELSE j + 1)
    BY <1>5, <1>6, SMTT(30)
  <2>3. a = b
    BY <2>1, <2>2, <1>6 DEF Distinct
  <2> QED BY <2>1, <2>2, <2>3, <1>6, SMTT(30)
<1>9. InOrder(r, s)
  <2> SUFFICES ASSUME NEW i \in DOMAIN r, NEW j \in DOMAIN r
               PROVE  \E a, b \in DOMAIN s : r[i] = s[a] /\ r[j] = s[b] /\ (i < j <=> a < b)
    BY DEF InOrder
  <2>1. PICK a \in 1 .. Len(s) : r[i] = s[a] /\ a = (IF i < k THEN i ELSE i + 1)
    BY <1>5, <1>6, SMTT(30)
  <2>2. PICK b \in 1 .. Len(s) : r[j] = s[b] /\ b = (IF j < k THEN j ELSE j + 1)
    BY <1>5, <1>6, SMTT(30)
  <2>3. i < j <=> a < b
    BY <2>1, <2>2, <1>6, SMTT(30)
  <2> QED BY <2>1, <2>2, <2>3, <1>6, Zenon
<1> QED BY <1>4, <1>7, <1>8, <1>9, Zenon DEF p, q, r

\* The order of a part of a part, of a list and itself, of the empty list, and of two
\* lists that get the same last element.
LEMMA OrderOfPart ==
  ASSUME NEW r, NEW s, NEW t, InOrder(r, s), InOrder(s, t)
  PROVE  InOrder(r, t)
<1> SUFFICES ASSUME NEW i \in DOMAIN r, NEW j \in DOMAIN r
             PROVE  \E c, d \in DOMAIN t : r[i] = t[c] /\ r[j] = t[d] /\ (i < j <=> c < d)
    BY DEF InOrder
<1>1. PICK a \in DOMAIN s, b \in DOMAIN s : r[i] = s[a] /\ r[j] = s[b] /\ (i < j <=> a < b)
    BY SMTT(30) DEF InOrder
<1>2. PICK c \in DOMAIN t, d \in DOMAIN t : s[a] = t[c] /\ s[b] = t[d] /\ (a < b <=> c < d)
    BY SMTT(30) DEF InOrder
<1> QED BY <1>1, <1>2, Zenon

LEMMA OrderOfSame ==
  ASSUME NEW s
  PROVE  InOrder(s, s) /\ InOrder(<<>>, s)
<1>1. InOrder(s, s)
    BY DEF InOrder
<1>2. DOMAIN <<>> = {}
    BY SMTT(30)
<1> QED BY <1>1, <1>2, Zenon DEF InOrder

LEMMA OrderOfLonger ==
  ASSUME NEW S, NEW s \in Seq(S), NEW t \in Seq(S), NEW e \in S, InOrder(s, t)
  PROVE  InOrder(Append(s, e), Append(t, e))
<1> DEFINE p == Append(s, e)
           q == Append(t, e)
<1>1. /\ DOMAIN s = 1 .. Len(s) /\ Len(s) \in Nat /\ DOMAIN p = 1 .. Len(s) + 1
      /\ p[Len(s) + 1] = e /\ \A i \in 1 .. Len(s) : p[i] = s[i]
    BY SMTT(30)
<1>2. /\ DOMAIN t = 1 .. Len(t) /\ Len(t) \in Nat /\ DOMAIN q = 1 .. Len(t) + 1
      /\ q[Len(t) + 1] = e /\ \A i \in 1 .. Len(t) : q[i] = t[i]
    BY SMTT(30)
<1> HIDE DEF p, q
<1>3. ASSUME NEW i \in DOMAIN p, NEW j \in DOMAIN p
      PROVE  \E a, b \in DOMAIN q : p[i] = q[a] /\ p[j] = q[b] /\ (i < j <=> a < b)
  <2>1. \A k \in DOMAIN s : \E a \in DOMAIN t : p[k] = q[a]
    BY <1>1, <1>2, SMTT(30) DEF InOrder
  <2>2. CASE i \in DOMAIN s /\ j \in DOMAIN s
    <3>1. PICK a \in DOMAIN t, b \in DOMAIN t : s[i] = t[a] /\ s[j] = t[b] /\ (i < j <=> a < b)
      BY <2>2, SMTT(30) DEF InOrder
    <3>2. a \in DOMAIN q /\ b \in DOMAIN q /\ p[i] = q[a] /\ p[j] = q[b]
      BY <1>1, <1>2, <2>2, <3>1, SMTT(30)
    <3> QED BY <3>1, <3>2, Zenon
  <2>3. CASE i \in DOMAIN s /\ j = Len(s) + 1
    <3>1. PICK a \in DOMAIN t : p[i] = q[a]
      BY <2>1, <2>3
    <3>2. /\ a \in DOMAIN q /\ Len(t) + 1 \in DOMAIN q /\ p[j] = q[Len(t) + 1]
          /\ i < j <=> a < Len(t) + 1
      BY <1>1, <1>2, <2>3, SMTT(30)
    <3> QED BY <3>1, <3>2, Zenon
  <2>4. CASE i = Len(s) + 1 /\ j \in DOMAIN s
    <3>1. PICK b \in DOMAIN t : p[j] = q[b]
      BY <2>1, <2>4
    <3>2. /\ b \in DOMAIN q /\ Len(t) + 1 \in DOMAIN q /\ p[i] = q[Len(t) + 1]
          /\ i < j <=> Len(t) + 1 < b
      BY <1>1, <1>2, <2>4, SMTT(30)
    <3> QED BY <3>1, <3>2, Zenon
  <2>5. CASE i = Len(s) + 1 /\ j = Len(s) + 1
    <3>1. Len(t) + 1 \in DOMAIN q /\ p[i] = q[Len(t) + 1] /\ p[j] = q[Len(t) + 1] /\ i = j
      BY <1>1, <1>2, <2>5, SMTT(30)
    <3>2. ~(i < j) /\ ~(Len(t) + 1 < Len(t) + 1)
      BY <1>1, <1>2, <2>5, SMTT(30)
    <3> QED BY <3>1, <3>2, Zenon
  <2> QED BY <1>1, <2>2, <2>3, <2>4, <2>5, SMTT(30)
<1> QED BY <1>3, Zenon DEF InOrder, p, q

\* pop_front().
LEMMA Popped ==
  ASSUME NEW S, NEW s \in Seq(S), Distinct(s), s # <<>>
  PROVE  /\ Head(s) \in Range(s) /\ Tail(s) \in Seq(S) /\ Distinct(Tail(s))
         /\ Range(Tail(s)) = Range(s) \ {Head(s)} /\ InOrder(Tail(s), s)
<1>1. /\ 1 \in 1 .. Len(s) /\ 1 \in DOMAIN s /\ Head(s) = s[1]
      /\ Tail(s) = SubSeq(s, 1 + 1, Len(s))
    BY SMTT(30)
<1>2. {s[j] : j \in 1 .. 1} = {s[1]}
    BY SMTT(30)
<1>3. Head(s) \in Range(s)
    BY <1>1 DEF Range
<1> QED BY <1>1, <1>2, <1>3, Dropped, Zenon

\* Without(s, w) takes out w and nothing else.
LEMMA TakenOut ==
  ASSUME NEW S, NEW s \in Seq(S), Distinct(s), NEW w \in Range(s)
  PROVE  LET r == Without(s, w) IN
         r \in Seq(S) /\ Distinct(r) /\ Range(r) = Range(s) \ {w} /\ InOrder(r, s)
<1> DEFINE k == CHOOSE i \in DOMAIN s : s[i] = w
<1>1. k \in DOMAIN s /\ s[k] = w
    BY DEF Range
<1>2. k \in 1 .. Len(s)
    BY <1>1, SMTT(30)
<1>3. Without(s, w) = SubSeq(s, 1, k - 1) \o SubSeq(s, k + 1, Len(s))
    BY DEF Without
<1> HIDE DEF k
<1> QED BY <1>1, <1>2, <1>3, Removed, SMTT(30)

-----------------------------------------------------------------------------
(* The inductive invariant.                                                *)

Types ==
    /\ st \in [Waiters -> {"new", "waiting", "posted", "holding", "done", "destroyed"}]
    /\ alive \in {"yes", "dying", "no"} /\ locked_ \in {"yes", "no"}
    /\ unlocking_ \in {"yes", "no"} /\ lost \in {"yes", "no"}
    /\ claimed \subseteq Waiters /\ canceled \subseteq Waiters
    /\ active \subseteq Waiters /\ granted \subseteq Waiters /\ firing \subseteq Waiters

\* in_list_ is set in the nodes of the list.
Listed ==
    waiters_ \in Seq(Waiters) /\ Distinct(waiters_) /\ in_list = Range(waiters_)

\* What the flags of an awaiter say of where its coroutine is: a waiter that nobody
\* has claimed is suspended in the list, one whose callback is firing is suspended,
\* and one that is posted was either handed the lock or cancelled.
Flags ==
    \A w \in Waiters :
        /\ st[w] = "new" => w \notin in_list \cup claimed \cup canceled \cup active
        /\ w \notin claimed => (w \in in_list <=> st[w] = "waiting")
        /\ w \in active => w \in claimed \/ st[w] = "waiting"
        /\ w \in firing => st[w] = "waiting" /\ w \in claimed
        /\ w \in granted => st[w] = "posted" /\ w \in claimed /\ w \notin canceled
        /\ st[w] = "posted" => w \in claimed /\ (w \in canceled \/ w \in granted)
        /\ w \in canceled => w \in claimed \/ st[w] = "done"

\* An unlocked mutex has no owner, and one that is being destroyed has handed over
\* its lock for the last time.
Unowned ==
    /\ alive = "yes" /\ locked_ = "no" => Holders \cup granted = {} /\ unlocking_ = "no"
    /\ alive # "yes" => granted = {} /\ unlocking_ = "no"

IInv == Types /\ Listed /\ Flags /\ LockIsOwned /\ Unowned

\* The executor's queue holds the posted waiters, each once.
Queued ==
    /\ queue \in Seq(Waiters) /\ Distinct(queue)
    /\ \A w \in Waiters : st[w] = "posted" <=> w \in Range(queue)

\* A linked waiter is suspended or posted, and was not handed the lock; a stop callback
\* is registered only while its coroutine is; granted_to_ is who was handed the lock.
Places ==
    /\ \A w \in Waiters :
           /\ w \in in_list => st[w] \in {"waiting", "posted"} /\ w \notin granted
           /\ w \in active => st[w] \in {"waiting", "posted"}
    /\ alive = "yes" => granted = {granted_to_} \ {None}
    /\ alive = "no" => in_list = {}

\* What a coroutine got was its first and last result.
Results ==
    /\ got \subseteq Waiters /\ refused \subseteq Waiters /\ got \cap refused = {}
    /\ \A w \in got : st[w] \in {"holding", "done"}
    /\ \A w \in refused : st[w] = "done"

\* The list keeps the order of arrival, and who has arrived and is neither claimed nor
\* destroyed still waits.
Arrivals ==
    /\ arrived \in Seq(Waiters) /\ Distinct(arrived) /\ InOrder(waiters_, arrived)
    /\ \A w \in Range(arrived) :
           /\ st[w] # "new"
           /\ w \in claimed \/ st[w] \in {"waiting", "destroyed"}

PInv == IInv /\ Queued /\ Places /\ Results /\ Arrivals

-----------------------------------------------------------------------------
\* waiters_.remove(w) takes w out of the list.
LEMMA Unlinks ==
  ASSUME Listed, NEW w \in Waiters, w \in in_list
  PROVE  /\ Unlinked(w) \in Seq(Waiters) /\ Distinct(Unlinked(w))
         /\ Range(Unlinked(w)) = in_list \ {w} /\ InOrder(Unlinked(w), waiters_)
  BY TakenOut DEF Listed, Unlinked

\* The node at the front of the list is a waiter that is linked.
LEMMA ListHead ==
  ASSUME Listed, waiters_ # <<>>
  PROVE  Head(waiters_) \in Waiters /\ Head(waiters_) \in in_list
<1>1. Head(waiters_) \in Range(waiters_)
    BY Popped DEF Listed
<1>2. Range(waiters_) \subseteq Waiters
    BY SMTT(30) DEF Listed, Range
<1> QED BY <1>1, <1>2, Zenon DEF Listed

\* Every step keeps the nodes distinct and their in_list_ true.
LEMMA ListStep == IInv /\ Next => Listed'
<1> SUFFICES ASSUME IInv, Next PROVE Listed'
    OBVIOUS
<1>0. Listed /\ Types /\ Flags
    BY DEF IInv
<1>1. ASSUME waiters_' = waiters_, in_list' = in_list PROVE Listed'
    BY <1>0, <1>1 DEF Listed
<1>2. ASSUME NEW w \in Waiters, w \in in_list, waiters_' = Unlinked(w),
             in_list' = in_list \ {w}
      PROVE  Listed'
    BY <1>0, <1>2, Unlinks DEF Listed
<1>3. ASSUME NEW w \in Waiters, w \notin in_list, waiters_' = waiters_,
             in_list' = in_list \ {w}
      PROVE  Listed'
  <2>1. in_list' = in_list
    BY <1>3
  <2> QED BY <1>1, <1>3, <2>1
<1>4. ASSUME NEW w \in Waiters, lock(w) PROVE Listed'
  <2>1. CASE enqueue(w) /\ in_list' = in_list \cup {w}
    <3>1. w \notin Range(waiters_)
      BY <1>0, <1>4 DEF Listed, Flags, lock
    <3> QED BY <3>1, <2>1, <1>0, Appended, SMTT(30) DEF Listed, enqueue
  <2>2. CASE waiters_' = waiters_ /\ in_list' = in_list
    BY <1>1, <2>2
  <2> QED BY <1>4, <2>1, <2>2 DEF lock
<1>5. ASSUME NEW w \in Waiters, await_resume(w) PROVE Listed'
    BY <1>1, <1>2, <1>3, <1>5 DEF await_resume
<1>6. ASSUME NEW w \in Waiters, destroy_waiting(w) PROVE Listed'
    BY <1>0, <1>2, <1>6 DEF destroy_waiting, Flags
<1>7. ASSUME NEW w \in Waiters, NEW l, destroy_awaiter(w, l) PROVE Listed'
    BY <1>2, <1>3, <1>7 DEF destroy_awaiter
<1>8. ASSUME NEW w \in Waiters, grant_next(w) PROVE Listed'
  <2>1. PICK i \in DOMAIN waiters_ :
            /\ waiters_' = SubSeq(waiters_, i + 1, Len(waiters_))
            /\ in_list' = in_list \ {waiters_[j] : j \in 1 .. i}
    BY <1>8 DEF grant_next
  <2>2. i \in 1 .. Len(waiters_)
    BY <1>0, SMTT(30) DEF Listed
  <2> QED BY <2>1, <2>2, <1>0, Dropped, Zenon DEF Listed
<1>9. CASE release
    BY <1>9, SMTT(30) DEF release, Listed, Distinct, Range
<1>10. CASE destroy_pop
  <2>1. CASE waiters_ = <<>>
    BY <1>1, <1>10, <2>1 DEF destroy_pop, flag_vars
  <2>2. CASE waiters_ # <<>>
    <3>1. waiters_' = Tail(waiters_) /\ in_list' = in_list \ {Head(waiters_)}
      BY <1>10, <2>2 DEF destroy_pop
    <3> QED BY <3>1, <1>0, <2>2, Popped, Zenon DEF Listed
  <2> QED BY <2>1, <2>2
<1>11. ASSUME NEW w \in Waiters, request_stop(w) \/ CancelStep(w) \/ unlock(w)
       PROVE  Listed'
    BY <1>1, <1>11 DEF request_stop, CancelStep, cancel_claim, cancel_post, unlock, flag_vars
<1>12. CASE destroy_mutex
    BY <1>1, <1>12 DEF destroy_mutex
<1> QED BY <1>4, <1>5, <1>6, <1>7, <1>8, <1>9, <1>10, <1>11, <1>12
        DEF Next, ExecutorStep, UnlockStep, grant, grant_abandoned, abandon_posted, quit

-----------------------------------------------------------------------------
(* The steps, one lemma each.                                              *)

\* lock() takes a lock that has no owner, or queues a new waiter.
LEMMA LockStep ==
  ASSUME IInv, NEW w \in Waiters, lock(w)
  PROVE  Types' /\ Flags' /\ LockIsOwned' /\ Unowned'
<1> USE DEF lock, Free, enqueue, Goto, mutex_vars, stop_vars, result_vars
<1>0. Types /\ Flags /\ LockIsOwned /\ Unowned /\ Listed
    BY DEF IInv
<1>1. Types'
    BY <1>0 DEF Types
<1>2. Flags'
    BY <1>0, SMTT(30) DEF Types, Flags
<1>3. LockIsOwned'
    BY <1>0, SMTT(30) DEF Types, Flags, LockIsOwned, Unowned, Holders
<1>4. Unowned'
    BY <1>0 DEF Types, Flags, LockIsOwned, Unowned, Holders
<1> QED BY <1>1, <1>2, <1>3, <1>4

\* await_resume() of a waiter that was not cancelled makes it the holder: it was granted.
LEMMA ResumeStep ==
  ASSUME IInv, NEW w \in Waiters, await_resume(w)
  PROVE  Types' /\ Flags' /\ LockIsOwned' /\ Unowned'
<1> USE DEF await_resume, Free, Goto, mutex_vars, stop_vars, result_vars
<1>0. Types /\ Flags /\ LockIsOwned /\ Unowned /\ Listed
    BY DEF IInv
<1>1. Types'
    BY <1>0 DEF Types
<1>2. Flags'
    BY <1>0, SMTT(30) DEF Types, Flags
<1>3. LockIsOwned'
    BY <1>0, SMTT(30) DEF Types, Flags, LockIsOwned, Unowned, Holders
<1>4. Unowned'
    BY <1>0 DEF Types, Flags, LockIsOwned, Unowned, Holders
<1> QED BY <1>1, <1>2, <1>3, <1>4

\* A stop callback claims a waiter.
LEMMA CancelClaimStep ==
  ASSUME IInv, NEW w \in Waiters, cancel_claim(w)
  PROVE  Types' /\ Flags' /\ LockIsOwned' /\ Unowned'
<1> USE DEF cancel_claim, flag_vars, Goto, mutex_vars, stop_vars, result_vars
<1>0. Types /\ Flags /\ LockIsOwned /\ Unowned /\ Listed
    BY DEF IInv
<1>1. Types'
    BY <1>0 DEF Types
<1>2. Flags'
    BY <1>0 DEF Types, Flags
<1>3. LockIsOwned'
    BY <1>0, SMTT(30) DEF Types, Flags, LockIsOwned, Unowned, Holders
<1>4. Unowned'
    BY <1>0 DEF Types, Flags, LockIsOwned, Unowned, Holders
<1> QED BY <1>1, <1>2, <1>3, <1>4

\* A stop callback that has claimed a waiter posts it.
LEMMA CancelPostStep ==
  ASSUME IInv, NEW w \in Waiters, cancel_post(w)
  PROVE  Types' /\ Flags' /\ LockIsOwned' /\ Unowned'
<1> USE DEF cancel_post, Goto, mutex_vars, stop_vars, result_vars
<1>0. Types /\ Flags /\ LockIsOwned /\ Unowned /\ Listed
    BY DEF IInv
<1>1. Types'
    BY <1>0 DEF Types
<1>2. Flags'
    BY <1>0 DEF Types, Flags
<1>3. LockIsOwned'
    BY <1>0, SMTT(30) DEF Types, Flags, LockIsOwned, Unowned, Holders
<1>4. Unowned'
    BY <1>0 DEF Types, Flags, LockIsOwned, Unowned, Holders
<1> QED BY <1>1, <1>2, <1>3, <1>4

\* The one holder starts unlock().
LEMMA UnlockStarts ==
  ASSUME IInv, NEW w \in Waiters, unlock(w)
  PROVE  Types' /\ Flags' /\ LockIsOwned' /\ Unowned'
<1> USE DEF unlock, Free, flag_vars, Goto, mutex_vars, stop_vars, result_vars
<1>0. Types /\ Flags /\ LockIsOwned /\ Unowned /\ Listed
    BY DEF IInv
<1>1. Types'
    BY <1>0 DEF Types
<1>2. Flags'
    BY <1>0 DEF Types, Flags
<1>3. LockIsOwned'
    BY <1>0, SMTT(30) DEF Types, Flags, LockIsOwned, Unowned, Holders
<1>4. Unowned'
    BY <1>0 DEF Types, Flags, LockIsOwned, Unowned, Holders
<1> QED BY <1>1, <1>2, <1>3, <1>4

\* grant_next() takes w out of the list, and only claimed waiters besides.
LEMMA Granted ==
  ASSUME Listed, NEW w \in Waiters, grant_next(w)
  PROVE  /\ w \in in_list /\ w \notin claimed /\ claimed' = claimed \cup {w}
         /\ in_list' \subseteq in_list /\ w \notin in_list'
         /\ \A u \in in_list : u \in in_list' \/ u \in claimed'
<1>1. PICK i \in DOMAIN waiters_ :
          /\ waiters_[i] = w /\ w \notin claimed
          /\ \A j \in 1 .. i - 1 : waiters_[j] \in claimed
          /\ in_list' = in_list \ {waiters_[j] : j \in 1 .. i}
          /\ claimed' = claimed \cup {w}
    BY DEF grant_next
<1>2. DOMAIN waiters_ = 1 .. Len(waiters_) /\ Len(waiters_) \in Nat
    BY SMTT(30) DEF Listed
<1>3. w \in in_list /\ w \notin in_list'
    BY <1>1, <1>2, SMTT(30) DEF Listed, Range
<1>4. \A j \in 1 .. i : waiters_[j] \in claimed'
    BY <1>1, <1>2, SMTT(30)
<1> QED BY <1>1, <1>3, <1>4

\* unlock() hands the lock to a waiter nobody has claimed, nor cancelled.
LEMMA GrantStep ==
  ASSUME IInv, NEW w \in Waiters, grant(w)
  PROVE  Types' /\ Flags' /\ LockIsOwned' /\ Unowned'
<1> USE DEF grant, Goto, mutex_vars, stop_vars, result_vars
<1>0. Types /\ Flags /\ LockIsOwned /\ Unowned /\ Listed
    BY DEF IInv
<1>a. /\ w \in in_list /\ w \notin claimed /\ claimed' = claimed \cup {w}
      /\ in_list' \subseteq in_list /\ w \notin in_list'
      /\ \A u \in in_list : u \in in_list' \/ u \in claimed'
    BY <1>0, Granted
<1>1. Types'
    BY <1>0, <1>a DEF Types
<1>2. Flags'
    BY <1>0, <1>a DEF Types, Flags
<1>3. LockIsOwned'
    BY <1>0, <1>a, SMTT(30) DEF Types, Flags, LockIsOwned, Unowned, Holders
<1>4. Unowned'
    BY <1>0, <1>a DEF Types, Flags, LockIsOwned, Unowned, Holders
<1> QED BY <1>1, <1>2, <1>3, <1>4

\* The waiter to be handed the lock is abandoned: unlock() goes on, or the mutex goes.
LEMMA AbandonStep ==
  ASSUME IInv, NEW w \in Waiters, grant_abandoned(w)
  PROVE  Types' /\ Flags' /\ LockIsOwned' /\ Unowned'
<1> USE DEF grant_abandoned, Goto, mutex_vars, stop_vars, result_vars
<1>0. Types /\ Flags /\ LockIsOwned /\ Unowned /\ Listed
    BY DEF IInv
<1>a. /\ w \in in_list /\ w \notin claimed /\ claimed' = claimed \cup {w}
      /\ in_list' \subseteq in_list /\ w \notin in_list'
      /\ \A u \in in_list : u \in in_list' \/ u \in claimed'
    BY <1>0, Granted
<1>1. Types'
    BY <1>0, <1>a DEF Types
<1>2. Flags'
    BY <1>0, <1>a DEF Types, Flags
<1>3. LockIsOwned'
    BY <1>0, <1>a, SMTT(30) DEF Types, Flags, LockIsOwned, Unowned, Holders
<1>4. Unowned'
    BY <1>0, <1>a DEF Types, Flags, LockIsOwned, Unowned, Holders
<1> QED BY <1>1, <1>2, <1>3, <1>4

\* unlock() finds nobody.
LEMMA ReleaseStep ==
  ASSUME IInv, release
  PROVE  Types' /\ Flags' /\ LockIsOwned' /\ Unowned'
<1> USE DEF release, Goto, mutex_vars, stop_vars, result_vars
<1>0. Types /\ Flags /\ LockIsOwned /\ Unowned /\ Listed
    BY DEF IInv
<1>a. in_list \subseteq claimed
    BY <1>0 DEF Listed
<1>1. Types'
    BY <1>0, <1>a DEF Types
<1>2. Flags'
    BY <1>0, <1>a DEF Types, Flags
<1>3. LockIsOwned'
    BY <1>0, <1>a, SMTT(30) DEF Types, Flags, LockIsOwned, Unowned, Holders
<1>4. Unowned'
    BY <1>0, <1>a DEF Types, Flags, LockIsOwned, Unowned, Holders
<1> QED BY <1>1, <1>2, <1>3, <1>4

\* A suspended frame is destroyed.
LEMMA DestroyWaitingStep ==
  ASSUME IInv, NEW w \in Waiters, destroy_waiting(w)
  PROVE  Types' /\ Flags' /\ LockIsOwned' /\ Unowned'
<1> USE DEF destroy_waiting, Goto, mutex_vars, stop_vars, result_vars
<1>0. Types /\ Flags /\ LockIsOwned /\ Unowned /\ Listed
    BY DEF IInv
<1>1. Types'
    BY <1>0 DEF Types
<1>2. Flags'
    BY <1>0 DEF Types, Flags
<1>3. LockIsOwned'
    BY <1>0, SMTT(30) DEF Types, Flags, LockIsOwned, Unowned, Holders
<1>4. Unowned'
    BY <1>0 DEF Types, Flags, LockIsOwned, Unowned, Holders
<1> QED BY <1>1, <1>2, <1>3, <1>4

\* A posted frame is destroyed, and passes on the lock it was handed.
LEMMA DestroyAwaiterStep ==
  ASSUME IInv, NEW w \in Waiters, NEW l \in {"done", "destroyed"}, st[w] = "posted", Free, destroy_awaiter(w, l)
  PROVE  Types' /\ Flags' /\ LockIsOwned' /\ Unowned'
<1> USE DEF destroy_awaiter, Free, Goto, mutex_vars, stop_vars, result_vars
<1>0. Types /\ Flags /\ LockIsOwned /\ Unowned /\ Listed
    BY DEF IInv
<1>1. Types'
    BY <1>0 DEF Types
<1>2. Flags'
    BY <1>0 DEF Types, Flags
<1>3. LockIsOwned'
    BY <1>0, SMTT(30) DEF Types, Flags, LockIsOwned, Unowned, Holders
<1>4. Unowned'
    BY <1>0 DEF Types, Flags, LockIsOwned, Unowned, Holders
<1> QED BY <1>1, <1>2, <1>3, <1>4

\* ~async_mutex takes back the lock it has handed over.
LEMMA DestroyMutexStep ==
  ASSUME IInv, destroy_mutex
  PROVE  Types' /\ Flags' /\ LockIsOwned' /\ Unowned'
<1> USE DEF destroy_mutex, Free, Goto, mutex_vars, stop_vars, result_vars
<1>0. Types /\ Flags /\ LockIsOwned /\ Unowned /\ Listed
    BY DEF IInv
<1>1. Types'
    BY <1>0 DEF Types
<1>2. Flags'
    BY <1>0 DEF Types, Flags
<1>3. LockIsOwned'
    BY <1>0 DEF Types, Flags, LockIsOwned, Unowned, Holders
<1>4. Unowned'
    BY <1>0 DEF Types, Flags, LockIsOwned, Unowned, Holders
<1> QED BY <1>1, <1>2, <1>3, <1>4

\* ~async_mutex cancels a waiter.
LEMMA DestroyPopStep ==
  ASSUME IInv, destroy_pop
  PROVE  Types' /\ Flags' /\ LockIsOwned' /\ Unowned'
<1> USE DEF destroy_pop, flag_vars, Goto, mutex_vars, stop_vars, result_vars
<1>0. Types /\ Flags /\ LockIsOwned /\ Unowned /\ Listed
    BY DEF IInv
<1>a. waiters_ # <<>> => Head(waiters_) \in Waiters /\ Head(waiters_) \in in_list
    BY <1>0, ListHead
<1>1. Types'
    BY <1>0, <1>a DEF Types
<1>2. Flags'
    BY <1>0, <1>a, SMTT(30) DEF Types, Flags
<1>3. LockIsOwned'
    BY <1>0, <1>a, SMTT(30) DEF Types, Flags, LockIsOwned, Unowned, Holders
<1>4. Unowned'
    BY <1>0, <1>a DEF Types, Flags, LockIsOwned, Unowned, Holders
<1> QED BY <1>1, <1>2, <1>3, <1>4

-----------------------------------------------------------------------------
\* A mutex nobody has locked yet.
LEMMA Initially == Init => IInv
<1> SUFFICES ASSUME Init PROVE IInv
    OBVIOUS
<1>1. Types /\ Flags /\ LockIsOwned /\ Unowned
    BY DEF Init, Types, Flags, LockIsOwned, Unowned, Holders
<1>2. Listed
    BY SMTT(30) DEF Init, Listed, Distinct, Range
<1> QED BY <1>1, <1>2 DEF IInv

\* The invariant is inductive.
LEMMA Inductive == IInv /\ [Next]_vars => IInv'
<1> SUFFICES ASSUME IInv, [Next]_vars PROVE IInv'
    OBVIOUS
<1>1. CASE UNCHANGED vars
  <2> USE <1>1 DEF vars, mutex_vars, flag_vars, stop_vars, result_vars
  <2>1. Types' /\ Listed'
    BY DEF IInv, Types, Listed
  <2>2. Flags'
    BY DEF IInv, Flags
  <2>3. LockIsOwned' /\ Unowned'
    BY SMTT(30) DEF IInv, LockIsOwned, Unowned, Holders
  <2> QED BY <2>1, <2>2, <2>3 DEF IInv
<1>2. CASE Next
  <2>1. ASSUME NEW w \in Waiters, request_stop(w)
        PROVE  Types' /\ Flags' /\ LockIsOwned' /\ Unowned'
    BY <2>1, SMTT(30) DEF IInv, Types, Flags, LockIsOwned, Unowned, Holders, request_stop, mutex_vars,
           flag_vars, result_vars
  <2>2. ASSUME NEW w \in Waiters, quit(w) \/ abandon_posted(w)
        PROVE  Types' /\ Flags' /\ LockIsOwned' /\ Unowned'
    BY <2>2, DestroyAwaiterStep DEF quit, abandon_posted
  <2>3. Types' /\ Flags' /\ LockIsOwned' /\ Unowned'
    BY <1>2, <2>1, <2>2, LockStep, ResumeStep, CancelClaimStep, CancelPostStep, UnlockStarts,
       GrantStep, AbandonStep, ReleaseStep, DestroyWaitingStep, DestroyMutexStep,
       DestroyPopStep DEF Next, ExecutorStep, UnlockStep, CancelStep
  <2> QED BY <1>2, <2>3, ListStep DEF IInv
<1> QED BY <1>1, <1>2

\* For any number of coroutines the lock has exactly one owner while it is locked,
\* whatever cancellations, abandoned waiters, stopped quitters and destructors come
\* between its hand-over and the resumption of the waiter that gets it.
THEOREM OneOwner == Spec => []LockIsOwned
<1>1. IInv => LockIsOwned
    BY DEF IInv
<1> QED
    BY Initially, Inductive, <1>1, PTL DEF Spec

-----------------------------------------------------------------------------
(* Where a waiter is.                                                      *)

\* Every step keeps the executor's queue as its waiters' states say.
LEMMA QueueStep == PInv /\ Next => Queued'
<1> SUFFICES ASSUME PInv, Next PROVE Queued'
    OBVIOUS
<1>0. Types /\ Flags /\ Queued /\ Listed
    BY DEF PInv, IInv
<1>1. ASSUME queue' = queue, \A w \in Waiters : st'[w] = "posted" <=> st[w] = "posted"
      PROVE  Queued'
    BY <1>0, <1>1 DEF Queued
<1>2. ASSUME NEW w \in Waiters, st[w] # "posted", Goto(w, "posted"), queue' = Append(queue, w)
      PROVE  Queued'
  <2>1. w \notin Range(queue)
    BY <1>0, <1>2 DEF Queued
  <2>2. /\ queue' \in Seq(Waiters) /\ Distinct(queue')
        /\ Range(queue') = Range(queue) \cup {w}
    BY <1>0, <1>2, <2>1, Appended, SMTT(30) DEF Queued
  <2>3. \A u \in Waiters : st'[u] = "posted" <=> u \in Range(queue')
    BY <1>0, <1>2, <2>2 DEF Queued, Types, Goto
  <2> QED BY <2>2, <2>3 DEF Queued
<1>3. ASSUME NEW w \in Waiters, NEW l, l # "posted", Goto(w, l),
             queue' \in Seq(Waiters), Distinct(queue'), Range(queue') = Range(queue) \ {w}
      PROVE  Queued'
  <2>1. \A u \in Waiters : st'[u] = "posted" <=> u \in Range(queue')
    BY <1>0, <1>3 DEF Queued, Types, Goto
  <2> QED BY <1>3, <2>1 DEF Queued
<1>4. ASSUME NEW w \in Waiters, lock(w) PROVE Queued'
    BY <1>0, <1>1, <1>4 DEF lock, Goto, Types
<1>5. ASSUME NEW w \in Waiters, await_resume(w) PROVE Queued'
  <2>1. w \in Range(queue) /\ Head(queue) = w /\ queue' = Tail(queue)
    BY <1>0, <1>5 DEF await_resume, Queued
  <2>2. queue # <<>>
    BY <2>1, SMTT(30) DEF Range
  <2>3. /\ queue' \in Seq(Waiters) /\ Distinct(queue')
        /\ Range(queue') = Range(queue) \ {w}
    BY <1>0, <2>1, <2>2, Popped DEF Queued
  <2>4. Goto(w, "done") \/ Goto(w, "holding")
    BY <1>5 DEF await_resume
  <2> QED BY <2>3, <2>4, <1>3
<1>6. ASSUME NEW w \in Waiters, NEW l \in {"done", "destroyed"}, st[w] = "posted",
             destroy_awaiter(w, l)
      PROVE  Queued'
  <2>1. w \in Range(queue) /\ queue' = Without(queue, w) /\ Goto(w, l)
    BY <1>0, <1>6 DEF destroy_awaiter, Queued
  <2>2. /\ queue' \in Seq(Waiters) /\ Distinct(queue')
        /\ Range(queue') = Range(queue) \ {w}
    BY <1>0, <2>1, TakenOut DEF Queued
  <2> QED BY <2>1, <2>2, <1>3
<1>7. ASSUME NEW w \in Waiters, quit(w) \/ abandon_posted(w) PROVE Queued'
    BY <1>6, <1>7 DEF quit, abandon_posted
<1>8. ASSUME NEW w \in Waiters, cancel_post(w) PROVE Queued'
    BY <1>0, <1>2, <1>8 DEF cancel_post, Flags
<1>9. ASSUME NEW w \in Waiters, grant(w) \/ grant_abandoned(w) PROVE Queued'
  <2>1. st[w] = "waiting"
    BY <1>0, <1>9, Granted DEF grant, grant_abandoned, Flags
  <2>2. CASE grant(w)
    BY <1>2, <2>1, <2>2 DEF grant
  <2>3. CASE grant_abandoned(w)
    BY <1>0, <1>1, <2>1, <2>3 DEF grant_abandoned, Goto, Types
  <2> QED BY <1>9, <2>2, <2>3
<1>10. ASSUME NEW w \in Waiters, unlock(w) \/ destroy_waiting(w) PROVE Queued'
    BY <1>0, <1>1, <1>10 DEF unlock, destroy_waiting, Goto, Types
<1>11. CASE destroy_pop
  <2> DEFINE w == Head(waiters_)
  <2>1. waiters_ # <<>> => w \in Waiters /\ w \in in_list
    BY <1>0, ListHead
  <2>2. CASE waiters_ # <<>> /\ w \notin claimed /\ Goto(w, "posted") /\ queue' = Append(queue, w)
    BY <1>0, <1>2, <2>1, <2>2 DEF Flags
  <2>3. CASE waiters_ # <<>> /\ w \notin claimed /\ Goto(w, "destroyed") /\ queue' = queue
    BY <1>0, <1>1, <2>1, <2>3 DEF Flags, Goto, Types
  <2>4. CASE queue' = queue /\ st' = st
    BY <1>1, <2>4
  <2> QED BY <1>11, <2>2, <2>3, <2>4, Zenon DEF destroy_pop
<1>12. ASSUME NEW w \in Waiters, request_stop(w) \/ cancel_claim(w) PROVE Queued'
    BY <1>1, <1>12 DEF request_stop, cancel_claim
<1>13. CASE release \/ destroy_mutex
    BY <1>1, <1>13 DEF release, destroy_mutex
<1> QED BY <1>4, <1>5, <1>7, <1>8, <1>9, <1>10, <1>11, <1>12, <1>13
        DEF Next, ExecutorStep, UnlockStep, CancelStep

\* Every step leaves a waiter where its flags say.
LEMMA PlacesStep == PInv /\ Next => Places'
<1> SUFFICES ASSUME PInv, Next PROVE Places'
    OBVIOUS
<1>0. Types /\ Flags /\ LockIsOwned /\ Unowned /\ Listed /\ Places
    BY DEF PInv, IInv
<1> USE DEF Goto, mutex_vars, stop_vars, result_vars, flag_vars
<1>1. ASSUME NEW w \in Waiters, lock(w) PROVE Places'
    BY <1>0, <1>1 DEF lock, enqueue, Types, Flags, Places
<1>2. ASSUME NEW w \in Waiters, await_resume(w) PROVE Places'
    BY <1>0, <1>2, SMTT(30) DEF await_resume, Types, Flags, Places
<1>3. ASSUME NEW w \in Waiters, cancel_claim(w) \/ request_stop(w) PROVE Places'
    BY <1>0, <1>3 DEF cancel_claim, request_stop, Places
<1>4. ASSUME NEW w \in Waiters, cancel_post(w) PROVE Places'
    BY <1>0, <1>4 DEF cancel_post, Types, Flags, Places
<1>5. ASSUME NEW w \in Waiters, unlock(w) PROVE Places'
    BY <1>0, <1>5 DEF unlock, Types, Flags, Places
<1>6. ASSUME NEW w \in Waiters, grant(w) PROVE Places'
  <2>1. w \in in_list /\ in_list' \subseteq in_list /\ w \notin in_list'
    BY <1>0, <1>6, Granted DEF grant
  <2>2. granted = {} /\ alive = "yes" /\ w # None
    BY <1>0, <1>6, WaitersAssumption DEF grant, LockIsOwned, Unowned, Types
  <2> QED BY <1>0, <1>6, <2>1, <2>2 DEF grant, Types, Places
<1>7. ASSUME NEW w \in Waiters, grant_abandoned(w) PROVE Places'
  <2>1. w \in in_list /\ in_list' \subseteq in_list /\ w \notin in_list'
    BY <1>0, <1>7, Granted DEF grant_abandoned
  <2>2. alive = "yes"
    BY <1>0, <1>7 DEF grant_abandoned, Unowned, Types
  <2> QED BY <1>0, <1>7, <2>1, <2>2 DEF grant_abandoned, Types, Places
<1>8. CASE release
    BY <1>0, <1>8 DEF release, Places
<1>9. ASSUME NEW w \in Waiters, destroy_waiting(w) PROVE Places'
    BY <1>0, <1>9 DEF destroy_waiting, Types, Flags, Places
<1>10. ASSUME NEW w \in Waiters, NEW l \in {"done", "destroyed"}, st[w] = "posted",
              destroy_awaiter(w, l)
       PROVE  Places'
    BY <1>0, <1>10 DEF destroy_awaiter, Types, Flags, Places
<1>11. ASSUME NEW w \in Waiters, quit(w) \/ abandon_posted(w) PROVE Places'
    BY <1>10, <1>11 DEF quit, abandon_posted
<1>12. CASE destroy_mutex
    BY <1>0, <1>12 DEF destroy_mutex, Places
<1>13. CASE destroy_pop
  <2>1. CASE waiters_ = <<>>
    <3>1. in_list = {}
      BY <1>0, <2>1, SMTT(30) DEF Listed, Range
    <3> QED BY <1>0, <1>13, <2>1, <3>1 DEF destroy_pop, Places
  <2>2. CASE waiters_ # <<>>
    <3> DEFINE w == Head(waiters_)
    <3>1. w \in Waiters /\ w \in in_list
      BY <1>0, <2>2, ListHead
    <3>2. /\ alive = "dying" /\ alive' = "dying" /\ in_list' = in_list \ {w} /\ granted' = granted
          /\ \/ st' = st /\ active' = active
             \/ st' = [st EXCEPT ![w] = "posted"] /\ active' = active
             \/ st' = [st EXCEPT ![w] = "destroyed"] /\ active' = active \ {w}
      BY <1>13, <2>2 DEF destroy_pop
    <3> HIDE DEF w
    <3> QED BY <1>0, <3>1, <3>2 DEF Types, Places
  <2> QED BY <2>1, <2>2
<1> QED BY <1>1, <1>2, <1>3, <1>4, <1>5, <1>6, <1>7, <1>8, <1>9, <1>11, <1>12, <1>13
        DEF Next, ExecutorStep, UnlockStep, CancelStep

\* A step that moves one coroutine, which has no result yet, and gives it none.
LEMMA NoResult ==
  ASSUME Types, Results, NEW w \in Waiters, NEW l, st[w] \notin {"holding", "done"}, Goto(w, l),
         UNCHANGED <<got, refused>>
  PROVE  Results'
  BY DEF Types, Results, Goto

\* Every coroutine has at most one result.
LEMMA ResultsStep == PInv /\ Next => Results'
<1> SUFFICES ASSUME PInv, Next PROVE Results'
    OBVIOUS
<1>0. Types /\ Flags /\ Listed /\ Results
    BY DEF PInv, IInv
<1>1. ASSUME NEW w \in Waiters, lock(w) PROVE Results'
    BY <1>0, <1>1, SMTT(30) DEF lock, Goto, Types, Results
<1>2. ASSUME NEW w \in Waiters, await_resume(w) PROVE Results'
    BY <1>0, <1>2, SMTT(30) DEF await_resume, Goto, Types, Results
<1>3. ASSUME UNCHANGED <<st, got, refused>> PROVE Results'
    BY <1>0, <1>3 DEF Results
<1>4. ASSUME NEW w \in Waiters, cancel_claim(w) \/ request_stop(w) PROVE Results'
    BY <1>3, <1>4 DEF cancel_claim, request_stop, result_vars
<1>5. ASSUME NEW w \in Waiters, cancel_post(w) PROVE Results'
    BY <1>0, <1>5, NoResult DEF cancel_post, result_vars, Flags
<1>6. ASSUME NEW w \in Waiters, unlock(w) PROVE Results'
    BY <1>0, <1>6 DEF unlock, Goto, result_vars, Types, Results
<1>7. ASSUME NEW w \in Waiters, grant(w) \/ grant_abandoned(w) PROVE Results'
  <2>1. st[w] = "waiting"
    BY <1>0, <1>7, Granted DEF grant, grant_abandoned, Flags
  <2> QED BY <1>0, <1>7, <2>1, NoResult DEF grant, grant_abandoned, result_vars
<1>8. CASE release \/ destroy_mutex
    BY <1>3, <1>8 DEF release, destroy_mutex, result_vars
<1>9. ASSUME NEW w \in Waiters, destroy_waiting(w) \/ quit(w) \/ abandon_posted(w) PROVE Results'
    BY <1>0, <1>9, NoResult DEF destroy_waiting, quit, abandon_posted, destroy_awaiter, result_vars
<1>10. CASE destroy_pop
  <2> DEFINE w == Head(waiters_)
  <2>1. /\ UNCHANGED <<got, refused>>
        /\ \/ st' = st
           \/ /\ waiters_ # <<>> /\ w \notin claimed
              /\ Goto(w, "posted") \/ Goto(w, "destroyed")
    BY <1>10 DEF destroy_pop, result_vars
  <2>2. waiters_ # <<>> /\ w \notin claimed => w \in Waiters /\ st[w] = "waiting"
    BY <1>0, ListHead DEF Flags
  <2> HIDE DEF w
  <2> QED BY <1>0, <1>3, <2>1, <2>2, NoResult
<1> QED BY <1>1, <1>2, <1>4, <1>5, <1>6, <1>7, <1>8, <1>9, <1>10
        DEF Next, ExecutorStep, UnlockStep, CancelStep

\* Only enqueue() adds to the list, and nothing else changes the order in it.
LEMMA OrderStep ==
  PInv /\ Next =>
      \/ arrived' = arrived /\ InOrder(waiters_', waiters_)
      \/ \E w \in Waiters : /\ lock(w) /\ arrived' = Append(arrived, w) /\ Goto(w, "waiting")
                             /\ waiters_' = Append(waiters_, w)
<1> DEFINE Keeps == arrived' = arrived /\ InOrder(waiters_', waiters_)
           Adds(w) == /\ lock(w) /\ arrived' = Append(arrived, w) /\ Goto(w, "waiting")
                      /\ waiters_' = Append(waiters_, w)
<1> SUFFICES ASSUME PInv, Next PROVE Keeps \/ \E w \in Waiters : Adds(w)
    OBVIOUS
<1>0. Types /\ Flags /\ Listed
    BY DEF PInv, IInv
<1>1. ASSUME arrived' = arrived, waiters_' = waiters_ PROVE Keeps
    BY <1>1, OrderOfSame
<1>2. ASSUME NEW w \in Waiters, w \in in_list, arrived' = arrived, waiters_' = Unlinked(w) PROVE Keeps
    BY <1>0, <1>2, Unlinks
<1> USE DEF mutex_vars, result_vars
<1>3. ASSUME NEW w \in Waiters, lock(w) PROVE Keeps \/ Adds(w)
    BY <1>1, <1>3 DEF lock, enqueue
<1>4. ASSUME NEW w \in Waiters, await_resume(w) PROVE Keeps
    BY <1>1, <1>2, <1>4 DEF await_resume
<1>5. ASSUME NEW w \in Waiters, NEW l, destroy_awaiter(w, l) PROVE Keeps
    BY <1>1, <1>2, <1>5 DEF destroy_awaiter
<1>6. ASSUME NEW w \in Waiters, destroy_waiting(w) PROVE Keeps
    BY <1>0, <1>2, <1>6 DEF destroy_waiting, Flags
<1>7. ASSUME NEW w \in Waiters, grant_next(w), arrived' = arrived PROVE Keeps
  <2>1. PICK i \in DOMAIN waiters_ : waiters_' = SubSeq(waiters_, i + 1, Len(waiters_))
    BY <1>7 DEF grant_next
  <2>2. i \in 1 .. Len(waiters_)
    BY <1>0, SMTT(30) DEF Listed
  <2> QED BY <2>1, <2>2, <1>0, <1>7, Dropped, Zenon DEF Listed
<1>8. CASE release
    BY <1>8, OrderOfSame DEF release
<1>9. CASE destroy_pop
  <2>1. \/ waiters_' = waiters_
        \/ waiters_ # <<>> /\ waiters_' = Tail(waiters_)
    BY <1>9 DEF destroy_pop
  <2>2. arrived' = arrived
    BY <1>9 DEF destroy_pop
  <2> QED BY <1>0, <1>1, <2>1, <2>2, Popped, Zenon DEF Listed
<1>10. ASSUME NEW w \in Waiters, request_stop(w) \/ CancelStep(w) \/ unlock(w) PROVE Keeps
    BY <1>1, <1>10 DEF request_stop, CancelStep, cancel_claim, cancel_post, unlock
<1>11. CASE destroy_mutex
    BY <1>1, <1>11 DEF destroy_mutex
<1>12. ASSUME NEW w \in Waiters, grant(w) \/ grant_abandoned(w) PROVE Keeps
    BY <1>7, <1>12 DEF grant, grant_abandoned
<1> HIDE DEF Keeps, Adds
<1> QED BY <1>3, <1>4, <1>5, <1>6, <1>8, <1>9, <1>10, <1>11, <1>12, Zenon
        DEF Next, ExecutorStep, UnlockStep, abandon_posted, quit

\* Who has arrived and is neither claimed nor destroyed still waits.
LEMMA StillWaiting ==
  ASSUME PInv, Next, NEW u \in Waiters,
         st[u] # "new", u \in claimed \/ st[u] \in {"waiting", "destroyed"}
  PROVE  st'[u] # "new" /\ (u \in claimed' \/ st'[u] \in {"waiting", "destroyed"})
<1> DEFINE Fine == st'[u] # "new" /\ (u \in claimed' \/ st'[u] \in {"waiting", "destroyed"})
<1> SUFFICES Fine
    OBVIOUS
<1>0. Types /\ Flags /\ Listed
    BY DEF PInv, IInv
<1> USE DEF Goto
<1>1. ASSUME NEW w \in Waiters, lock(w) PROVE Fine
    BY <1>0, <1>1 DEF lock, Types
<1>2. ASSUME NEW w \in Waiters, await_resume(w) PROVE Fine
    BY <1>0, <1>2 DEF await_resume, Types, Flags
<1>3. ASSUME NEW w \in Waiters, request_stop(w) \/ cancel_claim(w) \/ cancel_post(w) PROVE Fine
    BY <1>0, <1>3 DEF request_stop, cancel_claim, cancel_post, Types, Flags
<1>4. ASSUME NEW w \in Waiters, unlock(w) \/ destroy_waiting(w) PROVE Fine
    BY <1>0, <1>4 DEF unlock, destroy_waiting, Types
<1>5. ASSUME NEW w \in Waiters, grant(w) \/ grant_abandoned(w) PROVE Fine
  <2>1. claimed' = claimed \cup {w}
    BY <1>0, <1>5, Granted DEF grant, grant_abandoned
  <2> QED BY <1>0, <1>5, <2>1 DEF grant, grant_abandoned, Types
<1>6. ASSUME NEW w \in Waiters, NEW l \in {"done", "destroyed"}, st[w] = "posted",
             destroy_awaiter(w, l)
      PROVE  Fine
    BY <1>0, <1>6 DEF destroy_awaiter, Types, Flags
<1>7. ASSUME NEW w \in Waiters, quit(w) \/ abandon_posted(w) PROVE Fine
    BY <1>6, <1>7 DEF quit, abandon_posted
<1>8. CASE release \/ destroy_mutex
    BY <1>0, <1>8 DEF release, destroy_mutex
<1>9. CASE destroy_pop
  <2> DEFINE w == Head(waiters_)
  <2>1. \/ st' = st /\ claimed \subseteq claimed'
        \/ /\ claimed' = claimed \cup {w}
           /\ Goto(w, "posted") \/ Goto(w, "destroyed")
    BY <1>9 DEF destroy_pop
  <2> HIDE DEF w
  <2> QED BY <1>0, <2>1 DEF Types
<1> HIDE DEF Fine
<1> QED BY <1>1, <1>2, <1>3, <1>4, <1>5, <1>7, <1>8, <1>9
        DEF Next, ExecutorStep, UnlockStep, CancelStep

\* Every step keeps the list in the order of arrival.
LEMMA ArrivalsStep == PInv /\ Next => Arrivals'
<1> SUFFICES ASSUME PInv, Next PROVE Arrivals'
    OBVIOUS
<1>0. Types /\ Listed /\ Arrivals
    BY DEF PInv, IInv
<1>1. Range(arrived) \subseteq Waiters
    BY <1>0, SMTT(30) DEF Arrivals, Range
<1>2. \A u \in Range(arrived) :
          st'[u] # "new" /\ (u \in claimed' \/ st'[u] \in {"waiting", "destroyed"})
    BY <1>0, <1>1, StillWaiting DEF Arrivals
<1>3. CASE arrived' = arrived /\ InOrder(waiters_', waiters_)
  <2>1. InOrder(waiters_', arrived')
    BY <1>0, <1>3, OrderOfPart DEF Arrivals
  <2> QED BY <1>0, <1>2, <1>3, <2>1, Zenon DEF Arrivals
<1>4. ASSUME NEW w \in Waiters, lock(w), arrived' = Append(arrived, w), Goto(w, "waiting"),
             waiters_' = Append(waiters_, w)
      PROVE  Arrivals'
  <2>1. w \notin Range(arrived)
    BY <1>0, <1>4 DEF Arrivals, lock
  <2>2. /\ arrived' \in Seq(Waiters) /\ Distinct(arrived')
        /\ Range(arrived') = Range(arrived) \cup {w}
    BY <1>0, <1>4, <2>1, Appended, SMTT(30) DEF Arrivals
  <2>3. InOrder(waiters_', arrived')
    BY <1>0, <1>4, OrderOfLonger DEF Listed, Arrivals
  <2>4. st'[w] = "waiting"
    BY <1>0, <1>4 DEF Goto, Types
  <2>5. \A u \in Range(arrived') :
          st'[u] # "new" /\ (u \in claimed' \/ st'[u] \in {"waiting", "destroyed"})
    BY <1>2, <2>2, <2>4
  <2> QED BY <2>2, <2>3, <2>5, Zenon DEF Arrivals
<1> QED BY <1>3, <1>4, OrderStep, Zenon

-----------------------------------------------------------------------------
\* The stronger invariant holds at first.
LEMMA PInitially == Init => PInv
<1> SUFFICES ASSUME Init PROVE PInv
    OBVIOUS
<1>1. Queued
    BY SMTT(30) DEF Init, Queued, Distinct, Range
<1>2. Places /\ Results
    BY DEF Init, Places, Results
<1>3. Arrivals
  <2>1. InOrder(waiters_, arrived)
    BY OrderOfSame DEF Init
  <2> QED BY <2>1, SMTT(30) DEF Init, Arrivals, Distinct, Range
<1> QED BY <1>1, <1>2, <1>3, Initially DEF PInv

\* And it is inductive.
LEMMA PInductive == PInv /\ [Next]_vars => PInv'
<1> SUFFICES ASSUME PInv, [Next]_vars PROVE PInv'
    OBVIOUS
<1>1. IInv'
    BY Inductive DEF PInv
<1>2. CASE UNCHANGED vars
  <2> USE <1>2 DEF vars, mutex_vars, flag_vars, stop_vars, result_vars
  <2>1. Queued' /\ Places'
    BY DEF PInv, Queued, Places
  <2>2. Results' /\ Arrivals'
    BY DEF PInv, Results, Arrivals
  <2> QED BY <1>1, <2>1, <2>2 DEF PInv
<1>3. CASE Next
    BY <1>1, <1>3, QueueStep, PlacesStep, ResultsStep, ArrivalsStep DEF PInv
<1> QED BY <1>2, <1>3

\* For any number of coroutines a waiter is where its flags say, and there once: nobody
\* is posted twice, in the list with its frame gone, registered with a callback that
\* outlives it, or told both that it has the lock and that it has not.
THEOREM OnePlace == Spec => []WaiterInOnePlace
<1>1. PInv => WaiterInOnePlace
  <2> SUFFICES ASSUME PInv PROVE WaiterInOnePlace
    OBVIOUS
  <2>1. Types /\ Listed /\ Flags /\ Unowned /\ Queued /\ Places /\ Results
    BY DEF PInv, IInv
  <2>2. \A i, j \in DOMAIN queue : queue[i] = queue[j] => i = j
    BY <2>1 DEF Queued, Distinct
  <2>3. \A w \in in_list : st[w] \in {"waiting", "posted"}
    <3>1. in_list \subseteq Waiters
      BY <2>1, SMTT(30) DEF Listed, Range
    <3> QED BY <2>1, <3>1 DEF Places
  <2>4. \A w \in firing : st[w] = "waiting"
    BY <2>1 DEF Flags, Types
  <2>5. \A w \in Waiters : st[w] \in {"new", "done", "destroyed"} => w \notin active
    BY <2>1 DEF Places
  <2>6. alive = "no" => in_list = {} /\ granted = {}
    BY <2>1 DEF Places, Unowned
  <2> QED
    BY <2>1, <2>2, <2>3, <2>4, <2>5, <2>6
       DEF WaiterInOnePlace, Queued, Places, Results, Listed
<1> QED
    BY PInitially, PInductive, <1>1, PTL DEF Spec

\* A step that hands over the lock hands it to the waiter that has waited longest.
LEMMA HandsOverInOrder ==
  ASSUME PInv, Next, NEW w \in Waiters, NEW u \in Waiters, w \in granted' \ granted,
         NEW a \in DOMAIN arrived, NEW b \in DOMAIN arrived, a < b,
         arrived[a] = u, arrived[b] = w
  PROVE  u \in claimed \/ st[u] = "destroyed"
<1>0. Types /\ Listed /\ Flags /\ Arrivals
    BY DEF PInv, IInv
<1>1. grant(w)
  <2>1. ASSUME NEW v \in Waiters, grant(v) PROVE w = v
    BY <2>1 DEF grant
  <2>2. ASSUME granted' \subseteq granted PROVE FALSE
    BY <2>2
  <2>3. ASSUME NEW v \in Waiters, await_resume(v) PROVE FALSE
    BY <2>2, <2>3 DEF await_resume
  <2>4. ASSUME NEW v \in Waiters, NEW l, destroy_awaiter(v, l) PROVE FALSE
    BY <2>2, <2>4 DEF destroy_awaiter
  <2>5. ASSUME NEW v \in Waiters,
               \/ lock(v) \/ request_stop(v) \/ CancelStep(v) \/ destroy_waiting(v)
               \/ unlock(v) \/ grant_abandoned(v)
        PROVE  FALSE
    BY <2>2, <2>5 DEF lock, request_stop, CancelStep, cancel_claim, cancel_post,
       destroy_waiting, unlock, grant_abandoned
  <2>6. ~(release \/ destroy_pop \/ destroy_mutex)
    BY <2>2 DEF release, destroy_pop, destroy_mutex
  <2> QED
    BY <2>1, <2>3, <2>4, <2>5, <2>6
       DEF Next, ExecutorStep, UnlockStep, quit, abandon_posted
<1>2. PICK i \in DOMAIN waiters_ :
          waiters_[i] = w /\ \A j \in 1 .. i - 1 : waiters_[j] \in claimed
    BY <1>1 DEF grant, grant_next
<1>3. SUFFICES ASSUME u \notin claimed, st[u] # "destroyed" PROVE FALSE
    OBVIOUS
<1>4. u \in Range(waiters_)
  <2>1. u \in Range(arrived)
    BY DEF Range
  <2> QED BY <1>0, <1>3, <2>1 DEF Arrivals, Flags, Listed
<1>5. PICK j \in DOMAIN waiters_ : waiters_[j] = u
    BY <1>4 DEF Range
<1>6. PICK c \in DOMAIN arrived, d \in DOMAIN arrived :
          waiters_[j] = arrived[c] /\ waiters_[i] = arrived[d] /\ (j < i <=> c < d)
    BY <1>0, SMTT(30) DEF Arrivals, InOrder
<1>7. c = a /\ d = b
    BY <1>0, <1>2, <1>5, <1>6 DEF Arrivals, Distinct
<1>8. j \in 1 .. i - 1
    BY <1>0, <1>6, <1>7, SMTT(30) DEF Listed
<1> QED BY <1>2, <1>3, <1>5, <1>8

\* For any number of coroutines the lock goes to the one that has waited longest among
\* those that still wait.
THEOREM FairQueueing == Spec => FirstInFirstOut
<1> DEFINE Fair == \A w, u \in Waiters :
                       (/\ w \in granted' \ granted
                        /\ \E i, j \in DOMAIN arrived :
                               i < j /\ arrived[i] = u /\ arrived[j] = w)
                       => u \in claimed \/ st[u] = "destroyed"
<1>1. PInv /\ [Next]_vars => [Fair]_vars
    BY HandsOverInOrder
<1> QED
    BY PInitially, PInductive, <1>1, PTL DEF Spec, FirstInFirstOut

=============================================================================
