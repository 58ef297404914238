------------------------- MODULE RunBlockingProofs --------------------------
(***************************************************************************)
(* A chain is unwound without a dangling owner and without a call of       *)
(* std::terminate, reported once, and waited for until its end, for any    *)
(* number of segments, executors, nested tasks and operations.             *)
(***************************************************************************)
EXTENDS RunBlocking, FiniteSetTheorems, TLAPS

\* Every leaf is for Zenon unless it names another prover.
USE Zenon

-----------------------------------------------------------------------------
(* The inductive invariant.                                                *)

Places == {"none", "queued", "running", "held", "lent", "done", "given"}
Flag == {"no", "yes"}

Types ==
    /\ ex_of \in [Segments -> Executors] /\ work \in [Executors -> Int]
    /\ st \in [Segments -> Places] /\ depth \in [Segments -> Nat]
    /\ holds \in [Segments -> Flag] /\ frame \in [Segments -> {"none", "live"}]
    /\ tr \in [Segments -> {"null", "set"}] /\ linked \in [Segments -> Flag]
    /\ posted \in [Segments -> Flag] /\ abandoned \in [Segments -> Flag]

\* Nothing of the segment is under way.
Idle(s) == st[s] \in {"none", "done"}

Empty(s) ==
    /\ st[s] = "none" /\ depth[s] = 0 /\ holds[s] = "no" /\ posted[s] = "no"
    /\ frame[s] = "none" /\ tr[s] = "null" /\ linked[s] = "no"

\* What a segment's own variables say: its owner lives as long as a coroutine of it is
\* anywhere, is linked exactly as long, and is posted exactly when the segment was
\* given up; the awaitable above has the handle of an owner that lives.
Local(s) ==
    /\ st[s] = "none" => depth[s] = 0
    /\ st[s] = "done" => frame[s] = "live"
    /\ Idle(s) => holds[s] = "no"
    /\ ~Idle(s) => depth[s] > 0 /\ frame[s] = "live"
    /\ s = 1 => /\ st[s] # "done" /\ tr[s] = "null" /\ linked[s] = "no"
                /\ frame[s] = "live" => st[s] # "none"
    /\ s > 1 => /\ linked[s] = "yes" <=> ~Idle(s)
                /\ tr[s] = "set" <=> frame[s] = "live"
    /\ posted[s] = "yes" <=> st[s] = "given"

\* What a segment says of the one below: there is nothing below one that holds no work;
\* one that waits has a segment at work below, one queued to come back a finished one,
\* and one that was given up one that is over.
Below(s) ==
    /\ holds[s] = "no" => st[s] # "lent" /\ (s < N => Empty(s + 1))
    /\ holds[s] = "yes" => /\ s < N /\ st[s] \in {"lent", "queued", "given"}
                           /\ st[s] = "lent" <=> ~Idle(s + 1)
                           /\ st[s] = "queued" => st[s + 1] = "done"

Shape == \A s \in Segments : Local(s) /\ Below(s)

\* Further down there is something only under a segment that waits.
Deep == \A s, t \in Segments : s + 1 < t /\ st[s] # "lent" => Empty(t)

\* A segment that was abandoned is yet to be unwound, or has passed the unwinding on.
GivenUp ==
    \A s \in Segments :
        /\ st[s] = "given" => abandoned[s] = "yes"
        /\ abandoned[s] = "yes" => \/ st[s] = "given"
                                   \/ st[s] = "none" /\ (s > 1 => abandoned[s - 1] = "yes")

\* How the chain ends is reported when its first owner is gone.
Ends ==
    /\ root \in {"run_async", "sender"} /\ launch \in {"no", "done", "threw"}
    /\ launch # "done" => frame[1] = "none" /\ abandoned[1] = "no"
    /\ handler = IF /\ root = "run_async" /\ launch = "done"
                    /\ frame[1] = "none" /\ abandoned[1] = "no" THEN 1 ELSE 0
    /\ root = "sender" =>
           /\ main = "none"
           /\ completions = IF launch = "done" /\ frame[1] = "none" THEN 1 ELSE 0
           /\ completions = 1 /\ abandoned[1] = "yes" => receiver = "stopped"
    /\ main = "running" =>
           /\ launch # "threw"
           /\ done = IF launch = "no" \/ frame[1] = "live" THEN "no"
                     ELSE IF handler = 1 THEN "value" ELSE "abandoned"
    /\ main \in {"returned", "threw"} =>
           launch # "no" /\ frame[1] = "none" /\ (main = "returned" <=> handler = 1)
    /\ main \in {"none", "running", "returned", "threw"}

\* The work on an executor is that of the awaitables that hold some, and of the
\* trampoline of run_async() (0 stands for it).
Debts(e) ==
    {s \in Segments : ex_of[s] = e /\ holds[s] = "yes"}
    \cup {i \in {0} : ex_of[1] = e /\ root = "run_async" /\ frame[1] = "live"}

Counted == \A e \in Executors : work[e] = Cardinality(Debts(e))

CInv ==
    /\ Types /\ Shape /\ Deep /\ GivenUp /\ Counted
    /\ crash \in {"no", "refused"}

IInv == CInv /\ Ends

-----------------------------------------------------------------------------
(* Segments.                                                               *)

LEMMA Neighbours ==
    /\ 1 \in Segments /\ N \in Nat
    /\ \A s \in Segments : s \in Nat /\ s >= 1 /\ s <= N
    /\ \A s \in Segments : s < N => s + 1 \in Segments
    /\ \A s \in Segments : s > 1 => s - 1 \in Segments
  BY ChainAssumption, SMTT(30) DEF Segments

\* Above a segment that is under way every one waits.
LEMMA AllLent ==
    ASSUME Types, Shape, Deep, NEW s \in Segments, ~Idle(s), NEW a \in Segments, a < s
    PROVE  st[a] = "lent"
<1>1. ~Empty(s)
  BY DEF Empty, Idle
<1>2. CASE a + 1 < s
  BY <1>1, <1>2 DEF Deep
<1>3. CASE a + 1 = s
  <2>1. Below(a) /\ a < N /\ holds[a] \in {"no", "yes"}
    BY Neighbours, SMTT(30) DEF Shape, Types, Flag
  <2> QED
    BY <1>1, <1>3, <2>1 DEF Below
<1> QED
  BY <1>2, <1>3, Neighbours, SMTT(30)

\* Nothing changes in a segment.
Same(t) ==
    /\ st'[t] = st[t] /\ depth'[t] = depth[t] /\ holds'[t] = holds[t] /\ frame'[t] = frame[t]
    /\ tr'[t] = tr[t] /\ linked'[t] = linked[t] /\ posted'[t] = posted[t]

\* A segment acts on itself and on its neighbours.
LEMMA Reshape ==
    ASSUME Types, Shape, Deep, NEW s \in Segments, ~Idle(s), st[s] # "lent",
           \A t \in Segments : t \notin {s - 1, s, s + 1} => Same(t),
           Local(s)', Below(s)',
           s < N => Local(s + 1)' /\ Below(s + 1)',
           s > 1 => Local(s - 1)' /\ Below(s - 1)' /\ ~Idle(s - 1)',
           s > 1 /\ s < N => st'[s - 1] = "lent" \/ Empty(s + 1)'
    PROVE  Shape' /\ Deep'
<1>1. \A a \in Segments : a < s => st[a] = "lent"
  BY AllLent
<1>2. \A t \in Segments : t \notin {s - 1, s, s + 1} => Local(t)'
  BY SMTT(30) DEF Shape, Local, Idle, Same
<1>3. \A t \in Segments : t \notin {s - 2, s - 1, s, s + 1} => Below(t)'
  <2> SUFFICES ASSUME NEW t \in Segments, t \notin {s - 2, s - 1, s, s + 1} PROVE Below(t)'
    OBVIOUS
  <2>1. Same(t) /\ Below(t) /\ (t < N => t + 1 \in Segments)
    BY Neighbours DEF Shape
  <2>2. t < N => Same(t + 1)
    <3>1. t < N => t + 1 \notin {s - 1, s, s + 1}
      BY Neighbours, SMTT(30)
    <3> QED
      BY <2>1, <3>1
  <2> QED
    BY <2>1, <2>2, SMTT(30) DEF Below, Same, Idle, Empty
<1>4. s > 2 => Below(s - 2)'
  <2> SUFFICES ASSUME s > 2 PROVE Below(s - 2)'
    OBVIOUS
  <2>1. /\ s - 2 \in Segments /\ s - 2 < s /\ s - 2 < N /\ (s - 2) + 1 = s - 1 /\ s > 1
        /\ s - 2 \notin {s - 1, s, s + 1}
    BY Neighbours, SMTT(30) DEF Segments
  <2>2. st[s - 2] = "lent" /\ Below(s - 2) /\ Same(s - 2)
    BY <1>1, <2>1 DEF Shape
  <2>3. st'[s - 2] = "lent" /\ holds'[s - 2] # "no" /\ ~Idle(s - 1)'
    BY <2>1, <2>2 DEF Below, Same
  <2> QED
    BY <2>1, <2>3 DEF Below
<1>5. Deep'
  <2> SUFFICES ASSUME NEW a \in Segments, NEW t \in Segments, a + 1 < t, st'[a] # "lent"
               PROVE  Empty(t)'
    BY DEF Deep
  <2>1. CASE t > s + 1
    <3>1. t \notin {s - 1, s, s + 1} /\ s + 1 < t
      BY <2>1, Neighbours, SMTT(30)
    <3> QED
      BY <3>1, SMTT(30) DEF Deep, Empty, Same
  <2>2. CASE ~(t > s + 1)
    <3>1. a < s /\ (a \notin {s - 1, s, s + 1} \/ (a = s - 1 /\ t = s + 1 /\ s > 1 /\ s < N))
      BY <2>2, Neighbours, SMTT(30)
    <3>2. a \in {s - 1, s, s + 1}
      BY <1>1, <3>1 DEF Same
    <3> QED
      BY <3>1, <3>2
  <2> QED
    BY <2>1, <2>2
<1>6. \A t \in Segments : Local(t)' /\ Below(t)'
  <2> SUFFICES ASSUME NEW t \in Segments PROVE Local(t)' /\ Below(t)'
    OBVIOUS
  <2>1. /\ t = s - 2 => s > 2
        /\ t = s - 1 => s > 1
        /\ t = s + 1 => s < N
    BY Neighbours, SMTT(30)
  <2>2. CASE t \in {s - 1, s, s + 1}
    BY <2>1, <2>2
  <2>3. CASE t \notin {s - 1, s, s + 1}
    BY <1>2, <1>3, <1>4, <2>1, <2>3
  <2> QED
    BY <2>2, <2>3
<1> QED
  BY <1>5, <1>6 DEF Shape

\* Nothing was given up but what is now given up or has passed it on.
LEMMA GivenKept ==
    ASSUME GivenUp,
           \A t \in Segments :
               /\ st'[t] = "given" => abandoned'[t] = "yes"
               /\ abandoned[t] = "yes" => abandoned'[t] = "yes"
               /\ abandoned'[t] = "yes" =>
                      \/ st'[t] = "given"
                      \/ st'[t] = "none" /\ abandoned[t] = "yes" /\ st[t] = "none"
                      \/ st'[t] = "none" /\ (t > 1 => abandoned'[t - 1] = "yes")
    PROVE  GivenUp'
<1> SUFFICES ASSUME NEW t \in Segments, abandoned'[t] = "yes", st'[t] # "given"
             PROVE  st'[t] = "none" /\ (t > 1 => abandoned'[t - 1] = "yes")
  BY DEF GivenUp
<1>1. CASE abandoned[t] = "yes" /\ st[t] = "none"
  BY <1>1, Neighbours DEF GivenUp
<1> QED
  BY <1>1

\* post() and abandon() of a segment that nobody has abandoned.
SentTo(s, now, l) ==
    /\ st' \in [Segments -> Places]
    /\ posted' \in [Segments -> Flag] /\ abandoned' \in [Segments -> Flag]
    /\ l \in {"queued", "given"} /\ st'[s] = l
    /\ posted'[s] = "yes" <=> l = "given"
    /\ abandoned'[s] = "yes" <=> l = "given"
    /\ \A t \in Segments \ {s} :
           st'[t] = now[t] /\ posted'[t] = posted[t] /\ abandoned'[t] = abandoned[t]

LEMMA Abandoning ==
    ASSUME Types, NEW s \in Segments, NEW now \in [Segments -> Places],
           abandoned[s] = "no", abandon(s, now, posted)
    PROVE  SentTo(s, now, "given")
  BY SMTT(30) DEF SentTo, abandon, Types, Flag, Places

LEMMA Posting ==
    ASSUME Types, NEW s \in Segments, NEW now \in [Segments -> Places],
           abandoned[s] = "no", posted[s] = "no", post(s, now)
    PROVE  \E l \in {"queued", "given"} : SentTo(s, now, l)
<1>1. CASE abandon(s, now, posted)
  BY <1>1, Abandoning
<1>2. CASE st' = [now EXCEPT ![s] = "queued"] /\ UNCHANGED <<abandoned, posted>>
  <2>1. SentTo(s, now, "queued")
    BY <1>2, SMTT(30) DEF SentTo, Types, Flag, Places
  <2> QED
    BY <2>1
<1> QED
  BY <1>1, <1>2 DEF post

\* The owner of a segment under way was not abandoned unless it is to unwind it.
LEMMA NotGivenUp ==
    ASSUME Types, Shape, GivenUp, NEW s \in Segments, st[s] \notin {"none", "given"}
    PROVE  abandoned[s] = "no" /\ posted[s] = "no"
<1>1. abandoned[s] \in {"no", "yes"} /\ posted[s] \in {"no", "yes"} /\ Local(s)
  BY DEF Types, Flag, Shape
<1> QED
  BY <1>1 DEF GivenUp, Local

\* A segment nobody touches, above one nobody touches.
LEMMA Unmoved ==
    ASSUME Shape, NEW t \in Segments, Same(t)
    PROVE  Local(t)' /\ ((t < N => Same(t + 1)) => Below(t)')
<1>1. Local(t) /\ Below(t)
  BY DEF Shape
<1>2. Local(t)'
  BY <1>1 DEF Local, Idle, Same
<1>3. (t < N => Same(t + 1)) => Below(t)'
  BY <1>1 DEF Below, Same, Idle, Empty
<1> QED
  BY <1>2, <1>3

\* Below a segment that does not wait, one that was emptied.
LEMMA Emptied ==
    ASSUME Types, Shape, Deep, NEW s \in Segments, s < N, st[s] # "lent",
           Empty(s + 1)', s + 1 < N => Same(s + 2)
    PROVE  Local(s + 1)' /\ Below(s + 1)'
<1>1. /\ s \in Nat /\ s + 1 \in Segments /\ s + 1 # 1 /\ (s + 1) + 1 = s + 2
      /\ s + 1 < N => s + 2 \in Segments /\ s + 1 < s + 2
  BY Neighbours, SMTT(30)
<1>2. s + 1 < N => Empty(s + 2)'
  <2>1. s + 1 < N => Empty(s + 2)
    BY <1>1 DEF Deep
  <2> QED
    BY <2>1 DEF Empty, Same
<1>3. Local(s + 1)'
  BY <1>1 DEF Local, Empty, Idle
<1>4. Below(s + 1)'
  BY <1>1, <1>2 DEF Below, Empty
<1> QED
  BY <1>3, <1>4

-----------------------------------------------------------------------------
(* Work.                                                                   *)

LEMMA FiniteDebts ==
    ASSUME NEW e
    PROVE  /\ IsFiniteSet(Debts(e)) /\ Cardinality(Debts(e)) \in Nat
           /\ 0 \notin Segments
<1>1. IsFiniteSet(0 .. N) /\ Debts(e) \subseteq 0 .. N /\ 0 \notin Segments
  BY Neighbours, FS_Interval, SMTT(30) DEF Debts, Segments
<1>2. IsFiniteSet(Debts(e))
  BY <1>1, FS_Subset
<1> QED
  BY <1>1, <1>2, FS_CardinalityType

LEMMA SameDebts ==
    ASSUME Counted, UNCHANGED <<work, ex_of, holds, root>>, frame'[1] = frame[1]
    PROVE  Counted'
<1>1. \A e : Debts(e)' = Debts(e)
  BY DEF Debts
<1> QED
  BY <1>1 DEF Counted

LEMMA DebtGrows ==
    ASSUME Types, Counted, NEW x \in Executors, NEW i, i \notin Debts(x),
           work' = [work EXCEPT ![x] = @ + 1],
           Debts(x)' = Debts(x) \cup {i},
           \A e \in Executors \ {x} : Debts(e)' = Debts(e)
    PROVE  Counted' /\ work' \in [Executors -> Int]
<1>1. Cardinality(Debts(x) \cup {i}) = Cardinality(Debts(x)) + 1 /\ Cardinality(Debts(x)) \in Nat
  BY FiniteDebts, FS_AddElement
<1>2. work'[x] = Cardinality(Debts(x)') /\ work' \in [Executors -> Int]
  BY <1>1, SMTT(30) DEF Counted, Types
<1>3. \A e \in Executors \ {x} : work'[e] = Cardinality(Debts(e)')
  BY DEF Counted, Types
<1> QED
  BY <1>2, <1>3 DEF Counted

\* What is destroyed holds no work any more.
LEMMA DestroyCounts ==
    ASSUME Types, Counted, NEW s \in Segments, NEW d, NEW dead \in {{}, {s}},
           frame[s] = "live", destroy(s, d, dead), UNCHANGED <<ex_of, root>>
    PROVE  Counted' /\ work' \in [Executors -> Int]
<1>a. Ex(s) \in Executors
  BY DEF Types, Ex
<1> SUFFICES ASSUME NEW x \in Executors, x = Ex(s)
             PROVE  Counted' /\ work' \in [Executors -> Int]
  BY <1>a
<1> DEFINE D == Debts(x)
           G == {i \in {0} : root = "run_async" /\ 1 \in dead}
           h == IF holds[s] = "yes" THEN 1 ELSE 0
           g == Cardinality(dead \cap Guarded)
<1>0. IsFiniteSet(D) /\ Cardinality(D) \in Nat /\ 0 \notin Segments
  BY FiniteDebts
<1>1. /\ s + 1 # 1 /\ s # 0 /\ 1 \in Segments
      /\ dead = {} \/ dead = {s}
  BY Neighbours, SMTT(30)
<1>2. /\ \A t \in Segments : holds'[t] = IF t = s THEN "no" ELSE holds[t]
      /\ frame'[1] = IF 1 \in dead THEN "none" ELSE frame[1]
      /\ work' = [work EXCEPT ![x] = @ - h - g]
  BY <1>1 DEF destroy, Types, Ex
<1>3. /\ 1 \in dead => s = 1 /\ ex_of[1] = x /\ frame[1] = "live"
      /\ frame'[1] = "live" <=> frame[1] = "live" /\ 1 \notin dead
  BY <1>1, <1>2 DEF Ex
<1>4. \A e \in Executors \ {x} : Debts(e)' = Debts(e)
  <2> SUFFICES ASSUME NEW e \in Executors, e # x PROVE Debts(e)' = Debts(e)
    OBVIOUS
  <2>1. ex_of[s] # e /\ (1 \in dead => ex_of[1] # e)
    BY <1>3 DEF Ex
  <2>2. {t \in Segments : ex_of'[t] = e /\ holds'[t] = "yes"}
            = {t \in Segments : ex_of[t] = e /\ holds[t] = "yes"}
    BY <1>2, <2>1
  <2>3. (ex_of'[1] = e /\ root' = "run_async" /\ frame'[1] = "live")
            <=> (ex_of[1] = e /\ root = "run_async" /\ frame[1] = "live")
    BY <1>3, <2>1
  <2> QED
    BY <2>2, <2>3 DEF Debts
<1>5. Debts(x)' = (D \ {s}) \ G
  <2>1. {t \in Segments : ex_of'[t] = x /\ holds'[t] = "yes"}
            = {t \in Segments : ex_of[t] = x /\ holds[t] = "yes"} \ {s}
    BY <1>2
  <2>2. {i \in {0} : ex_of'[1] = x /\ root' = "run_async" /\ frame'[1] = "live"}
            = {i \in {0} : ex_of[1] = x /\ root = "run_async" /\ frame[1] = "live"} \ G
    BY <1>3
  <2> QED
    BY <1>0, <1>1, <2>1, <2>2 DEF Debts
<1>6. IsFiniteSet(D \ {s}) /\ Cardinality(D \ {s}) = Cardinality(D) - h
  <2>1. s \in D <=> holds[s] = "yes"
    BY <1>1 DEF Debts, Ex
  <2> QED
    BY <1>0, <2>1, FS_RemoveElement, SMTT(30)
<1>7. Cardinality((D \ {s}) \ G) = Cardinality(D) - h - g
  <2>1. CASE root = "run_async" /\ 1 \in dead
    <3>1. G = {0} /\ dead \cap Guarded = {1} /\ 0 \in D \ {s}
      BY <1>1, <1>3, <2>1 DEF Guarded, Debts
    <3>2. g = 1
      BY <3>1, FS_Singleton
    <3>3. Cardinality((D \ {s}) \ {0}) = Cardinality(D \ {s}) - 1
      <4> HIDE DEF D
      <4> QED
        BY <1>6, <3>1, FS_RemoveElement
    <3> QED
      BY <1>6, <3>1, <3>2, <3>3
  <2>2. CASE ~(root = "run_async" /\ 1 \in dead)
    <3>1. G = {} /\ dead \cap Guarded = {}
      BY <2>2 DEF Guarded
    <3>2. g = 0 /\ (D \ {s}) \ G = D \ {s}
      BY <3>1, FS_EmptySet
    <3>3. Cardinality(D) - h - 0 = Cardinality(D) - h
      BY <1>0, SMTT(30)
    <3> QED
      BY <1>6, <3>2, <3>3
  <2> QED
    BY <2>1, <2>2
<1>8. h \in Int /\ g \in Int
  <2>1. g = 0 \/ g = 1
    <3>1. dead \cap Guarded = {} \/ dead \cap Guarded = {1}
      BY <1>1 DEF Guarded
    <3> QED
      BY <3>1, FS_EmptySet, FS_Singleton
  <2> QED
    BY <2>1, SMTT(30)
<1> HIDE DEF g, h, D, G
<1>9. work' \in [Executors -> Int] /\ work'[x] = Cardinality(D) - h - g
  BY <1>1, <1>2, <1>8, SMTT(30) DEF Counted, Types, D
<1>10. \A e \in Executors \ {x} : work'[e] = Cardinality(Debts(e)')
  BY <1>1, <1>2, <1>4 DEF Counted, Types
<1>11. work'[x] = Cardinality(Debts(x)')
  BY <1>5, <1>7, <1>9
<1>12. \A e \in Executors : work'[e] = Cardinality(Debts(e)')
  BY <1>10, <1>11
<1> QED
  BY <1>9, <1>12 DEF Counted

-----------------------------------------------------------------------------
(* Steps of one segment.                                                   *)

\* The invariant is kept, and the first owner stays as it is.
Kept ==
    /\ CInv' /\ frame'[1] = frame[1]
    /\ frame[1] = "none" => abandoned'[1] = abandoned[1]

\* A segment that goes on, waits for its executor or for something outside, or is
\* given up; nothing else changes.
Moves(s) ==
    /\ st' \in [Segments -> Places] /\ depth' \in [Segments -> Nat]
    /\ posted' \in [Segments -> Flag] /\ abandoned' \in [Segments -> Flag]
    /\ st'[s] \in {"queued", "running", "held", "given"} /\ depth'[s] > 0
    /\ holds[s] = "yes" => st'[s] = "given"
    /\ posted'[s] = "yes" <=> st'[s] = "given"
    /\ abandoned'[s] = "yes" <=> st'[s] = "given"
    /\ \A t \in Segments \ {s} : /\ st'[t] = st[t] /\ depth'[t] = depth[t]
                                  /\ posted'[t] = posted[t] /\ abandoned'[t] = abandoned[t]
    /\ UNCHANGED <<root, ex_of, work, holds, frame, tr, linked, crash>>

LEMMA Moving ==
    ASSUME CInv, NEW s \in Segments, st[s] \in {"queued", "running", "held"}, Moves(s)
    PROVE  Kept
<1>1. /\ Types /\ Shape /\ Deep /\ GivenUp /\ Counted /\ crash \in {"no", "refused"}
      /\ ~Idle(s) /\ st[s] # "lent" /\ Local(s) /\ Below(s)
  BY DEF CInv, Idle, Shape
<1>2. abandoned[s] = "no"
  BY <1>1, NotGivenUp
<1>3. \A t \in Segments \ {s} : Same(t)
  BY DEF Moves, Same
<1>4. /\ s < N => s + 1 \in Segments \ {s} /\ (s + 1 < N => (s + 1) + 1 \in Segments \ {s})
      /\ s > 1 => s - 1 \in Segments \ {s} /\ s - 1 < s /\ (s - 1) + 1 = s /\ s - 1 < N
      /\ s \notin {s - 1, s + 1}
  BY Neighbours, SMTT(30)
<1>5. Types'
  BY <1>1 DEF Types, Moves
<1>6. Local(s)'
  BY <1>1 DEF Local, Idle, Moves
<1>7. Below(s)'
  <2>1. s < N => Same(s + 1)
    BY <1>3, <1>4
  <2> QED
    BY <1>1, <2>1 DEF Below, Idle, Empty, Same, Moves
<1>8. s < N => Local(s + 1)' /\ Below(s + 1)'
  BY <1>1, <1>3, <1>4, Unmoved
<1>9. s > 1 => st[s - 1] = "lent" /\ Same(s - 1) /\ Local(s - 1) /\ Below(s - 1)
  BY <1>1, <1>3, <1>4, AllLent DEF Shape
<1>10. s > 1 => /\ Local(s - 1)' /\ Below(s - 1)'
                /\ st'[s - 1] = "lent" /\ ~Idle(s - 1)'
  <2> SUFFICES ASSUME s > 1
               PROVE  Local(s - 1)' /\ Below(s - 1)' /\ st'[s - 1] = "lent" /\ ~Idle(s - 1)'
    OBVIOUS
  <2>1. Local(s - 1)'
    BY <1>1, <1>4, <1>9, Unmoved
  <2>2. st'[s - 1] = "lent" /\ holds'[s - 1] = holds[s - 1] /\ ~Idle(s)'
    BY <1>9 DEF Same, Moves, Idle
  <2> QED
    BY <1>4, <1>9, <2>1, <2>2 DEF Below, Idle
<1>11. Shape' /\ Deep'
  BY <1>1, <1>3, <1>6, <1>7, <1>8, <1>10, Reshape
<1>12. GivenUp'
  <2>1. \A t \in Segments \ {s} :
           /\ st'[t] = "given" => abandoned'[t] = "yes"
           /\ abandoned[t] = "yes" => abandoned'[t] = "yes"
           /\ abandoned'[t] = "yes" => \/ st'[t] = "given"
                                       \/ /\ st'[t] = "none" /\ abandoned[t] = "yes"
                                          /\ st[t] = "none"
    BY <1>1 DEF GivenUp, Moves
  <2> QED
    BY <1>1, <1>2, <2>1, GivenKept DEF Moves
<1>13. Counted'
  BY <1>1, SameDebts DEF Moves
<1>14. frame[1] = "none" => s # 1
  BY <1>1 DEF Local
<1> QED
  BY <1>1, <1>5, <1>11, <1>12, <1>13, <1>14, Neighbours DEF Kept, CInv, Moves

\* wait(), complete(), give_up(), call(), return(), drain(), and resume() of a coroutine
\* that does not come back from run().
LEMMA OneMoves ==
    ASSUME CInv, NEW s \in Segments,
           \/ wait(s) \/ complete(s) \/ give_up(s) \/ call(s) \/ return(s) \/ drain(s)
           \/ resume(s) /\ holds[s] = "no"
    PROVE  Kept
<1>1. Types /\ Shape /\ GivenUp /\ Local(s) /\ Below(s)
  BY DEF CInv, Shape
<1>2. st[s] \in {"queued", "running", "held"}
  BY DEF wait, complete, give_up, call, return, drain, resume
<1>3. /\ abandoned[s] = "no" /\ posted[s] = "no" /\ depth[s] > 0 /\ st \in [Segments -> Places]
      /\ st[s] # "queued" => holds[s] # "yes"
  BY <1>1, <1>2, NotGivenUp DEF Local, Idle, Below, Types
<1>4. ASSUME NEW l, SentTo(s, st, l), l = "given" \/ holds[s] # "yes",
             UNCHANGED <<ex_vars, depth, holds, frame, tr, linked, crash>>
      PROVE  Moves(s)
  BY <1>1, <1>3, <1>4 DEF Moves, SentTo, Types, ex_vars
<1>5. CASE give_up(s) \/ drain(s)
  <2>1. /\ SentTo(s, st, "given")
        /\ UNCHANGED <<ex_vars, depth, holds, frame, tr, linked, crash>>
    BY <1>1, <1>3, <1>5, Abandoning DEF give_up, drain
  <2> QED
    BY <1>2, <1>4, <2>1, Moving
<1>6. CASE complete(s)
  <2>1. PICK l \in {"queued", "given"} : SentTo(s, st, l)
    BY <1>1, <1>3, <1>6, Posting DEF complete
  <2>2. /\ UNCHANGED <<ex_vars, depth, holds, frame, tr, linked, crash>>
        /\ holds[s] # "yes"
    BY <1>3, <1>6 DEF complete
  <2> QED
    BY <1>2, <1>4, <2>1, <2>2, Moving
<1>7. CASE wait(s) \/ (resume(s) /\ holds[s] = "no")
  <2>1. /\ \E l \in {"held", "running"} : st' = [st EXCEPT ![s] = l]
        /\ UNCHANGED <<ex_of, root, work, depth, holds, owner_vars, crash>>
        /\ holds[s] # "yes"
    BY <1>3, <1>7 DEF wait, resume, ex_vars, owner_vars
  <2>2. Moves(s)
    BY <1>1, <1>3, <2>1, SMTT(30) DEF Moves, Types, Places, owner_vars
  <2> QED
    BY <1>2, <2>2, Moving
<1>8. CASE call(s) \/ return(s)
  <2>1. /\ depth' \in [Segments -> Nat] /\ depth'[s] > 0
        /\ \A t \in Segments \ {s} : depth'[t] = depth[t]
    BY <1>1, <1>8, SMTT(30) DEF call, return, Types
  <2>2. /\ UNCHANGED <<ex_of, root, work, st, holds, owner_vars, crash>>
        /\ st[s] = "running" /\ holds[s] # "yes"
    BY <1>3, <1>8 DEF call, return, ex_vars
  <2>3. Moves(s)
    BY <1>1, <1>3, <2>1, <2>2 DEF Moves, Types, Places, owner_vars
  <2> QED
    BY <1>2, <2>3, Moving
<1> QED
  BY <1>5, <1>6, <1>7, <1>8

\* run(): the inner task is posted, and work is held until it is back.
LEMMA Running ==
    ASSUME CInv, NEW s \in Segments, run(s)
    PROVE  Kept
<1> DEFINE now == [st EXCEPT ![s] = "lent"]
<1>1. /\ Types /\ Shape /\ Deep /\ GivenUp /\ Counted /\ crash \in {"no", "refused"}
      /\ st[s] = "running" /\ ~Idle(s) /\ st[s] # "lent" /\ Local(s) /\ Below(s) /\ s < N
  BY DEF CInv, Idle, Shape, run
<1>2. /\ s + 1 \in Segments /\ s + 1 # s /\ s + 1 > 1 /\ s + 1 # 1 /\ (s + 1) - 1 = s /\ 1 \in Segments
      /\ (s + 1) + 1 = s + 2
      /\ s + 1 < N => s + 2 \in Segments /\ s + 1 < s + 2 /\ s + 2 \notin {s, s + 1}
      /\ s > 1 => /\ s - 1 \in Segments /\ s - 1 < s /\ (s - 1) + 1 = s /\ s - 1 < N
                  /\ s - 1 \notin {s, s + 1}
  BY <1>1, Neighbours, SMTT(30)
<1>3. abandoned[s] = "no" /\ holds[s] = "no" /\ Empty(s + 1)
  <2>1. holds[s] \in {"no", "yes"}
    BY <1>1 DEF Types, Flag
  <2> QED
    BY <1>1, <2>1, NotGivenUp DEF Below
<1>4. abandoned[s + 1] = "no" /\ posted[s + 1] = "no" /\ st[s + 1] = "none"
  <2>1. abandoned[s + 1] \in {"no", "yes"} /\ posted[s + 1] = "no" /\ st[s + 1] = "none"
    BY <1>1, <1>2, <1>3 DEF Types, Flag, Empty
  <2>2. abandoned[s + 1] # "yes"
    BY <1>1, <1>2, <1>3, <2>1 DEF GivenUp
  <2> QED
    BY <2>1, <2>2
<1>5. now \in [Segments -> Places]
  BY <1>1 DEF Types, Places
<1>6. PICK l \in {"queued", "given"} : SentTo(s + 1, now, l)
  BY <1>1, <1>2, <1>4, <1>5, Posting DEF run
<1>7. /\ frame' = [frame EXCEPT ![s + 1] = "live"] /\ tr' = [tr EXCEPT ![s + 1] = "set"]
      /\ linked' = [linked EXCEPT ![s + 1] = "yes"] /\ depth' = [depth EXCEPT ![s + 1] = 1]
      /\ work' = [work EXCEPT ![Ex(s)] = @ + 1] /\ holds' = [holds EXCEPT ![s] = "yes"]
      /\ UNCHANGED <<root, ex_of, ex, crash>>
  BY DEF run
<1>8. /\ st' \in [Segments -> Places] /\ depth' \in [Segments -> Nat]
      /\ posted' \in [Segments -> Flag] /\ abandoned' \in [Segments -> Flag]
      /\ holds' \in [Segments -> Flag] /\ frame' \in [Segments -> {"none", "live"}]
      /\ tr' \in [Segments -> {"null", "set"}] /\ linked' \in [Segments -> Flag]
  <2>1. /\ st' \in [Segments -> Places]
        /\ posted' \in [Segments -> Flag] /\ abandoned' \in [Segments -> Flag]
    BY <1>6 DEF SentTo
  <2>2. /\ depth' \in [Segments -> Nat] /\ holds' \in [Segments -> Flag]
        /\ frame' \in [Segments -> {"none", "live"}]
    BY <1>1, <1>7 DEF Types, Flag
  <2>3. tr' \in [Segments -> {"null", "set"}] /\ linked' \in [Segments -> Flag]
    BY <1>1, <1>7 DEF Types, Flag
  <2> QED
    BY <2>1, <2>2, <2>3
<1>9. \A t \in Segments : t \notin {s, s + 1} => Same(t) /\ abandoned'[t] = abandoned[t]
  BY <1>1, <1>6, <1>7, SMTT(30) DEF Types, SentTo, Same
<1>10. /\ st'[s] = "lent" /\ holds'[s] = "yes" /\ depth'[s] = depth[s] /\ frame'[s] = frame[s]
       /\ tr'[s] = tr[s] /\ linked'[s] = linked[s] /\ posted'[s] = posted[s]
       /\ abandoned'[s] = "no"
  BY <1>1, <1>2, <1>3, <1>6, <1>7, SMTT(30) DEF Types, SentTo
<1>11. /\ st'[s + 1] = l /\ holds'[s + 1] = "no" /\ depth'[s + 1] = 1 /\ frame'[s + 1] = "live"
       /\ tr'[s + 1] = "set" /\ linked'[s + 1] = "yes"
       /\ posted'[s + 1] = "yes" <=> l = "given"
       /\ abandoned'[s + 1] = "yes" <=> l = "given"
  BY <1>1, <1>2, <1>3, <1>6, <1>7, SMTT(30) DEF Types, SentTo, Empty
<1>12. Local(s)'
  BY <1>1, <1>10 DEF Local, Idle
<1>13. Below(s)'
  BY <1>1, <1>10, <1>11 DEF Below, Idle
<1>14. Local(s + 1)'
  BY <1>2, <1>11, SMTT(30) DEF Local, Idle
<1>15. Below(s + 1)'
  <2>1. s + 1 < N => Empty(s + 2) /\ Same(s + 2)
    BY <1>1, <1>2, <1>9 DEF Deep
  <2>2. s + 1 < N => Empty(s + 2)'
    BY <2>1 DEF Empty, Same
  <2> QED
    BY <1>2, <1>11, <2>2 DEF Below
<1>16. s > 1 => /\ Local(s - 1)' /\ Below(s - 1)'
                /\ st'[s - 1] = "lent" /\ ~Idle(s - 1)'
  <2> SUFFICES ASSUME s > 1
               PROVE  Local(s - 1)' /\ Below(s - 1)' /\ st'[s - 1] = "lent" /\ ~Idle(s - 1)'
    OBVIOUS
  <2>1. st[s - 1] = "lent" /\ Same(s - 1) /\ Local(s - 1)' /\ Below(s - 1)
    BY <1>1, <1>2, <1>9, AllLent, Unmoved DEF Shape
  <2> QED
    BY <1>2, <1>10, <2>1 DEF Below, Idle, Same
<1>17. Shape' /\ Deep'
  BY <1>1, <1>9, <1>12, <1>13, <1>14, <1>15, <1>16, Reshape
<1>18. GivenUp'
  <2>1. \A t \in Segments : t \notin {s, s + 1} =>
           /\ st'[t] = "given" => abandoned'[t] = "yes"
           /\ abandoned[t] = "yes" => abandoned'[t] = "yes"
           /\ abandoned'[t] = "yes" => \/ st'[t] = "given"
                                       \/ /\ st'[t] = "none" /\ abandoned[t] = "yes"
                                          /\ st[t] = "none"
    BY <1>1, <1>9 DEF GivenUp, Same
  <2> QED
    BY <1>1, <1>3, <1>4, <1>10, <1>11, <2>1, GivenKept
<1>19. Counted' /\ work' \in [Executors -> Int]
  <2>1. Ex(s) \in Executors
    BY <1>1 DEF Types, Ex
  <2> SUFFICES ASSUME NEW x \in Executors, x = ex_of[s]
               PROVE  Counted' /\ work' \in [Executors -> Int]
    BY <2>1 DEF Ex
  <2>2. /\ \A t \in Segments : holds'[t] = IF t = s THEN "yes" ELSE holds[t]
        /\ frame'[1] = frame[1]
    BY <1>1, <1>2, <1>7 DEF Types
  <2>3. s \notin Debts(x) /\ Debts(x)' = Debts(x) \cup {s}
    <3>1. s # 0
      BY Neighbours, SMTT(30)
    <3>2. {t \in Segments : ex_of'[t] = x /\ holds'[t] = "yes"}
              = {t \in Segments : ex_of[t] = x /\ holds[t] = "yes"} \cup {s}
      BY <1>7, <2>2
    <3> QED
      BY <1>3, <1>7, <2>2, <3>1, <3>2 DEF Debts
  <2>4. \A e \in Executors \ {x} : Debts(e)' = Debts(e)
    BY <1>7, <2>2 DEF Debts
  <2> QED
    BY <1>1, <1>7, <2>3, <2>4, DebtGrows DEF Ex
<1>20. Types'
  BY <1>1, <1>7, <1>8, <1>19 DEF Types
<1>21. frame'[1] = frame[1] /\ abandoned'[1] = abandoned[1]
  <2>1. CASE s = 1
    BY <1>3, <1>10, <2>1
  <2>2. CASE s # 1
    <3>1. Same(1) /\ abandoned'[1] = abandoned[1]
      BY <1>2, <1>9, <2>2
    <3> QED
      BY <3>1 DEF Same
  <2> QED
    BY <2>1, <2>2
<1> QED
  BY <1>1, <1>7, <1>17, <1>18, <1>19, <1>20, <1>21 DEF Kept, CInv

\* The end of a segment: its parent is posted, or given up.
LEMMA Ending ==
    ASSUME CInv, NEW s \in Segments, end_segment(s)
    PROVE  Kept
<1> DEFINE now == [st EXCEPT ![s] = "done"]
<1>1. /\ Types /\ Shape /\ Deep /\ GivenUp /\ Counted /\ crash \in {"no", "refused"}
      /\ st[s] = "running" /\ ~Idle(s) /\ st[s] # "lent" /\ Local(s) /\ Below(s) /\ s > 1
  BY DEF CInv, Idle, Shape, end_segment
<1>2. /\ s - 1 \in Segments /\ s - 1 # s /\ s - 1 < s /\ (s - 1) + 1 = s /\ s - 1 < N /\ s # 1
      /\ s + 1 # s - 1 /\ 1 \in Segments
      /\ s < N => s + 1 \in Segments /\ s + 1 \notin {s - 1, s}
      /\ s + 1 < N => (s + 1) + 1 \in Segments /\ (s + 1) + 1 \notin {s - 1, s}
  BY <1>1, Neighbours, SMTT(30)
<1>3. /\ abandoned[s] = "no" /\ posted[s] = "no" /\ holds[s] = "no" /\ (s < N => Empty(s + 1))
  <2>1. holds[s] \in {"no", "yes"}
    BY <1>1 DEF Types, Flag
  <2> QED
    BY <1>1, <2>1, NotGivenUp DEF Below
<1>4. st[s - 1] = "lent" /\ Local(s - 1) /\ Below(s - 1)
  BY <1>1, <1>2, AllLent DEF Shape
<1>5. abandoned[s - 1] = "no" /\ posted[s - 1] = "no" /\ holds[s - 1] = "yes"
  <2>1. holds[s - 1] \in {"no", "yes"}
    BY <1>1, <1>2 DEF Types, Flag
  <2> QED
    BY <1>1, <1>2, <1>4, <2>1, NotGivenUp DEF Below
<1>6. now \in [Segments -> Places]
  BY <1>1 DEF Types, Places
<1>7. PICK l \in {"queued", "given"} : SentTo(s - 1, now, l)
  BY <1>1, <1>2, <1>5, <1>6, Posting DEF end_segment
<1>8. /\ linked' = [linked EXCEPT ![s] = "no"]
      /\ UNCHANGED <<root, ex_of, work, depth, holds, frame, tr, crash>>
  BY DEF end_segment, ex_vars
<1>9. Types'
  <2>1. /\ st' \in [Segments -> Places] /\ linked' \in [Segments -> Flag]
        /\ posted' \in [Segments -> Flag] /\ abandoned' \in [Segments -> Flag]
    BY <1>1, <1>7, <1>8 DEF SentTo, Types, Flag
  <2> QED
    BY <1>1, <1>8, <2>1 DEF Types
<1>10. \A t \in Segments : t \notin {s - 1, s} => Same(t) /\ abandoned'[t] = abandoned[t]
  BY <1>1, <1>7, <1>8 DEF Types, SentTo, Same
<1>11. /\ st'[s] = "done" /\ linked'[s] = "no" /\ posted'[s] = "no" /\ abandoned'[s] = "no"
  BY <1>1, <1>2, <1>3, <1>7, <1>8, SMTT(30) DEF Types, SentTo
<1>12. /\ st'[s - 1] = l /\ linked'[s - 1] = linked[s - 1]
       /\ posted'[s - 1] = "yes" <=> l = "given"
       /\ abandoned'[s - 1] = "yes" <=> l = "given"
  BY <1>1, <1>2, <1>7, <1>8, SMTT(30) DEF Types, SentTo
<1>13. Local(s)'
  BY <1>1, <1>3, <1>8, <1>11 DEF Local, Idle
<1>14. s < N => Empty(s + 1)'
  <2>1. s < N => Empty(s + 1) /\ Same(s + 1)
    BY <1>2, <1>3, <1>10
  <2> QED
    BY <2>1 DEF Empty, Same
<1>15. Below(s)'
  BY <1>3, <1>8, <1>11, <1>14 DEF Below
<1>16. s < N => Local(s + 1)' /\ Below(s + 1)'
  BY <1>1, <1>2, <1>10, Unmoved
<1>17. Local(s - 1)' /\ ~Idle(s - 1)'
  BY <1>4, <1>8, <1>12 DEF Local, Idle
<1>18. Below(s - 1)'
  BY <1>2, <1>5, <1>8, <1>11, <1>12 DEF Below, Idle
<1>19. Shape' /\ Deep'
  BY <1>1, <1>10, <1>13, <1>14, <1>15, <1>16, <1>17, <1>18, Reshape
<1>20. GivenUp'
  <2>1. \A t \in Segments : t \notin {s - 1, s} =>
           /\ st'[t] = "given" => abandoned'[t] = "yes"
           /\ abandoned[t] = "yes" => abandoned'[t] = "yes"
           /\ abandoned'[t] = "yes" => \/ st'[t] = "given"
                                       \/ /\ st'[t] = "none" /\ abandoned[t] = "yes"
                                          /\ st[t] = "none"
    BY <1>1, <1>10 DEF GivenUp, Same
  <2> QED
    BY <1>1, <1>3, <1>5, <1>11, <1>12, <2>1, GivenKept
<1>21. Counted'
  BY <1>1, <1>8, SameDebts
<1>22. frame[1] = "none" => abandoned'[1] = abandoned[1]
  <2>1. s - 1 = 1 => frame[1] = "live"
    BY <1>4 DEF Local, Idle
  <2> QED
    BY <1>2, <1>10, <2>1
<1> QED
  BY <1>1, <1>8, <1>9, <1>19, <1>20, <1>21, <1>22 DEF Kept, CInv

-----------------------------------------------------------------------------
(* Destruction.                                                            *)

\* Below a segment that does not wait, nothing is at work.
LEMMA OverBelow ==
    ASSUME Types, Shape, NEW s \in Segments, st[s] # "lent", s < N
    PROVE  /\ s + 1 \in Segments /\ s + 1 > 1 /\ s + 1 # s /\ s + 1 # 1
           /\ Idle(s + 1) /\ Local(s + 1) /\ holds[s + 1] = "no" /\ linked[s + 1] = "no"
           /\ posted[s + 1] = "no"
           /\ tr[s + 1] = "set" <=> frame[s + 1] = "live"
           /\ abandoned[s + 1] = "yes" /\ GivenUp => st[s + 1] = "none"
<1>1. /\ s + 1 \in Segments /\ s + 1 > 1 /\ s + 1 # s /\ s + 1 # 1
  BY Neighbours, SMTT(30)
<1>2. /\ holds[s] \in {"no", "yes"} /\ linked[s + 1] \in {"no", "yes"}
      /\ posted[s + 1] \in {"no", "yes"} /\ Below(s) /\ Local(s + 1)
  BY <1>1 DEF Types, Flag, Shape
<1>3. Idle(s + 1)
  BY <1>2 DEF Below, Empty, Idle
<1> QED
  BY <1>1, <1>2, <1>3 DEF Local, Idle, GivenUp

\* What destroy() leaves of a segment, and nothing below.
Gone(s, d, dead) ==
    /\ crash' = crash
    /\ depth' \in [Segments -> Nat] /\ holds' \in [Segments -> Flag]
    /\ frame' \in [Segments -> {"none", "live"}] /\ tr' \in [Segments -> {"null", "set"}]
    /\ depth'[s] = d /\ holds'[s] = "no"
    /\ tr'[s] = (IF dead = {} THEN tr[s] ELSE "null")
    /\ frame'[s] = (IF dead = {} THEN frame[s] ELSE "none")
    /\ s < N => Empty(s + 1)'
    /\ \A t \in Segments : t \notin {s, s + 1} =>
           /\ depth'[t] = depth[t] /\ holds'[t] = holds[t]
           /\ tr'[t] = tr[t] /\ frame'[t] = frame[t]

\* destroy() ends nothing that is at work, and leaves nothing below.
LEMMA Destroyed ==
    ASSUME Types, Shape, NEW s \in Segments, ~Idle(s), st[s] # "lent",
           NEW d \in Nat, NEW dead \in {{}, {s}}, destroy(s, d, dead),
           d > 0 \/ depth[s] = 1 \/ abandoned[s] = "yes",
           s < N => /\ st'[s + 1] = "none" /\ linked'[s + 1] = linked[s + 1]
                    /\ posted'[s + 1] = posted[s + 1]
    PROVE  Gone(s, d, dead)
<1>1. s < N => /\ s + 1 \in Segments /\ s + 1 # s
               /\ holds[s + 1] = "no" /\ linked[s + 1] = "no" /\ posted[s + 1] = "no"
               /\ tr[s + 1] = "set" <=> frame[s + 1] = "live"
  BY OverBelow
<1>2. s # s + 1 /\ s \in Nat /\ (s + 1 \in Segments => s < N)
  BY Neighbours, SMTT(30)
<1>3. ~awaitable_terminates(s)
  BY <1>1 DEF awaitable_terminates
<1>4. ~task_terminates(s, d)
  BY SMTT(30) DEF task_terminates, Types
<1>5. crash' = crash
  BY <1>3, <1>4 DEF destroy
<1>6. depth' \in [Segments -> Nat] /\ holds' \in [Segments -> Flag]
  BY DEF destroy, Types, Flag
<1>7. frame' \in [Segments -> {"none", "live"}] /\ tr' \in [Segments -> {"null", "set"}]
  BY DEF destroy, Types
<1>8. /\ depth'[s] = d /\ holds'[s] = "no"
      /\ tr'[s] = (IF dead = {} THEN tr[s] ELSE "null")
      /\ frame'[s] = (IF dead = {} THEN frame[s] ELSE "none")
  BY <1>2 DEF destroy, Types
<1>9. \A t \in Segments : t \notin {s, s + 1} =>
          /\ depth'[t] = depth[t] /\ holds'[t] = holds[t]
          /\ tr'[t] = tr[t] /\ frame'[t] = frame[t]
  BY <1>2 DEF destroy, Types
<1>10. ASSUME s < N PROVE Empty(s + 1)'
  <2>1. /\ depth'[s + 1] = 0 /\ holds'[s + 1] = holds[s + 1] /\ tr'[s + 1] = "null"
        /\ frame'[s + 1] = IF tr[s + 1] = "set" THEN "none" ELSE frame[s + 1]
        /\ frame[s + 1] \in {"none", "live"}
    BY <1>1, <1>2, <1>10 DEF destroy, Types
  <2> QED
    BY <1>1, <1>10, <2>1 DEF Empty
<1> QED
  BY <1>5, <1>6, <1>7, <1>8, <1>9, <1>10 DEF Gone

\* resume() of a coroutine that comes back from run().
LEMMA Returning ==
    ASSUME CInv, NEW s \in Segments, resume(s), holds[s] = "yes"
    PROVE  Kept
<1>1. /\ Types /\ Shape /\ Deep /\ GivenUp /\ Counted /\ crash \in {"no", "refused"}
      /\ st[s] = "queued" /\ ~Idle(s) /\ st[s] # "lent" /\ Local(s) /\ Below(s)
  BY DEF CInv, Idle, Shape, resume
<1>2. /\ s < N /\ st[s + 1] = "done" /\ depth[s] > 0 /\ depth[s] \in Nat /\ frame[s] = "live"
  BY <1>1 DEF Below, Local, Types
<1>3. /\ s + 1 \in Segments /\ s + 1 # s /\ s + 1 # 1 /\ 1 \in Segments
      /\ s + 1 < N => s + 2 \in Segments /\ s + 2 \notin {s, s + 1}
      /\ s > 1 => /\ s - 1 \in Segments /\ s - 1 < s /\ (s - 1) + 1 = s /\ s - 1 < N
                  /\ s - 1 \notin {s, s + 1}
  BY <1>2, Neighbours, SMTT(30)
<1>4. /\ destroy(s, depth[s], {}) /\ st' = Now(s, "running")
      /\ UNCHANGED <<root, ex_of, linked, posted, abandoned>>
  BY DEF resume
<1>5. /\ st' \in [Segments -> Places] /\ st'[s] = "running" /\ st'[s + 1] = "none"
      /\ \A t \in Segments : t \notin {s, s + 1} => st'[t] = st[t]
  BY <1>1, <1>3, <1>4 DEF Now, Types, Places
<1>6. /\ crash' = crash
      /\ depth' \in [Segments -> Nat] /\ holds' \in [Segments -> Flag]
      /\ frame' \in [Segments -> {"none", "live"}] /\ tr' \in [Segments -> {"null", "set"}]
      /\ depth'[s] = depth[s] /\ holds'[s] = "no" /\ tr'[s] = tr[s] /\ frame'[s] = frame[s]
      /\ Empty(s + 1)'
      /\ \A t \in Segments : t \notin {s, s + 1} =>
             /\ depth'[t] = depth[t] /\ holds'[t] = holds[t]
             /\ tr'[t] = tr[t] /\ frame'[t] = frame[t]
  <2>1. Gone(s, depth[s], {})
    BY <1>1, <1>2, <1>4, <1>5, Destroyed
  <2> QED
    BY <1>2, <2>1 DEF Gone
<1>7. Counted' /\ work' \in [Executors -> Int]
  BY <1>1, <1>2, <1>4, DestroyCounts
<1>8. Types'
  BY <1>1, <1>4, <1>5, <1>6, <1>7 DEF Types
<1>9. \A t \in Segments : t \notin {s, s + 1} => Same(t)
  BY <1>4, <1>5, <1>6 DEF Same
<1>10. Local(s)'
  BY <1>1, <1>4, <1>5, <1>6 DEF Local, Idle
<1>11. Below(s)'
  BY <1>5, <1>6 DEF Below
<1>12. Local(s + 1)' /\ Below(s + 1)'
  BY <1>1, <1>2, <1>3, <1>6, <1>9, Emptied
<1>13. s > 1 => /\ Local(s - 1)' /\ Below(s - 1)'
                /\ st'[s - 1] = "lent" /\ ~Idle(s - 1)'
  <2> SUFFICES ASSUME s > 1
               PROVE  Local(s - 1)' /\ Below(s - 1)' /\ st'[s - 1] = "lent" /\ ~Idle(s - 1)'
    OBVIOUS
  <2>1. st[s - 1] = "lent" /\ Same(s - 1) /\ Local(s - 1)' /\ Below(s - 1)
    BY <1>1, <1>3, <1>9, AllLent, Unmoved DEF Shape
  <2> QED
    BY <1>3, <1>5, <2>1 DEF Below, Idle, Same
<1>14. Shape' /\ Deep'
  BY <1>1, <1>9, <1>10, <1>11, <1>12, <1>13, Reshape
<1>15. GivenUp'
  <2>1. abandoned[s] = "no" /\ abandoned[s + 1] = "no"
    BY <1>1, <1>2, <1>3, NotGivenUp
  <2>2. \A t \in Segments : t \notin {s, s + 1} =>
           /\ st'[t] = "given" => abandoned'[t] = "yes"
           /\ abandoned[t] = "yes" => abandoned'[t] = "yes"
           /\ abandoned'[t] = "yes" => \/ st'[t] = "given"
                                       \/ /\ st'[t] = "none" /\ abandoned[t] = "yes"
                                          /\ st[t] = "none"
    BY <1>1, <1>4, <1>5 DEF GivenUp
  <2> QED
    BY <1>1, <1>4, <1>5, <2>1, <2>2, GivenKept
<1>16. frame'[1] = frame[1]
  BY <1>3, <1>6
<1> QED
  BY <1>1, <1>4, <1>6, <1>7, <1>8, <1>14, <1>15, <1>16 DEF Kept, CInv

\* resume_boundary() and destroy_boundary(): a segment is unwound, and its parent given up.
LEMMA Unwinding ==
    ASSUME CInv, NEW s \in Segments, resume_boundary(s) \/ destroy_boundary(s)
    PROVE  Kept
<1>1. /\ Types /\ Shape /\ Deep /\ GivenUp /\ Counted /\ crash \in {"no", "refused"}
      /\ s > 1 /\ posted[s] = "yes" /\ Local(s) /\ Below(s)
      /\ UNCHANGED <<root, ex_of>>
  BY DEF CInv, Shape, resume_boundary, destroy_boundary
<1>2. PICK dead \in {{}, {s}} : unwind(s, dead)
  BY DEF resume_boundary, destroy_boundary
<1>3. /\ st[s] = "given" /\ ~Idle(s) /\ st[s] # "lent" /\ abandoned[s] = "yes"
      /\ depth[s] > 0 /\ frame[s] = "live"
  BY <1>1 DEF Local, Idle, GivenUp
<1>4. /\ s - 1 \in Segments /\ s - 1 # s /\ s - 1 < s /\ (s - 1) + 1 = s /\ s - 1 < N /\ s # 1
      /\ s + 1 # s - 1 /\ s + 1 # s /\ s + 1 # 1 /\ 1 \in Segments
      /\ s < N => s + 1 \in Segments
      /\ s + 1 < N => s + 2 \in Segments /\ s + 2 \notin {s - 1, s, s + 1}
      /\ 0 \in Nat
  BY <1>1, Neighbours, SMTT(30)
<1>5. st[s - 1] = "lent" /\ Local(s - 1) /\ Below(s - 1)
  BY <1>1, <1>3, <1>4, AllLent DEF Shape
<1>6. abandoned[s - 1] = "no" /\ posted[s - 1] = "no" /\ holds[s - 1] = "yes"
  <2>1. holds[s - 1] \in {"no", "yes"}
    BY <1>1, <1>4 DEF Types, Flag
  <2> QED
    BY <1>1, <1>4, <1>5, <2>1, NotGivenUp DEF Below
<1>7. /\ destroy(s, 0, dead) /\ linked' = [linked EXCEPT ![s] = "no"]
      /\ st' = [Now(s, "none") EXCEPT ![s - 1] = "given"]
      /\ abandoned' = [abandoned EXCEPT ![s - 1] = "yes"]
      /\ posted' = [[posted EXCEPT ![s] = "no"] EXCEPT ![s - 1] = "yes"]
  BY <1>2, <1>6 DEF unwind, abandon
<1>8. /\ linked' \in [Segments -> Flag] /\ abandoned' \in [Segments -> Flag]
      /\ posted' \in [Segments -> Flag]
  BY <1>1, <1>7 DEF Types, Flag
<1>9. /\ st' \in [Segments -> Places] /\ st'[s] = "none" /\ st'[s - 1] = "given"
      /\ s < N => st'[s + 1] = "none"
      /\ \A t \in Segments : t \notin {s - 1, s, s + 1} => st'[t] = st[t]
  BY <1>1, <1>4, <1>7 DEF Now, Types, Places
<1>10. /\ linked'[s] = "no" /\ posted'[s] = "no" /\ posted'[s - 1] = "yes"
       /\ abandoned'[s - 1] = "yes"
       /\ \A t \in Segments \ {s} : linked'[t] = linked[t]
       /\ \A t \in Segments \ {s - 1} : abandoned'[t] = abandoned[t]
       /\ \A t \in Segments : t \notin {s - 1, s} => posted'[t] = posted[t]
  BY <1>1, <1>4, <1>7 DEF Types
<1>11. /\ crash' = crash
       /\ depth' \in [Segments -> Nat] /\ holds' \in [Segments -> Flag]
       /\ frame' \in [Segments -> {"none", "live"}] /\ tr' \in [Segments -> {"null", "set"}]
       /\ depth'[s] = 0 /\ holds'[s] = "no"
       /\ tr'[s] = (IF dead = {} THEN tr[s] ELSE "null")
       /\ frame'[s] = (IF dead = {} THEN frame[s] ELSE "none")
       /\ s < N => Empty(s + 1)'
       /\ \A t \in Segments : t \notin {s, s + 1} =>
              /\ depth'[t] = depth[t] /\ holds'[t] = holds[t]
              /\ tr'[t] = tr[t] /\ frame'[t] = frame[t]
  <2>1. s < N => /\ st'[s + 1] = "none" /\ linked'[s + 1] = linked[s + 1]
                 /\ posted'[s + 1] = posted[s + 1]
    BY <1>4, <1>9, <1>10
  <2>2. Gone(s, 0, dead)
    BY <1>1, <1>3, <1>4, <1>7, <2>1, Destroyed
  <2> QED
    BY <2>2 DEF Gone
<1>12. Counted' /\ work' \in [Executors -> Int]
  BY <1>1, <1>3, <1>7, DestroyCounts
<1>13. Types'
  BY <1>1, <1>8, <1>9, <1>11, <1>12 DEF Types
<1>14. \A t \in Segments : t \notin {s - 1, s, s + 1} => Same(t)
  BY <1>9, <1>10, <1>11 DEF Same
<1>15. Local(s)'
  BY <1>1, <1>9, <1>10, <1>11 DEF Local, Idle
<1>16. Below(s)'
  BY <1>9, <1>11 DEF Below
<1>17. s < N => Local(s + 1)' /\ Below(s + 1)'
  BY <1>1, <1>3, <1>4, <1>11, <1>14, Emptied
<1>18. /\ depth'[s - 1] = depth[s - 1] /\ holds'[s - 1] = "yes" /\ tr'[s - 1] = tr[s - 1]
       /\ frame'[s - 1] = frame[s - 1] /\ linked'[s - 1] = linked[s - 1]
  BY <1>4, <1>6, <1>10, <1>11
<1>19. Local(s - 1)' /\ ~Idle(s - 1)'
  BY <1>5, <1>9, <1>10, <1>18 DEF Local, Idle
<1>20. Below(s - 1)'
  BY <1>4, <1>9, <1>18 DEF Below, Idle
<1>21. Shape' /\ Deep'
  BY <1>1, <1>3, <1>11, <1>14, <1>15, <1>16, <1>17, <1>19, <1>20, Reshape
<1>22. GivenUp'
  <2>1. \A t \in Segments : t \notin {s - 1, s, s + 1} =>
           /\ st'[t] = "given" => abandoned'[t] = "yes"
           /\ abandoned[t] = "yes" => abandoned'[t] = "yes"
           /\ abandoned'[t] = "yes" => \/ st'[t] = "given"
                                       \/ /\ st'[t] = "none" /\ abandoned[t] = "yes"
                                          /\ st[t] = "none"
    BY <1>1, <1>9, <1>10, SMTT(30) DEF GivenUp
  <2>2. s < N => /\ st'[s + 1] = "none" /\ abandoned'[s + 1] = abandoned[s + 1]
                 /\ abandoned[s + 1] = "yes" => st[s + 1] = "none"
    <3>1. s < N => st'[s + 1] = "none" /\ abandoned'[s + 1] = abandoned[s + 1]
      BY <1>4, <1>9, <1>10
    <3>2. s < N => (abandoned[s + 1] = "yes" => st[s + 1] = "none")
      BY <1>1, <1>3, OverBelow
    <3> QED
      BY <3>1, <3>2
  <2>3. s + 1 \in Segments => s < N
    BY Neighbours, SMTT(30)
  <2>4. \A t \in Segments : t \in {s - 1, s, s + 1} =>
           /\ st'[t] = "given" => abandoned'[t] = "yes"
           /\ abandoned[t] = "yes" => abandoned'[t] = "yes"
           /\ abandoned'[t] = "yes" =>
                  \/ st'[t] = "given"
                  \/ st'[t] = "none" /\ abandoned[t] = "yes" /\ st[t] = "none"
                  \/ st'[t] = "none" /\ (t > 1 => abandoned'[t - 1] = "yes")
    <3>1. abandoned'[s] = abandoned[s]
      BY <1>4, <1>10
    <3> QED
      BY <1>3, <1>6, <1>9, <1>10, <2>2, <2>3, <3>1
  <2> QED
    BY <1>1, <2>1, <2>4, GivenKept
<1>23. frame'[1] = frame[1] /\ (frame[1] = "none" => abandoned'[1] = abandoned[1])
  <2>1. s - 1 = 1 => frame[1] = "live"
    BY <1>5 DEF Local, Idle
  <2> QED
    BY <1>4, <1>10, <1>11, <2>1
<1> QED
  BY <1>1, <1>11, <1>12, <1>13, <1>21, <1>22, <1>23 DEF Kept, CInv

-----------------------------------------------------------------------------
(* The end and the beginning of the first segment.                         *)

\* Without the first owner there is nothing.
LEMMA AllEmpty ==
    ASSUME CInv, frame[1] = "none"
    PROVE  \A t \in Segments : Empty(t)
<1>1. Types /\ Shape /\ Deep /\ 1 \in Segments /\ Local(1) /\ Below(1)
  BY Neighbours DEF CInv, Shape
<1>2. st[1] = "none" /\ holds[1] = "no"
  BY <1>1 DEF Local, Idle
<1>3. posted[1] \in {"no", "yes"}
  BY <1>1 DEF Types, Flag
<1>4. Empty(1)
  BY <1>1, <1>2, <1>3 DEF Local, Empty
<1>5. \A t \in Segments : t = 1 \/ (t = 1 + 1 /\ 1 < N) \/ 1 + 1 < t
  BY Neighbours, SMTT(30)
<1> QED
  BY <1>1, <1>2, <1>4, <1>5 DEF Below, Deep

\* end_trampoline(), of a chain that is done or was abandoned.
LEMMA OwnerEnds ==
    ASSUME CInv, end_trampoline, UNCHANGED <<root, ex_of>>,
           \/ st[1] = "running" /\ depth[1] = 1 /\ posted' = posted
           \/ posted[1] = "yes" /\ posted' = [posted EXCEPT ![1] = "no"]
    PROVE  /\ CInv' /\ frame[1] = "live" /\ frame'[1] = "none" /\ abandoned' = abandoned
           /\ abandoned[1] = (IF st[1] = "running" THEN "no" ELSE "yes")
<1>1. /\ Types /\ Shape /\ Deep /\ GivenUp /\ Counted /\ crash \in {"no", "refused"}
      /\ 1 \in Segments /\ Local(1) /\ Below(1)
  BY Neighbours DEF CInv, Shape
<1>2. /\ \/ st[1] = "running" /\ depth[1] = 1
         \/ st[1] = "given" /\ abandoned[1] = "yes"
      /\ st[1] = "running" => abandoned[1] = "no" /\ posted[1] = "no"
      /\ ~Idle(1) /\ st[1] # "lent" /\ frame[1] = "live"
  <2>1. posted[1] = "yes" => st[1] = "given" /\ abandoned[1] = "yes"
    BY <1>1 DEF Local, GivenUp
  <2>2. st[1] = "running" => abandoned[1] = "no" /\ posted[1] = "no"
    BY <1>1, NotGivenUp
  <2>3. \/ st[1] = "running" /\ depth[1] = 1
        \/ st[1] = "given" /\ abandoned[1] = "yes"
    BY <2>1
  <2>4. ~Idle(1) /\ st[1] # "lent"
    BY <2>3 DEF Idle
  <2> QED
    BY <1>1, <2>2, <2>3, <2>4 DEF Local
<1>3. /\ 1 # 1 + 1 /\ ~(1 > 1) /\ 0 \in Nat /\ (1 < N => 1 + 1 \in Segments)
      /\ 1 + 1 < N => 1 + 2 \in Segments /\ 1 + 2 \notin {1, 1 + 1}
      /\ 1 + 1 \in Segments => 1 < N
  BY Neighbours, SMTT(30)
<1>4. /\ destroy(1, 0, {1}) /\ st' = Now(1, "none") /\ linked' = linked /\ abandoned' = abandoned
  BY DEF end_trampoline
<1>5. /\ st' \in [Segments -> Places] /\ st'[1] = "none" /\ (1 < N => st'[1 + 1] = "none")
      /\ \A t \in Segments : t \notin {1, 1 + 1} => st'[t] = st[t]
  BY <1>1, <1>3, <1>4 DEF Now, Types, Places
<1>6. /\ posted' \in [Segments -> Flag] /\ posted'[1] = "no"
      /\ \A t \in Segments \ {1} : posted'[t] = posted[t]
  <2>1. CASE posted' = posted /\ posted[1] = "no"
    BY <1>1, <2>1 DEF Types
  <2>2. CASE posted' = [posted EXCEPT ![1] = "no"]
    BY <1>1, <2>2 DEF Types, Flag
  <2> QED
    BY <1>2, <2>1, <2>2
<1>7. Gone(1, 0, {1})
  <2>1. 1 < N => /\ st'[1 + 1] = "none" /\ linked'[1 + 1] = linked[1 + 1]
                 /\ posted'[1 + 1] = posted[1 + 1]
    BY <1>3, <1>4, <1>5, <1>6
  <2> QED
    BY <1>1, <1>2, <1>3, <1>4, <2>1, Destroyed
<1>8. Counted' /\ work' \in [Executors -> Int]
  BY <1>1, <1>2, <1>4, DestroyCounts
<1>9. Types'
  BY <1>1, <1>4, <1>5, <1>6, <1>7, <1>8 DEF Types, Gone
<1>10. \A t \in Segments : t \notin {1, 1 + 1} => Same(t)
  BY <1>4, <1>5, <1>6, <1>7 DEF Same, Gone
<1>11. /\ depth'[1] = 0 /\ holds'[1] = "no" /\ tr'[1] = "null" /\ frame'[1] = "none"
       /\ 1 < N => Empty(1 + 1)'
  BY <1>7 DEF Gone
<1>12. Local(1)'
  BY <1>1, <1>4, <1>5, <1>6, <1>11 DEF Local, Idle
<1>13. Below(1)'
  BY <1>5, <1>11 DEF Below
<1>14. 1 < N => Local(1 + 1)' /\ Below(1 + 1)'
  BY <1>1, <1>2, <1>3, <1>10, <1>11, Emptied
<1>15. Shape' /\ Deep'
  BY <1>1, <1>2, <1>3, <1>10, <1>12, <1>13, <1>14, Reshape
<1>16. GivenUp'
  <2>1. 1 < N => (abandoned[1 + 1] = "yes" => st[1 + 1] = "none")
    BY <1>1, <1>2, OverBelow
  <2>2. \A t \in Segments : t \notin {1, 1 + 1} =>
           /\ st'[t] = "given" => abandoned'[t] = "yes"
           /\ abandoned'[t] = "yes" => \/ st'[t] = "given"
                                       \/ st'[t] = "none" /\ st[t] = "none"
    BY <1>1, <1>4, <1>5 DEF GivenUp
  <2> QED
    BY <1>1, <1>3, <1>4, <1>5, <2>1, <2>2, GivenKept
<1>17. crash' = crash
  BY <1>7 DEF Gone
<1> QED
  BY <1>1, <1>2, <1>4, <1>8, <1>9, <1>11, <1>15, <1>16, <1>17 DEF CInv

\* run_async() and start() make the first segment.
LEMMA Begins ==
    ASSUME CInv, frame[1] = "none", abandoned[1] = "no",
           frame' = [frame EXCEPT ![1] = "live"], depth' = [depth EXCEPT ![1] = 1],
           UNCHANGED <<root, ex_of, holds, tr, linked, crash>>,
           Counted', work' \in [Executors -> Int],
           \/ st' = [st EXCEPT ![1] = "running"] /\ UNCHANGED <<abandoned, posted>>
           \/ post(1, st)
    PROVE  CInv'
<1>1. /\ Types /\ Shape /\ Deep /\ GivenUp /\ crash \in {"no", "refused"} /\ 1 \in Segments
      /\ \A t \in Segments : Empty(t)
  BY AllEmpty, Neighbours DEF CInv
<1>2. /\ st' \in [Segments -> Places] /\ posted' \in [Segments -> Flag]
      /\ abandoned' \in [Segments -> Flag] /\ st'[1] \in {"running", "queued", "given"}
      /\ posted'[1] = "yes" <=> st'[1] = "given"
      /\ abandoned'[1] = "yes" <=> st'[1] = "given"
      /\ \A t \in Segments \ {1} : /\ st'[t] = st[t] /\ posted'[t] = posted[t]
                                    /\ abandoned'[t] = abandoned[t]
  <2>1. posted[1] = "no" /\ st \in [Segments -> Places]
    BY <1>1 DEF Empty, Types
  <2>2. CASE st' = [st EXCEPT ![1] = "running"] /\ UNCHANGED <<abandoned, posted>>
    BY <1>1, <2>1, <2>2 DEF Types, Places
  <2>3. CASE post(1, st)
    <3>1. PICK l \in {"queued", "given"} : SentTo(1, st, l)
      BY <1>1, <2>1, <2>3, Posting
    <3> QED
      BY <3>1 DEF SentTo
  <2> QED
    BY <2>2, <2>3
<1>3. /\ frame' \in [Segments -> {"none", "live"}] /\ depth' \in [Segments -> Nat]
      /\ frame'[1] = "live" /\ depth'[1] = 1
      /\ \A t \in Segments \ {1} : frame'[t] = frame[t] /\ depth'[t] = depth[t]
  BY <1>1 DEF Types
<1>4. Types'
  BY <1>1, <1>2, <1>3 DEF Types
<1>5. \A t \in Segments \ {1} : Same(t)
  BY <1>2, <1>3 DEF Same
<1>6. \A t \in Segments \ {1} : Empty(t)'
  BY <1>1, <1>5, SMTT(30) DEF Same, Empty
<1>7. \A t \in Segments : t < N => t + 1 \in Segments \ {1}
  BY Neighbours, SMTT(30)
<1>8. Local(1)' /\ Below(1)'
  <2>1. 1 < N => Empty(1 + 1)'
    BY <1>1, <1>6, <1>7
  <2>2. Empty(1)
    BY <1>1
  <2> QED
    BY <1>2, <1>3, <2>1, <2>2, SMTT(30) DEF Local, Below, Idle, Empty
<1>9. \A t \in Segments \ {1} : Local(t)' /\ Below(t)'
  BY <1>1, <1>5, <1>7, Unmoved
<1>10. Deep'
  <2>1. \A a, t \in Segments : a + 1 < t => t # 1
    BY Neighbours, SMTT(30)
  <2> QED
    BY <1>6, <2>1 DEF Deep
<1>11. GivenUp'
  <2>1. \A t \in Segments \ {1} :
           /\ st'[t] = "given" => abandoned'[t] = "yes"
           /\ abandoned[t] = "yes" => abandoned'[t] = "yes"
           /\ abandoned'[t] = "yes" => \/ st'[t] = "given"
                                       \/ /\ st'[t] = "none" /\ abandoned[t] = "yes"
                                          /\ st[t] = "none"
    BY <1>1, <1>2 DEF GivenUp
  <2> QED
    BY <1>1, <1>2, <2>1, GivenKept
<1>12. Shape'
  BY <1>8, <1>9 DEF Shape
<1> QED
  BY <1>1, <1>4, <1>10, <1>11, <1>12 DEF CInv

-----------------------------------------------------------------------------
(* The report.                                                             *)

\* What a step does for whoever waits for the chain.
LEMMA EndsKept ==
    ASSUME CInv, Ends, frame'[1] = frame[1], frame[1] = "none" => abandoned'[1] = abandoned[1],
           UNCHANGED <<root, launch, handler, sender_vars>>,
           (signal /\ Launched) \/ UNCHANGED <<main, done>>
    PROVE  Ends'
<1>1. frame[1] \in {"none", "live"}
  BY Neighbours DEF CInv, Types
<1>2. UNCHANGED <<main, done>>
  BY <1>1 DEF Ends, signal, Launched
<1>3. frame[1] = "live" \/ abandoned'[1] = abandoned[1]
  BY <1>1
<1> QED
  BY <1>1, <1>2, <1>3, SMTT(30) DEF Ends, sender_vars

\* A step that leaves the segments as they are.
LEMMA Still ==
    ASSUME CInv, UNCHANGED <<root, ex_of, work, seg_vars, owner_vars>>,
           crash' \in {"no", "refused"}
    PROVE  Kept
<1>1. /\ Types' /\ Shape' /\ Deep' /\ GivenUp' /\ Counted'
  <2>1. /\ UNCHANGED <<root, ex_of, work, st, depth, holds, frame, tr, linked, posted>>
        /\ abandoned' = abandoned
    BY DEF seg_vars, owner_vars
  <2>2. Types' /\ GivenUp'
    BY <2>1 DEF CInv, Types, GivenUp
  <2>3. Shape' /\ Deep'
    BY <2>1, SMTT(30) DEF CInv, Shape, Deep, Local, Below, Idle, Empty
  <2>4. Counted'
    BY <2>1, SameDebts DEF CInv
  <2> QED
    BY <2>2, <2>3, <2>4
<1> QED
  BY <1>1 DEF Kept, CInv, owner_vars

-----------------------------------------------------------------------------
(* Every step.                                                             *)

LEMMA SegmentSteps ==
    ASSUME CInv, crash = "no", NEW s \in Segments,
           \/ wait(s) \/ complete(s) \/ give_up(s) \/ call(s) \/ return(s)
           \/ run(s) \/ run_throws(s) \/ run_terminates(s) \/ resume(s) \/ end_segment(s)
           \/ resume_boundary(s) \/ destroy_boundary(s) \/ drain(s)
    PROVE  Kept /\ UNCHANGED <<root, launch, handler>>
<1>1. CASE \/ wait(s) \/ complete(s) \/ give_up(s) \/ call(s) \/ return(s) \/ drain(s)
  <2>1. UNCHANGED <<root, launch, handler>>
    BY <1>1 DEF wait, complete, give_up, call, return, drain, ex_vars
  <2> QED
    BY <1>1, <2>1, OneMoves
<1>2. CASE run(s)
  BY <1>2, Running DEF run
<1>3. CASE resume(s)
  <2>1. holds[s] \in {"no", "yes"} /\ UNCHANGED <<root, launch, handler>>
    BY <1>3 DEF CInv, Types, Flag, resume
  <2> QED
    BY <1>3, <2>1, OneMoves, Returning
<1>4. CASE end_segment(s)
  BY <1>4, Ending DEF end_segment, ex_vars
<1>5. CASE resume_boundary(s) \/ destroy_boundary(s)
  BY <1>5, Unwinding DEF resume_boundary, destroy_boundary
<1>6. CASE run_throws(s)
  <2>1. work' = work
    BY <1>6, SMTT(30) DEF CInv, Types, Ex, run_throws
  <2>2. UNCHANGED <<root, ex_of, seg_vars, owner_vars, crash, launch, handler>>
    BY <1>6 DEF run_throws
  <2> QED
    BY <2>1, <2>2, Still
<1>7. CASE run_terminates(s)
  BY <1>7, Still DEF run_terminates, ex_vars
<1> QED
  BY <1>1, <1>2, <1>3, <1>4, <1>5, <1>6, <1>7

\* run_async() holds work for its trampoline.
LEMMA AsyncBegins ==
    ASSUME CInv, frame[1] = "none", abandoned[1] = "no", run_async
    PROVE  CInv' /\ frame'[1] = "live"
<1>1. Types /\ Counted /\ 1 \in Segments /\ root = "run_async"
  BY Neighbours DEF CInv, run_async
<1>2. /\ work' = [work EXCEPT ![Ex(1)] = @ + 1]
      /\ frame' = [frame EXCEPT ![1] = "live"] /\ depth' = [depth EXCEPT ![1] = 1]
      /\ \/ st' = [st EXCEPT ![1] = "running"] /\ UNCHANGED <<abandoned, posted>>
         \/ post(1, st)
      /\ UNCHANGED <<root, ex_of, holds, tr, linked, crash>>
  BY DEF run_async
<1>3. frame'[1] = "live"
  BY <1>1, <1>2 DEF Types
<1>4. Counted' /\ work' \in [Executors -> Int]
  <2>1. Ex(1) \in Executors
    BY <1>1 DEF Types, Ex
  <2> SUFFICES ASSUME NEW x \in Executors, x = ex_of[1]
               PROVE  Counted' /\ work' \in [Executors -> Int]
    BY <2>1 DEF Ex
  <2>2. 0 \notin Debts(x)
    <3>1. 0 \notin Segments
      BY FiniteDebts
    <3> QED
      BY <3>1 DEF Debts
  <2>3. Debts(x)' = Debts(x) \cup {0}
    BY <1>1, <1>2, <1>3 DEF Debts
  <2>4. \A e \in Executors \ {x} : Debts(e)' = Debts(e)
    BY <1>2 DEF Debts
  <2> QED
    BY <1>1, <1>2, <2>2, <2>3, <2>4, DebtGrows DEF Ex
<1> QED
  BY <1>2, <1>3, <1>4, Begins

LEMMA ChainSteps ==
    ASSUME IInv, crash = "no", ChainStep, signal, Launched, UNCHANGED sender_vars
    PROVE  IInv'
<1>1. CInv /\ Ends /\ crash \in {"no", "refused"} /\ 1 \in Segments /\ frame[1] \in {"none", "live"}
  BY Neighbours DEF IInv, CInv, Types
<1>2. ASSUME Kept, UNCHANGED <<root, launch, handler>> PROVE IInv'
  BY <1>1, <1>2, EndsKept DEF Kept, IInv
<1>3. CASE run_async
  <2>1. launch = "no" /\ launch' = "done" /\ UNCHANGED <<root, handler>> /\ root = "run_async"
    BY <1>3 DEF run_async
  <2>2. frame[1] = "none" /\ abandoned[1] = "no"
    BY <1>1, <2>1 DEF Ends
  <2>3. CInv' /\ frame'[1] = "live"
    BY <1>1, <1>3, <2>2, AsyncBegins
  <2>4. UNCHANGED <<main, done>>
    BY <2>1, <2>2 DEF signal, Launched
  <2>5. Ends'
    BY <1>1, <2>1, <2>2, <2>3, <2>4 DEF Ends, sender_vars
  <2> QED
    BY <2>3, <2>5 DEF IInv
<1>4. CASE run_async_throws
  <2>1. /\ launch = "no" /\ launch' = "threw" /\ UNCHANGED <<root, handler, crash>> /\ root = "run_async"
        /\ UNCHANGED <<ex_vars, seg_vars, owner_vars>>
    BY <1>4 DEF run_async_throws, ex_vars
  <2>2. CInv' /\ frame' = frame /\ abandoned' = abandoned
    BY <1>1, <2>1, Still DEF Kept, ex_vars, owner_vars
  <2>3. done' = done /\ main' = (IF main = "running" THEN "threw" ELSE main) /\ frame[1] = "none"
    BY <1>1, <2>1 DEF signal, Launched, Ends
  <2>4. Ends'
    BY <1>1, <2>1, <2>2, <2>3, SMTT(30) DEF Ends, sender_vars
  <2> QED
    BY <2>2, <2>4 DEF IInv
<1>5. CASE end_chain
  <2>1. /\ st[1] = "running" /\ depth[1] = 1 /\ end_trampoline /\ posted' = posted
        /\ handler' = IF abandoned[1] = "yes" THEN handler ELSE handler + 1
        /\ UNCHANGED <<root, ex_of, launch>> /\ root = "run_async"
    BY <1>5 DEF end_chain
  <2>2. /\ CInv' /\ frame[1] = "live" /\ frame'[1] = "none" /\ abandoned' = abandoned
        /\ abandoned[1] = "no"
    BY <1>1, <2>1, OwnerEnds
  <2>3. launch = "done" /\ handler = 0 /\ handler' = 1 /\ main \in {"none", "running"}
    BY <1>1, <2>1, <2>2, SMTT(30) DEF Ends
  <2>4. main' = main /\ (main = "running" => done' = "value")
    BY <2>1, <2>2, <2>3, SMTT(30) DEF signal, Launched
  <2>5. Ends'
    BY <1>1, <2>1, <2>2, <2>3, <2>4 DEF Ends, sender_vars
  <2> QED
    BY <2>2, <2>5 DEF IInv
<1>6. CASE resume_trampoline \/ destroy_trampoline
  <2>1. /\ posted[1] = "yes" /\ end_trampoline /\ posted' = [posted EXCEPT ![1] = "no"]
        /\ UNCHANGED <<root, ex_of, launch, handler>> /\ root = "run_async"
    BY <1>6 DEF resume_trampoline, destroy_trampoline
  <2>2. st[1] = "given"
    BY <1>1, <2>1 DEF CInv, Shape, Local
  <2>3. /\ CInv' /\ frame[1] = "live" /\ frame'[1] = "none" /\ abandoned' = abandoned
        /\ abandoned[1] = "yes"
    BY <1>1, <2>1, <2>2, OwnerEnds
  <2>4. launch = "done" /\ handler = 0 /\ main \in {"none", "running"}
    BY <1>1, <2>1, <2>3 DEF Ends
  <2>5. main' = main /\ (main = "running" => done' = "abandoned")
    BY <2>1, <2>3, <2>4 DEF signal, Launched
  <2>6. Ends'
    BY <1>1, <2>1, <2>3, <2>4, <2>5, SMTT(30) DEF Ends, sender_vars
  <2> QED
    BY <2>3, <2>6 DEF IInv
<1>7. ASSUME NEW e \in Executors, close(e) PROVE IInv'
  BY <1>1, <1>2, <1>7, Still DEF close
<1>8. ASSUME NEW s \in Segments,
             \/ wait(s) \/ complete(s) \/ give_up(s) \/ call(s) \/ return(s)
             \/ run(s) \/ run_throws(s) \/ run_terminates(s) \/ resume(s) \/ end_segment(s)
             \/ resume_boundary(s) \/ destroy_boundary(s) \/ drain(s)
      PROVE  IInv'
  BY <1>1, <1>2, <1>8, SegmentSteps
<1> QED
  BY <1>3, <1>4, <1>5, <1>6, <1>7, <1>8 DEF ChainStep

LEMMA SenderSteps ==
    ASSUME IInv, SenderStep, UNCHANGED <<main, done>>
    PROVE  IInv'
<1>1. CInv /\ Ends /\ crash \in {"no", "refused"} /\ 1 \in Segments
  BY Neighbours DEF IInv, CInv
<1>2. CASE start
  <2>1. /\ launch = "no" /\ launch' = "done" /\ root = "sender"
        /\ UNCHANGED <<ex_vars, holds, tr, linked, abandoned, posted, handler, crash>>
    BY <1>2 DEF start
  <2>2. /\ frame[1] = "none" /\ abandoned[1] = "no" /\ completions = 0 /\ main = "none" /\ handler = 0
    BY <1>1, <2>1 DEF Ends
  <2>3. CASE /\ \E c \in {"value", "error", "stopped"} : Completed(c)
             /\ UNCHANGED <<frame, depth, st>>
    <3>1. completions' = 1
      BY <2>2, <2>3, SMTT(30) DEF Completed
    <3>2. CInv'
      BY <1>1, <2>1, <2>3, Still DEF Kept, ex_vars, seg_vars, owner_vars
    <3>3. Ends'
      BY <1>1, <2>1, <2>2, <2>3, <3>1 DEF Ends, ex_vars
    <3> QED
      BY <3>2, <3>3 DEF IInv
  <2>4. CASE /\ frame' = [frame EXCEPT ![1] = "live"] /\ depth' = [depth EXCEPT ![1] = 1]
             /\ st' = [st EXCEPT ![1] = "running"]
             /\ UNCHANGED sender_vars
    <3>1. frame'[1] = "live" /\ work' \in [Executors -> Int]
      BY <1>1, <2>1, <2>4 DEF CInv, Types, ex_vars
    <3>2. Counted'
      <4>1. \A e : Debts(e)' = Debts(e)
        BY <2>1 DEF Debts, ex_vars
      <4> QED
        BY <1>1, <2>1, <4>1 DEF CInv, Counted, ex_vars
    <3>3. CInv'
      BY <1>1, <2>1, <2>2, <2>4, <3>1, <3>2, Begins DEF ex_vars
    <3>4. Ends'
      BY <1>1, <2>1, <2>2, <2>4, <3>1 DEF Ends, ex_vars, sender_vars
    <3> QED
      BY <3>3, <3>4 DEF IInv
  <2> QED
    BY <1>2, <2>3, <2>4 DEF start
<1>3. CASE complete_receiver
  <2>1. /\ st[1] = "running" /\ depth[1] = 1 /\ end_trampoline /\ posted' = posted
        /\ UNCHANGED <<root, ex_of, launch, handler>> /\ root = "sender"
        /\ \E c \in {"value", "error", "stopped"} : Completed(c)
    BY <1>3 DEF complete_receiver
  <2>2. /\ CInv' /\ frame[1] = "live" /\ frame'[1] = "none" /\ abandoned' = abandoned
        /\ abandoned[1] = "no"
    BY <1>1, <2>1, OwnerEnds
  <2>3. launch = "done" /\ completions' = 1
    BY <1>1, <2>1, <2>2, SMTT(30) DEF Ends, Completed
  <2>4. Ends'
    BY <1>1, <2>1, <2>2, <2>3 DEF Ends
  <2> QED
    BY <2>2, <2>4 DEF IInv
<1>4. CASE unwind_receiver
  <2>1. /\ posted[1] = "yes" /\ end_trampoline /\ posted' = [posted EXCEPT ![1] = "no"]
        /\ UNCHANGED <<root, ex_of, launch, handler>> /\ root = "sender"
        /\ Completed("stopped")
    BY <1>4 DEF unwind_receiver
  <2>2. CInv' /\ frame[1] = "live" /\ frame'[1] = "none" /\ abandoned' = abandoned
    BY <1>1, <2>1, OwnerEnds
  <2>3. launch = "done" /\ completions' = 1 /\ receiver' = "stopped"
    BY <1>1, <2>1, <2>2, SMTT(30) DEF Ends, Completed
  <2>4. Ends'
    BY <1>1, <2>1, <2>2, <2>3 DEF Ends
  <2> QED
    BY <2>2, <2>4 DEF IInv
<1> QED
  BY <1>2, <1>3, <1>4 DEF SenderStep

LEMMA Returns ==
    ASSUME IInv, run_returns
    PROVE  IInv'
<1>1. CInv /\ Ends /\ crash \in {"no", "refused"}
  BY DEF IInv, CInv
<1>2. /\ UNCHANGED <<root, ex_of, work, seg_vars, owner_vars, launch, handler, crash,
                    sender_vars, done>>
      /\ main = "running" /\ done # "no" /\ main' = (IF done = "value" THEN "returned" ELSE "threw")
  BY DEF run_returns
<1>3. CInv' /\ frame' = frame /\ abandoned' = abandoned
  BY <1>1, <1>2, Still DEF Kept, owner_vars
<1>4. launch = "done" /\ frame[1] # "live" /\ root = "run_async"
  BY <1>1, <1>2 DEF Ends
<1>5. frame[1] = "none"
  BY <1>1, <1>4, Neighbours DEF CInv, Types
<1>6. Ends'
  BY <1>1, <1>2, <1>3, <1>4, <1>5 DEF Ends, sender_vars
<1> QED
  BY <1>3, <1>6 DEF IInv

\* The invariant is inductive, for any number of segments, any placement of them on
\* executors, and any bound on depth and on operations.
THEOREM Inductive == Spec => []IInv
<1>1. Init => IInv
  <2> SUFFICES ASSUME Init PROVE IInv
    OBVIOUS
  <2>1. /\ 1 \in Segments /\ ex_of \in [Segments -> Executors] /\ 0 \in Nat
        /\ \A s \in Segments : s < N => s + 1 \in Segments
    BY ChainAssumption, Neighbours DEF Init, ChainInit
  <2>2. Types
    BY <2>1, SMTT(30) DEF Types, Init, ChainInit, Places, Flag
  <2>3. \A t \in Segments : Empty(t)
    BY DEF Empty, Init, ChainInit
  <2>4. Shape
    BY <2>1, <2>3 DEF Shape, Local, Below, Idle, Empty
  <2>5. Deep /\ GivenUp
    BY <2>1, <2>3 DEF Deep, GivenUp, Init, ChainInit, Empty
  <2>6. Counted
    <3>1. \A e : Debts(e) = {}
      BY <2>1, <2>3 DEF Debts, Empty
    <3> QED
      BY <3>1, FS_EmptySet DEF Counted, Init, ChainInit
  <2>7. Ends
    BY <2>1 DEF Ends, Init, ChainInit, SenderInit
  <2> QED
    BY <2>2, <2>4, <2>5, <2>6, <2>7 DEF IInv, CInv, Init, ChainInit
<1>2. IInv /\ [Next]_vars => IInv'
  <2> SUFFICES ASSUME IInv, [Next]_vars PROVE IInv'
    OBVIOUS
  <2>1. CInv /\ Ends /\ crash \in {"no", "refused"}
    BY DEF IInv, CInv
  <2>2. CASE crash = "no" /\ ChainStep /\ signal /\ Launched /\ UNCHANGED sender_vars
    BY <2>2, ChainSteps
  <2>3. CASE SenderStep /\ UNCHANGED <<main, done>>
    BY <2>3, SenderSteps
  <2>4. CASE run_returns
    BY <2>4, Returns
  <2>5. CASE TearDown
    <3>1. PICK e \in Executors : tear_down(e) /\ UNCHANGED <<main, done, sender_vars>>
      BY <2>5 DEF TearDown
    <3>2. Kept /\ UNCHANGED <<root, launch, handler>>
      BY <2>1, <3>1, Still DEF tear_down
    <3> QED
      BY <2>1, <3>1, <3>2, EndsKept DEF Kept, IInv
  <2>6. CASE UNCHANGED vars
    <3>1. /\ UNCHANGED <<root, ex_of, work, seg_vars, owner_vars, launch, handler, crash>>
          /\ UNCHANGED <<main, done, sender_vars>>
      BY <2>6 DEF vars, cvars, ex_vars
    <3>2. Kept
      BY <2>1, <3>1, Still
    <3> QED
      BY <2>1, <3>1, <3>2, EndsKept DEF Kept, IInv
  <2> QED
    BY <2>2, <2>3, <2>4, <2>5, <2>6 DEF Next, Step
<1> QED
  BY <1>1, <1>2, PTL DEF Spec

-----------------------------------------------------------------------------
(* What is proved.                                                         *)

\* No teardown, refusal or unwinding makes ~task or ~run_awaitable_ex terminate, nor
\* destroys a trampoline twice.
THEOREM NoTermination == Spec => []NeverTerminates
<1>1. IInv => NeverTerminates
  BY DEF IInv, CInv, NeverTerminates
<1> QED
  BY <1>1, Inductive, PTL

\* Whatever is queued, held or waited for is alive, with the owner that would unwind
\* it, and an owner posted to unwind is not destroyed meanwhile.
THEOREM OwnersLive == Spec => []NothingDangles
<1>1. IInv => NothingDangles
  <2> SUFFICES ASSUME IInv, NEW s \in Segments
               PROVE  /\ st[s] \notin {"none", "done"} => depth[s] > 0 /\ frame[s] = "live"
                      /\ st[s] = "queued" /\ holds[s] = "yes" => frame[s + 1] = "live"
                      /\ posted[s] = "yes" => frame[s] = "live" /\ abandoned[s] = "yes"
                      /\ frame[s] = "live" /\ s > 1 => holds[s - 1] = "yes"
    BY DEF NothingDangles
  <2>1. Types /\ Shape /\ GivenUp /\ Local(s) /\ Below(s)
    BY DEF IInv, CInv, Shape
  <2>2. st[s] \notin {"none", "done"} => depth[s] > 0 /\ frame[s] = "live"
    BY <2>1 DEF Local, Idle
  <2>3. st[s] = "queued" /\ holds[s] = "yes" => frame[s + 1] = "live"
    <3>1. st[s] = "queued" /\ holds[s] = "yes" => st[s + 1] = "done" /\ s + 1 \in Segments
      BY <2>1, Neighbours DEF Below
    <3> QED
      BY <2>1, <3>1 DEF Shape, Local
  <2>4. posted[s] = "yes" => frame[s] = "live" /\ abandoned[s] = "yes"
    BY <2>1 DEF Local, Idle, GivenUp
  <2>5. frame[s] = "live" /\ s > 1 => holds[s - 1] = "yes"
    <3>1. s > 1 => s - 1 \in Segments /\ s - 1 < N /\ (s - 1) + 1 = s
      BY Neighbours, SMTT(30)
    <3>2. s > 1 => holds[s - 1] \in {"no", "yes"} /\ Below(s - 1)
      BY <2>1, <3>1 DEF Types, Flag, Shape
    <3> QED
      BY <3>1, <3>2 DEF Below, Empty
  <2> QED
    BY <2>2, <2>3, <2>4, <2>5
<1> QED
  BY <1>1, Inductive, PTL

\* Whoever started the chain learns how it ended, once: the handler of run_async() is
\* called unless the chain was abandoned, the receiver of a sender is completed in
\* either case when nothing is left running.
THEOREM OneReport == Spec => []ReportedOnce
<1>1. IInv => ReportedOnce
  <2> SUFFICES ASSUME IInv PROVE ReportedOnce
    OBVIOUS
  <2>1. CInv /\ Types /\ Shape /\ GivenUp /\ Ends
    BY DEF IInv, CInv
  <2>2. \A s \in Segments : st[s] = "running" => abandoned[s] = "no"
    BY <2>1, NotGivenUp
  <2>3. /\ handler <= 1 /\ (handler = 1 => abandoned[1] = "no")
        /\ root = "run_async" /\ launch = "done" /\ frame[1] = "none" =>
               (handler = 1 <=> abandoned[1] = "no")
    BY <2>1, SMTT(30) DEF Ends
  <2>4. ReceiverCompletesOnce
    <3> SUFFICES ASSUME root = "sender" PROVE ReceiverCompletesOnce
      BY DEF ReceiverCompletesOnce
    <3>1. /\ completions = (IF launch = "done" /\ frame[1] = "none" THEN 1 ELSE 0)
          /\ completions = 1 /\ abandoned[1] = "yes" => receiver = "stopped"
          /\ completions = 1 => frame[1] = "none"
      BY <2>1, SMTT(30) DEF Ends
    <3>2. completions = 1 => \A s \in Segments : frame[s] = "none" /\ st[s] = "none"
      BY <2>1, <3>1, AllEmpty DEF Empty
    <3> QED
      BY <3>1, <3>2 DEF ReceiverCompletesOnce
  <2> QED
    BY <2>2, <2>3, <2>4 DEF ReportedOnce
<1> QED
  BY <1>1, Inductive, PTL

\* A coroutine that waits for an inner task holds work on its executor, nothing does
\* when all is over, and run_blocking() returns when its chain is over, as it ended.
THEOREM LongEnough == Spec => []WaitsForTheEnd
<1>1. IInv => WaitsForTheEnd
  <2> SUFFICES ASSUME IInv PROVE WaitsForTheEnd
    OBVIOUS
  <2>1. CInv /\ Types /\ Shape /\ Counted /\ Ends /\ 1 \in Segments
    BY Neighbours DEF IInv, CInv
  <2>2. ASSUME NEW s \in Segments, st[s] = "lent" PROVE work[Ex(s)] > 0
    <3>1. holds[s] = "yes" /\ Ex(s) \in Executors
      <4>1. holds[s] \in {"no", "yes"} /\ Below(s)
        BY <2>1 DEF Types, Flag, Shape
      <4> QED
        BY <2>1, <2>2, <4>1 DEF Below, Types, Ex
    <3>2. Debts(Ex(s)) # {}
      BY <3>1 DEF Debts, Ex
    <3>3. Cardinality(Debts(Ex(s))) # 0 /\ Cardinality(Debts(Ex(s))) \in Nat
      BY <3>2, FiniteDebts, FS_EmptySet
    <3>4. work[Ex(s)] = Cardinality(Debts(Ex(s)))
      BY <2>1, <3>1 DEF Counted
    <3> QED
      BY <3>3, <3>4, SMTT(30)
  <2>3. (\A s \in Segments : frame[s] = "none") => \A e \in Executors : work[e] = 0
    <3> SUFFICES ASSUME frame[1] = "none", NEW e \in Executors PROVE work[e] = 0
      BY <2>1
    <3>1. \A t \in Segments : Empty(t)
      BY <2>1, AllEmpty
    <3>2. Debts(e) = {}
      BY <3>1 DEF Debts, Empty
    <3> QED
      BY <2>1, <3>2, FS_EmptySet DEF Counted
  <2>4. main \in {"returned", "threw"} =>
            /\ main = "returned" <=> handler = 1
            /\ \A s \in On(Ex(1)) : st[s] = "none" /\ frame[s] = "none"
    <3>1. main \in {"returned", "threw"} => frame[1] = "none" /\ (main = "returned" <=> handler = 1)
      BY <2>1 DEF Ends
    <3> QED
      BY <2>1, <3>1, AllEmpty DEF Empty, On
  <2> QED
    BY <2>2, <2>3, <2>4 DEF WaitsForTheEnd
<1> QED
  BY <1>1, Inductive, PTL
=============================================================================
