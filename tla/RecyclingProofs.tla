-------------------------- MODULE RecyclingProofs ---------------------------
(***************************************************************************)
(* Proofs that recycling_memory_resource keeps every block in one place    *)
(* and leaves none behind with a thread that is gone, for any numbers of   *)
(* threads and blocks, any capacity and any sizes.                         *)
(***************************************************************************)
EXTENDS Recycling, TLAPS

\* The type invariant.
TypeOK ==
    /\ local \in [Threads -> [Classes -> SUBSET Blocks]]
    /\ global \in [Classes -> SUBSET Blocks]
    /\ size \in [Blocks -> Nat] /\ used \in [Blocks -> Nat]
    /\ janitor \in [Threads -> {"none", "registered", "done"}]
    /\ armed \in [Threads -> {"no", "yes"}]

\* A block in use has the size of the class that deallocate_fast() recomputes from
\* the number of bytes.
SizeOfClass ==
    \A b \in Blocks :
        used[b] > 0 /\ get_class_index(used[b]) < num_classes
        => size[b] = ClassSize[get_class_index(used[b])]

\* thread_armed says that there is a janitor, which has not run.
ArmedIsRegistered == \A t \in Threads : armed[t] = "yes" => janitor[t] = "registered"

IInv == TypeOK /\ BlockInOnePlace /\ SizeOfClass /\ NothingOutlivesThread /\ ArmedIsRegistered

\* The sizes of the classes are positive and differ.
LEMMA ClassSizes ==
    /\ ClassSize \in [Classes -> Nat \ {0}]
    /\ \A i, j \in Classes : ClassSize[i] = ClassSize[j] => i = j
<1>1. Classes = {0, 1, 2, 3, 4, 5}
  BY DEF Classes, num_classes
<1>2. /\ ClassSize[0] = 64 /\ ClassSize[1] = 128 /\ ClassSize[2] = 256
      /\ ClassSize[3] = 512 /\ ClassSize[4] = 1024 /\ ClassSize[5] = 2048
  BY <1>1 DEF ClassSize
<1>3. ClassSize = [i \in Classes |-> ClassSize[i]]
  BY DEF ClassSize
<1> QED
  BY <1>1, <1>2, <1>3

\* The class of n bytes, where there is one, holds n bytes (get_class_index()).
LEMMA ClassHolds ==
    ASSUME NEW n \in Nat
    PROVE  /\ get_class_index(n) \in Nat
           /\ get_class_index(n) < num_classes =>
                  get_class_index(n) \in Classes /\ n <= ClassSize[get_class_index(n)]
<1> DEFINE P(i) == /\ i = num_classes \/ n <= ClassSize[i]
                   /\ \A j \in 0 .. i - 1 : ClassSize[j] < n
<1>1. \A i \in 0 .. 5 : ClassSize[i] \in Nat
  BY ClassSizes DEF Classes, num_classes
<1>2. \E i \in 0 .. num_classes : P(i)
  <2>1. CASE n <= ClassSize[0]
    BY <2>1, P(0) DEF num_classes
  <2>2. CASE ~(n <= ClassSize[0]) /\ n <= ClassSize[1]
    BY <2>2, <1>1, P(1) DEF num_classes
  <2>3. CASE ~(n <= ClassSize[0]) /\ ~(n <= ClassSize[1]) /\ n <= ClassSize[2]
    BY <2>3, <1>1, P(2) DEF num_classes
  <2>4. CASE /\ ~(n <= ClassSize[0]) /\ ~(n <= ClassSize[1]) /\ ~(n <= ClassSize[2])
             /\ n <= ClassSize[3]
    BY <2>4, <1>1, P(3) DEF num_classes
  <2>5. CASE /\ ~(n <= ClassSize[0]) /\ ~(n <= ClassSize[1]) /\ ~(n <= ClassSize[2])
             /\ ~(n <= ClassSize[3]) /\ n <= ClassSize[4]
    BY <2>5, <1>1, P(4) DEF num_classes
  <2>6. CASE /\ ~(n <= ClassSize[0]) /\ ~(n <= ClassSize[1]) /\ ~(n <= ClassSize[2])
             /\ ~(n <= ClassSize[3]) /\ ~(n <= ClassSize[4]) /\ n <= ClassSize[5]
    BY <2>6, <1>1, P(5) DEF num_classes
  <2>7. CASE /\ ~(n <= ClassSize[0]) /\ ~(n <= ClassSize[1]) /\ ~(n <= ClassSize[2])
             /\ ~(n <= ClassSize[3]) /\ ~(n <= ClassSize[4]) /\ ~(n <= ClassSize[5])
    BY <2>7, <1>1, P(6) DEF num_classes
  <2> QED
    BY <2>1, <2>2, <2>3, <2>4, <2>5, <2>6, <2>7
<1>3. get_class_index(n) = CHOOSE i \in 0 .. num_classes : P(i)
  BY DEF get_class_index
<1> HIDE DEF P
<1>4. get_class_index(n) \in 0 .. num_classes /\ P(get_class_index(n))
  BY <1>2, <1>3
<1> QED
  BY <1>4 DEF P, Classes, num_classes

-----------------------------------------------------------------------------
\* IInv holds when nothing was allocated yet.
LEMMA Initially == Init => IInv
  BY ClassSizes DEF Init, IInv, TypeOK, BlockInOnePlace, SizeOfClass, NothingOutlivesThread,
     ArmedIsRegistered, Empty

\* IInv is inductive: no call of any thread, no exit of a thread and no end of the
\* process breaks it.
LEMMA Inductive == IInv /\ [Next]_vars => IInv'
<1> SUFFICES ASSUME IInv, [Next]_vars PROVE IInv'
  OBVIOUS
<1> USE ClassSizes, RecyclingAssumption DEF IInv, TypeOK, BlockInOnePlace, SizeOfClass,
        NothingOutlivesThread, ArmedIsRegistered
<1>1. CASE UNCHANGED vars
  BY <1>1 DEF vars
<1>2. CASE drain_global
  BY <1>2 DEF drain_global, Released, Empty
<1>3. ASSUME NEW n \in Sizes, allocate_large(n) PROVE IInv'
  BY <1>3, ClassHolds DEF allocate_large, Given
<1>4. ASSUME NEW b \in Blocks, deallocate_large(b) PROVE IInv'
  BY <1>4, ClassHolds DEF deallocate_large, Given
<1>5. ASSUME NEW t \in Threads, drain(t) PROVE IInv'
  BY <1>5 DEF drain, Released, Empty
<1>6. ASSUME NEW t \in Threads, NEW n \in Sizes, allocate_fast(t, n) PROVE IInv'
  BY <1>6, ClassHolds DEF allocate_fast, Given
<1>7. ASSUME NEW t \in Threads, NEW n \in Sizes, allocate_slow(t, n) PROVE IInv'
  <2> DEFINE i == get_class_index(n)
  <2>1. i \in Classes /\ n <= ClassSize[i] /\ n \in Nat \ {0}
    BY <1>7, ClassHolds DEF allocate_slow
  <2>2. PICK b \in global[i] : Given(b, n) /\ refill(t, i, b)
    BY <1>7 DEF allocate_slow
  <2>3. /\ local[t][i] = {} /\ arm_thread_cleanup(t)
        /\ UNCHANGED <<size, armed, over>>
    BY <1>7 DEF allocate_slow
  <2>4. b \in Blocks
    BY <2>1, <2>2
  <2>5. SizeOfClass'
    BY <2>1, <2>2, <2>3, <2>4 DEF Given
  <2> HIDE DEF i
  <2>6. janitor' = [janitor EXCEPT ![t] = IF @ = "none" THEN "registered" ELSE @]
    BY <2>3 DEF arm_thread_cleanup
  <2>7. CASE janitor[t] = "done"
    <3>1. global' = [global EXCEPT ![i] = @ \ {b}] /\ UNCHANGED local
      BY <2>2, <2>7 DEF refill
    <3>2. BlockInOnePlace'
      BY <2>1, <2>2, <2>3, <2>4, <3>1 DEF Given
    <3> QED
      BY <2>1, <2>2, <2>3, <2>4, <2>5, <2>6, <3>1, <3>2 DEF Given
  <2>8. CASE janitor[t] # "done"
    <3>1. /\ local' = [local EXCEPT ![t][i] = global[i] \ {b}]
          /\ global' = [global EXCEPT ![i] = {}]
      BY <2>2, <2>8 DEF refill
    <3>2. BlockInOnePlace'
      BY <2>1, <2>2, <2>3, <2>4, <3>1 DEF Given
    <3>3. TypeOK'
      BY <2>1, <2>2, <2>3, <2>4, <2>6, <3>1 DEF Given
    <3>4. NothingOutlivesThread' /\ ArmedIsRegistered'
      BY <2>3, <2>6, <2>8, <3>1
    <3> QED
      BY <2>5, <3>2, <3>3, <3>4
  <2> QED
    BY <2>7, <2>8
<1>8. ASSUME NEW t \in Threads, NEW n \in Sizes, allocate_new(t, n) PROVE IInv'
  BY <1>8, ClassHolds DEF allocate_new, arm_thread_cleanup, Given
<1>9. ASSUME NEW t \in Threads, NEW b \in Blocks, deallocate_fast(t, b) PROVE IInv'
  BY <1>9, ClassHolds DEF deallocate_fast, arm_thread_cleanup, Given
<1>10. ASSUME NEW t \in Threads, NEW b \in Blocks, deallocate_slow(t, b) PROVE IInv'
  <2> DEFINE i == get_class_index(used[b])
  <2>1. i \in Classes /\ used[b] > 0 /\ size[b] = ClassSize[i]
    BY <1>10, ClassHolds DEF deallocate_slow
  <2>2. Given(b, 0) /\ UNCHANGED <<local, over>>
    BY <1>10 DEF deallocate_slow
  <2>3. \/ global' = [global EXCEPT ![i] = @ \cup {b}] /\ UNCHANGED size
        \/ size' = [size EXCEPT ![b] = 0] /\ UNCHANGED global
    BY <1>10 DEF deallocate_slow
  <2>4. \/ UNCHANGED <<janitor, armed>>
        \/ arm_thread_cleanup(t) /\ armed' = [armed EXCEPT ![t] = "yes"]
           /\ (armed[t] = "yes" \/ janitor[t] # "done")
    BY <1>10 DEF deallocate_slow
  <2> HIDE DEF i
  <2>5. /\ janitor' \in [Threads -> {"none", "registered", "done"}]
        /\ armed' \in [Threads -> {"no", "yes"}]
        /\ NothingOutlivesThread' /\ ArmedIsRegistered'
    <3>1. CASE UNCHANGED <<janitor, armed>>
      BY <2>2, <3>1
    <3>2. CASE /\ janitor' = [janitor EXCEPT ![t] = IF @ = "none" THEN "registered" ELSE @]
               /\ armed' = [armed EXCEPT ![t] = "yes"]
               /\ armed[t] = "yes" \/ janitor[t] # "done"
      BY <2>2, <3>2
    <3> QED
      BY <2>4, <3>1, <3>2 DEF arm_thread_cleanup
  <2>6. SizeOfClass'
    BY <2>1, <2>2, <2>3 DEF Given
  <2>7. CASE global' = [global EXCEPT ![i] = @ \cup {b}] /\ UNCHANGED size
    BY <2>1, <2>2, <2>5, <2>6, <2>7 DEF Given
  <2>8. CASE size' = [size EXCEPT ![b] = 0] /\ UNCHANGED global
    BY <2>1, <2>2, <2>5, <2>6, <2>8 DEF Given
  <2> QED
    BY <2>3, <2>7, <2>8
<1> QED
  BY <1>1, <1>2, <1>3, <1>4, <1>5, <1>6, <1>7, <1>8, <1>9, <1>10, Zenon DEF Next

\* A block has one user or is in one bucket of its size, or is with the heap, and its
\* user has the bytes that it asked for.
THEOREM OnePlace == Spec => []BlockInOnePlace
<1>1. IInv => BlockInOnePlace
  BY DEF IInv
<1> QED
  BY Initially, Inductive, <1>1, PTL DEF Spec

\* No thread leaves a cached block behind when it exits.
THEOREM NothingLeftBehind == Spec => []NothingOutlivesThread
<1>1. IInv => NothingOutlivesThread
  BY DEF IInv
<1> QED
  BY Initially, Inductive, <1>1, PTL DEF Spec
=============================================================================
