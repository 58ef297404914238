------------------------------ MODULE Recycling -----------------------------
(***************************************************************************)
(* recycling_memory_resource: blocks of memory that threads allocate and   *)
(* free, on any thread.  Each thread caches freed blocks in buckets of its *)
(* own, by size class; behind them are buckets that all threads share,     *)
(* under a mutex, and behind those the heap.                               *)
(*                                                                         *)
(* A thread's buckets have no destructor: a janitor, registered when the   *)
(* thread first may cache something, empties them at the thread's exit,    *)
(* and other thread-local objects may allocate and free after it.  The     *)
(* shared buckets are emptied at the end of the process.                   *)
(*                                                                         *)
(* One action is one call: a thread's buckets are its own, and the shared  *)
(* ones are only touched once, under the mutex.  A bucket is the set of    *)
(* its blocks.                                                             *)
(***************************************************************************)
EXTENDS Naturals, FiniteSets

CONSTANTS
    Threads,
    Blocks,           \* what the heap can hand out
    Sizes,            \* the numbers of bytes that are asked for
    bucket_capacity

num_classes == 6
Classes == 0 .. num_classes - 1
ClassSize == [i \in Classes |-> <<64, 128, 256, 512, 1024, 2048>>[i + 1]]

ASSUME RecyclingAssumption ==
    /\ Sizes \subseteq Nat \ {0} /\ bucket_capacity \in Nat \ {0}
    /\ IsFiniteSet(Blocks)

VARIABLES
    local,    \* the buckets of each thread
    global,   \* the shared buckets
    size,     \* the size of each block the heap has handed out, 0 for the others
    used,     \* the bytes that the user of each block asked for, 0 when not in use
    janitor,  \* of each thread: "none", "registered", "done" (pool_drained)
    armed,    \* thread_armed
    over      \* "yes" when the shared buckets have been destroyed

vars == <<local, global, size, used, janitor, armed, over>>

Empty == [i \in Classes |-> {}]

Init ==
    /\ local = [t \in Threads |-> Empty] /\ global = Empty
    /\ size = [b \in Blocks |-> 0] /\ used = [b \in Blocks |-> 0]
    /\ janitor = [t \in Threads |-> "none"] /\ armed = [t \in Threads |-> "no"]
    /\ over = "no"

-----------------------------------------------------------------------------
(* Size classes.                                                           *)

\* Mutant: the class is that of the largest power of two below.
get_class_index_floor(n) ==
    CHOOSE i \in 0 .. num_classes :
        /\ \A j \in 1 .. i : j = num_classes \/ ClassSize[j] <= n
        /\ i < num_classes - 1 => n < ClassSize[i + 1]
        /\ i = num_classes <=> n > ClassSize[num_classes - 1]

\* round_up_pow2() and get_class_index(): the class of n bytes, num_classes when they
\* are too many.
get_class_index(n) ==
    CHOOSE i \in 0 .. num_classes :
        /\ i = num_classes \/ n <= ClassSize[i]
        /\ \A j \in 0 .. i - 1 : ClassSize[j] < n

-----------------------------------------------------------------------------
(* Allocation.                                                             *)

\* arm_thread_cleanup() registers the janitor, unless it has run already.
arm_thread_cleanup(t) ==
    janitor' = [janitor EXCEPT ![t] = IF @ = "none" THEN "registered" ELSE @]

Given(b, n) == used' = [used EXCEPT ![b] = n]

\* allocate_fast() takes a block that the thread has cached.
allocate_fast(t, n) ==
    LET i == get_class_index(n) IN
    /\ i < num_classes
    /\ \E b \in local[t][i] : Given(b, n) /\ local' = [local EXCEPT ![t][i] = @ \ {b}]
    /\ UNCHANGED <<global, size, janitor, armed, over>>

\* Mutant: a thread whose janitor has run fills its bucket all the same.
refill_always(t, i, b) ==
    /\ local' = [local EXCEPT ![t][i] = global[i] \ {b}]
    /\ global' = [global EXCEPT ![i] = {}]

\* bucket::pop(), of one block for a thread that may no longer cache, or of all of
\* them into the thread's own bucket.
refill(t, i, b) ==
    IF janitor[t] = "done"
    THEN global' = [global EXCEPT ![i] = @ \ {b}] /\ UNCHANGED local
    ELSE /\ local' = [local EXCEPT ![t][i] = global[i] \ {b}]
         /\ global' = [global EXCEPT ![i] = {}]

\* allocate_slow() takes a shared block.
allocate_slow(t, n) ==
    LET i == get_class_index(n) IN
    /\ i < num_classes /\ local[t][i] = {}
    /\ arm_thread_cleanup(t)
    /\ \E b \in global[i] : Given(b, n) /\ refill(t, i, b)
    /\ UNCHANGED <<size, armed, over>>

\* Or a block of the heap, of the size of the class.
allocate_new(t, n) ==
    LET i == get_class_index(n) IN
    /\ i < num_classes /\ local[t][i] = {} /\ global[i] = {}
    /\ arm_thread_cleanup(t)
    /\ \E b \in Blocks :
           size[b] = 0 /\ size' = [size EXCEPT ![b] = ClassSize[i]] /\ Given(b, n)
    /\ UNCHANGED <<local, global, armed, over>>

\* Too many bytes for any class come from the heap, and go back there.
allocate_large(n) ==
    /\ get_class_index(n) = num_classes
    /\ \E b \in Blocks : size[b] = 0 /\ size' = [size EXCEPT ![b] = n] /\ Given(b, n)
    /\ UNCHANGED <<local, global, janitor, armed, over>>

deallocate_large(b) ==
    /\ used[b] > 0 /\ get_class_index(used[b]) = num_classes
    /\ Given(b, 0) /\ size' = [size EXCEPT ![b] = 0]
    /\ UNCHANGED <<local, global, janitor, armed, over>>

-----------------------------------------------------------------------------
(* Deallocation.                                                           *)

\* deallocate_fast() caches the block with the thread that frees it, having made sure
\* that there is a janitor.
deallocate_fast(t, b) ==
    LET i == get_class_index(used[b]) IN
    /\ used[b] > 0 /\ i < num_classes
    /\ armed[t] = "yes" \/ janitor[t] # "done"
    /\ Cardinality(local[t][i]) < bucket_capacity
    /\ arm_thread_cleanup(t) /\ armed' = [armed EXCEPT ![t] = "yes"]
    /\ Given(b, 0) /\ local' = [local EXCEPT ![t][i] = @ \cup {b}]
    /\ UNCHANGED <<global, size, over>>

\* deallocate_slow(), when the bucket is full or the janitor has run: the block is
\* shared, or it goes back to the heap.
deallocate_slow(t, b) ==
    LET i == get_class_index(used[b]) IN
    /\ used[b] > 0 /\ i < num_classes
    /\ IF armed[t] = "no" /\ janitor[t] = "done" THEN UNCHANGED <<janitor, armed>>
       ELSE /\ Cardinality(local[t][i]) >= bucket_capacity
            /\ arm_thread_cleanup(t) /\ armed' = [armed EXCEPT ![t] = "yes"]
    /\ Given(b, 0)
    /\ IF Cardinality(global[i]) < bucket_capacity
       THEN global' = [global EXCEPT ![i] = @ \cup {b}] /\ UNCHANGED size
       ELSE size' = [size EXCEPT ![b] = 0] /\ UNCHANGED global
    /\ UNCHANGED <<local, over>>

-----------------------------------------------------------------------------
(* The end of threads and of the process.                                  *)

\* The blocks in D go back to the heap.
Released(D) == size' = [b \in Blocks |-> IF b \in D THEN 0 ELSE size[b]]

\* ~janitor, among the destructors of the thread's other objects.
drain(t) ==
    /\ janitor[t] = "registered" /\ janitor' = [janitor EXCEPT ![t] = "done"]
    /\ Released(UNION {local[t][i] : i \in Classes})
    /\ local' = [local EXCEPT ![t] = Empty] /\ armed' = [armed EXCEPT ![t] = "no"]
    /\ UNCHANGED <<global, used, over>>

\* ~holder, at the end of the process, while other threads may go on.
drain_global ==
    /\ over = "no" /\ over' = "yes"
    /\ Released(UNION {global[i] : i \in Classes}) /\ global' = Empty
    /\ UNCHANGED <<local, used, janitor, armed>>

Next ==
    \/ drain_global
    \/ \E n \in Sizes : allocate_large(n)
    \/ \E b \in Blocks : deallocate_large(b)
    \/ \E t \in Threads :
           \/ drain(t)
           \/ \E n \in Sizes : allocate_fast(t, n) \/ allocate_slow(t, n) \/ allocate_new(t, n)
           \/ \E b \in Blocks : deallocate_fast(t, b) \/ deallocate_slow(t, b)

Spec == Init /\ [][Next]_vars

-----------------------------------------------------------------------------
(* Properties.                                                             *)

\* A block has one user or is in one bucket, of its size, or it is with the heap,
\* whichever threads it was passed between and whatever refills and drains came in
\* between; and its user has the bytes that it asked for.
BlockInOnePlace ==
    /\ \A i \in Classes : \A b \in global[i] : size[b] = ClassSize[i] /\ used[b] = 0
    /\ \A t \in Threads : \A i \in Classes : \A b \in local[t][i] :
           size[b] = ClassSize[i] /\ used[b] = 0 /\ b \notin global[i]
    /\ \A t, u \in Threads : \A i \in Classes : t # u => local[t][i] \cap local[u][i] = {}
    /\ \A b \in Blocks : used[b] <= size[b]

\* No thread leaves a cached block behind: whoever caches one has a janitor that is yet
\* to run, also a thread that never allocated, and one whose objects free blocks after
\* its janitor.
NothingOutlivesThread ==
    \A t \in Threads : \A i \in Classes : local[t][i] # {} => janitor[t] = "registered"
=============================================================================
