-------------------------- MODULE ThreadPoolProofs --------------------------
(***************************************************************************)
(* join() waits for all work and nothing is left inside a destroyed pool,  *)
(* for any numbers of workers, clients and continuations.                  *)
(***************************************************************************)
EXTENDS ThreadPool, TLAPS

\* Every leaf is for Zenon unless it names another prover.
USE Zenon

-----------------------------------------------------------------------------
(* The inductive invariant.                                                *)

Types ==
    /\ mutex_ \in Threads \cup {None} /\ queue \in Seq(Conts)
    /\ stop_ \in {"yes", "no"} /\ joined_ \in {"yes", "no"} /\ userStop \in {"yes", "no"}
    /\ threads_ \subseteq Workers
    /\ wpc \in [Workers -> {"unborn", "check", "asleep", "busy", "exited"}]
    /\ own \in {"idle", "asleep", "check", "joining", "joined", "djoin", "djoining",
                "shutdown", "drain1", "abandon1", "destroy", "drain2", "abandon2", "deleted"}
    /\ pc \in [Threads -> {"idle", "cas", "finish", "reread", "stopped?", "start", "push"}]
    /\ arg \in [Threads -> Conts \cup {None}]
    /\ held \in [Threads -> SUBSET Conts]
    /\ work \subseteq Conts /\ done \subseteq work
    /\ ran \subseteq Conts /\ abandoned \subseteq Conts

\* The unit of work that the call of t is about, until it is finished or queued.
Called(t) == IF pc[t] \in {"cas", "finish", "stopped?", "start", "push"} THEN {arg[t]} ELSE {}

Mine(t) == held[t] \cup Called(t)

\* Every unit of work in progress is in one place.
Located ==
    /\ \A t \in Threads : Mine(t) \subseteq work \ done
    /\ \A t \in Threads : Mine(t) \cap Contents(queue) = {}
    /\ \A t, u \in Threads : t # u => Mine(t) \cap Mine(u) = {}
    /\ Contents(queue) \subseteq work \ done
    /\ \A i, j \in DOMAIN queue : queue[i] = queue[j] => i = j

Apart == \A t \in Threads : held[t] \cap Called(t) = {}

\* S has n elements: they can be numbered from 1 to n.
Numbering(S, n, f) ==
    /\ f \in [S -> 1 .. n]
    /\ \A x, y \in S : f[x] = f[y] => x = y
    /\ \A i \in 1 .. n : \E x \in S : f[x] = i

Numbered(S, n) == n \in Nat /\ \E f : Numbering(S, n, f)

Counted == Numbered(work \ done, outstanding_work_)

\* Nothing that is queued or being posted has run or been abandoned.
Fates ==
    /\ ran \cap abandoned = {} /\ ran \cup abandoned \subseteq work
    /\ Contents(queue) \cap (ran \cup abandoned) = {}
    /\ \A t \in Threads :
           pc[t] \in {"stopped?", "start", "push"} => arg[t] \notin ran \cup abandoned

\* Who may be inside the pool: a thread that holds mutex_, a busy worker, the owner
\* while it runs chains or services' hooks, and no thread of the pool outside threads_.
Places ==
    /\ \A t \in Threads : pc[t] = "reread" <=> mutex_ = t
    /\ \A w \in Workers : pc[w] # "idle" \/ held[w] # {} => wpc[w] = "busy"
    /\ \A w \in Workers : w \in threads_ <=> wpc[w] # "unborn"
    /\ pc[Owner] # "idle" \/ held[Owner] # {} =>
           own \in {"shutdown", "abandon1", "destroy", "abandon2"}

Joining == {"joining", "joined"}
ShuttingDown == {"djoin", "djoining", "shutdown"}
Destroying == ShuttingDown \cup {"drain1", "abandon1", "destroy", "drain2", "abandon2", "deleted"}

\* How far the end of the pool is: stop_ is set before the threads are joined, the
\* threads have exited before the services are shut down, and while the pool is
\* destroyed no client is inside it, but for the services' threads until they have been
\* shut down.  A pool that stopped by itself has run out of work.
Phases ==
    /\ own = "idle" => joined_ = "no"
    /\ own \in {"asleep", "check"} \cup Joining => joined_ = "yes"
    /\ own \in Joining \cup Destroying => stop_ = "yes"
    /\ \/ own \in {"joined"} \cup (Destroying \ {"djoin", "djoining"})
       \/ own = "djoin" /\ joined_ = "yes"
       => \A w \in threads_ : wpc[w] = "exited"
    /\ own \in Destroying => \A t \in Clients \ Services : pc[t] = "idle" /\ held[t] = {}
    /\ own \in Destroying \ ShuttingDown =>
           \A t \in Services : pc[t] = "idle" /\ held[t] = {}
    /\ stop_ = "yes" /\ userStop = "no" /\ own \notin Destroying =>
           work = done /\ joined_ = "yes"
    /\ own = "deleted" => queue = <<>>

IInv == Types /\ Located /\ Apart /\ Counted /\ Fates /\ Places /\ Phases

-----------------------------------------------------------------------------
(* Counting.                                                               *)

\* One more element gets the next number.
LEMMA OneMore ==
  ASSUME NEW S, NEW n, Numbered(S, n), NEW x, x \notin S
  PROVE  Numbered(S \cup {x}, n + 1)
<1>1. n \in Nat
    BY DEF Numbered
<1>2. PICK f : Numbering(S, n, f)
    BY DEF Numbered
<1> DEFINE g == [y \in S \cup {x} |-> IF y = x THEN n + 1 ELSE f[y]]
<1>3. Numbering(S \cup {x}, n + 1, g)
  <2>1. \A y \in S : f[y] \in 1 .. n /\ y # x
    BY <1>2 DEF Numbering
  <2>2. g \in [S \cup {x} -> 1 .. n + 1]
    BY <1>1, <2>1, SMTT(30)
  <2>3. \A y, z \in S \cup {x} : g[y] = g[z] => y = z
    BY <1>1, <1>2, <2>1, SMTT(30) DEF Numbering
  <2>4. \A i \in 1 .. n + 1 : \E y \in S \cup {x} : g[y] = i
    BY <1>1, <1>2, <2>1, SMTT(30) DEF Numbering
  <2> HIDE DEF g
  <2> QED BY <2>2, <2>3, <2>4 DEF Numbering
<1> QED BY <1>1, <1>3, SMTT(30) DEF Numbered

\* An element is taken away, and the one with the last number gets its number.
LEMMA OneLess ==
  ASSUME NEW S, NEW n, Numbered(S, n), NEW x \in S
  PROVE  Numbered(S \ {x}, n - 1)
<1>1. PICK f : Numbering(S, n, f)
    BY DEF Numbered
<1>2. n \in Nat /\ f[x] \in 1 .. n /\ n - 1 \in Nat
    BY <1>1, SMTT(30) DEF Numbered, Numbering
<1> DEFINE g == [y \in S \ {x} |-> IF f[y] = n THEN f[x] ELSE f[y]]
<1>3. Numbering(S \ {x}, n - 1, g)
  <2>1. \A y \in S \ {x} : f[y] \in 1 .. n /\ f[y] # f[x]
    BY <1>1 DEF Numbering
  <2>2. g \in [S \ {x} -> 1 .. n - 1]
    BY <1>2, <2>1, SMTT(30)
  <2>3. \A y, z \in S \ {x} : g[y] = g[z] => y = z
    BY <1>1, <1>2, <2>1 DEF Numbering
  <2>4. ASSUME NEW i \in 1 .. n - 1 PROVE \E y \in S \ {x} : g[y] = i
    <3>1. i \in 1 .. n /\ n \in 1 .. n /\ i # n
      BY <1>2, SMTT(30)
    <3>2. PICK y \in S : f[y] = i
      BY <1>1, <3>1 DEF Numbering
    <3>3. PICK z \in S : f[z] = n
      BY <1>1, <3>1 DEF Numbering
    <3>4. CASE y = x
      BY <3>1, <3>2, <3>3, <3>4
    <3>5. CASE y # x
      BY <3>1, <3>2, <3>5
    <3> QED BY <3>4, <3>5
  <2> HIDE DEF g
  <2> QED BY <2>2, <2>3, <2>4 DEF Numbering
<1> QED BY <1>2, <1>3 DEF Numbered

\* Nothing can be numbered up to 0 but the empty set, and the empty set can.
LEMMA NoneLeft == \A S : Numbered(S, 0) <=> S = {}
<1>1. ASSUME NEW S, Numbered(S, 0) PROVE S = {}
    BY <1>1, SMTT(30) DEF Numbered, Numbering
<1>2. Numbering({}, 0, [x \in {} |-> 0])
    BY SMTT(30) DEF Numbering
<1>3. Numbered({}, 0)
    BY <1>2 DEF Numbered
<1> QED BY <1>1, <1>3

-----------------------------------------------------------------------------
(* What a step may do to the work in progress.                             *)

\* Who is who.
LEMMA Distinct ==
    /\ Workers \subseteq Threads /\ Clients \subseteq Threads /\ Owner \in Threads
    /\ Workers \cap Clients = {} /\ Owner \notin Workers \cup Clients
    /\ None \notin Threads \cup Conts /\ Services \subseteq Clients
BY ThreadsAssumption, Zenon DEF Threads

\* The queue is left alone.
LEMMA SameQueue == queue' = queue => Contents(queue)' = Contents(queue)
BY Zenon DEF Contents

\* When the count is 0 all work is done.
LEMMA Settled == Types /\ Counted /\ outstanding_work_ = 0 => work = done
<1> SUFFICES ASSUME Types, Counted, outstanding_work_ = 0 PROVE work = done
    OBVIOUS
<1>1. work \ done = {}
    BY NoneLeft DEF Counted
<1> QED BY <1>1, Zenon DEF Types

\* Nothing: a call goes on, or a thread takes a unit of its own into a call.
LEMMA Same ==
  ASSUME Located, Counted, UNCHANGED <<work, done, queue, outstanding_work_>>,
         \A t \in Threads : Mine(t)' = Mine(t)
  PROVE  Located' /\ Counted'
<1>1. Contents(queue)' = Contents(queue)
    BY SameQueue
<1>2. Counted'
    BY DEF Counted
<1> HIDE DEF Mine, Contents
<1>3. Located'
    BY <1>1 DEF Located
<1> QED BY <1>2, <1>3

\* No unit of work moves, and no call goes on.
LEMMA NotCalled ==
  ASSUME Located, Apart, Counted, Fates, UNCHANGED <<queue, outstanding_work_, fate_vars>>,
         UNCHANGED <<pc, arg, held, work, done>>
  PROVE  Located' /\ Apart' /\ Counted' /\ Fates'
<1>1. Contents(queue)' = Contents(queue) /\ \A t \in Threads : Mine(t)' = Mine(t) /\ Called(t)' = Called(t)
    BY DEF Contents, Mine, Called
<1>2. Located' /\ Counted'
    BY <1>1, Same
<1>3. Apart' /\ Fates'
    BY <1>1 DEF Apart, Fates, fate_vars
<1> QED BY <1>2, <1>3

\* on_work_started(): a new unit of work.
LEMMA Starts ==
  ASSUME Types, Located, Counted, UNCHANGED <<done, queue>>,
         NEW t \in Threads, NEW c \in Conts, c \notin work, work' = work \cup {c},
         outstanding_work_' = outstanding_work_ + 1, Mine(t)' = Mine(t) \cup {c},
         \A u \in Threads \ {t} : Mine(u)' = Mine(u)
  PROVE  Located' /\ Counted'
<1>1. Contents(queue)' = Contents(queue)
    BY SameQueue
<1>2. work' \ done' = (work \ done) \cup {c} /\ c \notin work \ done
    BY DEF Types
<1>3. Numbered((work \ done) \cup {c}, outstanding_work_ + 1)
    BY <1>2, OneMore DEF Counted
<1>4. Counted'
    BY <1>2, <1>3 DEF Counted
<1> HIDE DEF Mine, Contents
<1>5. Located'
    BY <1>1, <1>2, SMTT(30) DEF Located
<1> QED BY <1>4, <1>5

\* on_work_finished(): a unit of work ends.
LEMMA Finishes ==
  ASSUME Types, Located, Counted, UNCHANGED <<work, queue>>,
         NEW t \in Threads, NEW c \in Mine(t), done' = done \cup {c},
         outstanding_work_' = outstanding_work_ - 1, Mine(t)' = Mine(t) \ {c},
         \A u \in Threads \ {t} : Mine(u)' = Mine(u)
  PROVE  Located' /\ Counted'
<1>1. Contents(queue)' = Contents(queue)
    BY SameQueue
<1>2. work' \ done' = (work \ done) \ {c} /\ c \in work \ done
    BY DEF Types, Located
<1>3. Numbered((work \ done) \ {c}, outstanding_work_ - 1)
    BY <1>2, OneLess DEF Counted
<1>4. Counted'
    BY <1>2, <1>3 DEF Counted
<1> HIDE DEF Mine, Contents
<1>5. Located'
    BY <1>1, <1>2, SMTT(30) DEF Located
<1> QED BY <1>4, <1>5

\* What push() and pop() do to the queue.
LEMMA Appended ==
  ASSUME Types, NEW c \in Conts, queue' = Append(queue, c)
  PROVE  /\ queue' \in Seq(Conts) /\ Contents(queue)' = Contents(queue) \cup {c}
         /\ Len(queue') = Len(queue) + 1 /\ queue'[Len(queue) + 1] = c
         /\ \A i \in 1 .. Len(queue) : queue'[i] = queue[i]
<1>1. /\ queue \in Seq(Conts) /\ queue' \in Seq(Conts) /\ Len(queue') = Len(queue) + 1
      /\ queue'[Len(queue) + 1] = c /\ \A i \in 1 .. Len(queue) : queue'[i] = queue[i]
    BY SMTT(30) DEF Types
<1>2. DOMAIN queue = 1 .. Len(queue) /\ DOMAIN queue' = 1 .. Len(queue) + 1
      /\ Len(queue) \in Nat
    BY <1>1, SMTT(30)
<1>3. \A x \in Contents(queue)' : x \in Contents(queue) \cup {c}
    BY <1>1, <1>2, SMTT(30) DEF Contents
<1>4. c \in Contents(queue)'
    BY <1>1, <1>2, SMTT(30) DEF Contents
<1>5. \A x \in Contents(queue) : x \in Contents(queue)'
    BY <1>1, <1>2, SMTT(30) DEF Contents
<1> QED BY <1>1, <1>3, <1>4, <1>5

LEMMA Popped ==
  ASSUME Types, Located, queue # <<>>, queue' = Tail(queue)
  PROVE  /\ queue' \in Seq(Conts) /\ Head(queue) \in Contents(queue) /\ Head(queue) \in Conts
         /\ Contents(queue)' = Contents(queue) \ {Head(queue)}
         /\ Len(queue') = Len(queue) - 1
         /\ \A i \in 1 .. Len(queue) - 1 : queue'[i] = queue[i + 1]
<1>1. /\ queue \in Seq(Conts) /\ queue' \in Seq(Conts) /\ Len(queue') = Len(queue) - 1
      /\ Head(queue) = queue[1] /\ Len(queue) \in Nat /\ Len(queue) > 0
    BY SMTT(30) DEF Types
<1>2. \A i \in 1 .. Len(queue) - 1 : queue'[i] = queue[i + 1]
    BY <1>1, SMTT(30)
<1>3. DOMAIN queue = 1 .. Len(queue) /\ DOMAIN queue' = 1 .. Len(queue) - 1
    BY <1>1, SMTT(30)
<1>4. Head(queue) \in Contents(queue) /\ Head(queue) \in Conts
    BY <1>1, <1>3, SMTT(30) DEF Contents
<1>5. \A x \in Contents(queue)' : x \in Contents(queue) \ {Head(queue)}
  <2> SUFFICES ASSUME NEW i \in DOMAIN queue'
               PROVE  queue'[i] \in Contents(queue) \ {Head(queue)}
    BY DEF Contents
  <2>1. i + 1 \in DOMAIN queue /\ queue'[i] = queue[i + 1]
    BY <1>1, <1>2, <1>3, SMTT(30)
  <2>2. queue[i + 1] # queue[1]
    BY <2>1, <1>1, <1>3, SMTT(30) DEF Located
  <2> QED BY <2>1, <2>2, <1>1 DEF Contents
<1>6. ASSUME NEW x \in Contents(queue) \ {Head(queue)} PROVE x \in Contents(queue)'
  <2>1. PICK j \in 1 .. Len(queue) : x = queue[j] /\ j # 1
    BY <1>1, <1>3 DEF Contents
  <2>2. PICK i \in 1 .. Len(queue) - 1 : j = i + 1
    BY <2>1, <1>1, SMTT(30)
  <2>3. queue'[i] = x /\ i \in DOMAIN queue'
    BY <2>1, <2>2, <1>2, <1>3
  <2> QED BY <2>3 DEF Contents
<1> QED BY <1>1, <1>2, <1>4, <1>5, <1>6

\* A post queues the unit it is about.
LEMMA Pushes ==
  ASSUME Types, Located, Counted, UNCHANGED <<work, done, outstanding_work_>>,
         NEW t \in Threads, NEW c \in Mine(t), c \in Conts, queue' = Append(queue, c),
         Mine(t)' = Mine(t) \ {c}, \A u \in Threads \ {t} : Mine(u)' = Mine(u)
  PROVE  Located' /\ Counted'
<1>1. /\ queue' \in Seq(Conts) /\ Contents(queue)' = Contents(queue) \cup {c}
      /\ Len(queue') = Len(queue) + 1 /\ queue'[Len(queue) + 1] = c
      /\ \A i \in 1 .. Len(queue) : queue'[i] = queue[i]
    BY Appended
<1>2. DOMAIN queue = 1 .. Len(queue) /\ DOMAIN queue' = 1 .. Len(queue) + 1
      /\ Len(queue) \in Nat
    BY <1>1, SMTT(30) DEF Types
<1>3. \A i \in 1 .. Len(queue) : queue[i] # c
    BY <1>2, SMTT(30) DEF Located, Contents
<1>4. \A i, j \in DOMAIN queue' : queue'[i] = queue'[j] => i = j
  <2> SUFFICES ASSUME NEW i \in DOMAIN queue', NEW j \in DOMAIN queue', queue'[i] = queue'[j]
               PROVE  i = j
    OBVIOUS
  <2>1. CASE i \in 1 .. Len(queue) /\ j \in 1 .. Len(queue)
    BY <2>1, <1>1, <1>2 DEF Located
  <2>2. CASE i = Len(queue) + 1 \/ j = Len(queue) + 1
    BY <2>2, <1>1, <1>2, <1>3, SMTT(30)
  <2> QED BY <2>1, <2>2, <1>2, SMTT(30)
<1>5. Counted'
    BY DEF Counted
<1> HIDE DEF Mine, Contents
<1>6. Located'
    BY <1>1, <1>4, SMTT(30) DEF Located
<1> QED BY <1>5, <1>6

\* A worker or the destructor takes the first of the queue.
LEMMA Takes ==
  ASSUME Types, Located, Counted, UNCHANGED <<work, done, outstanding_work_>>,
         NEW t \in Threads, Mine(t) = {}, queue # <<>>, queue' = Tail(queue),
         Mine(t)' = {Head(queue)}, \A u \in Threads \ {t} : Mine(u)' = Mine(u)
  PROVE  Located' /\ Counted'
<1>1. /\ queue' \in Seq(Conts) /\ Head(queue) \in Contents(queue)
      /\ Contents(queue)' = Contents(queue) \ {Head(queue)}
      /\ Len(queue') = Len(queue) - 1
      /\ \A i \in 1 .. Len(queue) - 1 : queue'[i] = queue[i + 1]
    BY Popped
<1>2. DOMAIN queue = 1 .. Len(queue) /\ DOMAIN queue' = 1 .. Len(queue) - 1
      /\ Len(queue) \in Nat
    BY <1>1, SMTT(30) DEF Types
<1>3. \A i, j \in DOMAIN queue' : queue'[i] = queue'[j] => i = j
  <2> SUFFICES ASSUME NEW i \in DOMAIN queue', NEW j \in DOMAIN queue', queue'[i] = queue'[j]
               PROVE  i = j
    OBVIOUS
  <2>1. i + 1 \in DOMAIN queue /\ j + 1 \in DOMAIN queue /\ queue[i + 1] = queue[j + 1]
    BY <1>1, <1>2, SMTT(30)
  <2>2. i + 1 = j + 1
    BY <2>1 DEF Located
  <2> QED BY <2>2, <1>2, SMTT(30)
<1>4. Counted'
    BY DEF Counted
<1> HIDE DEF Mine, Contents
<1>5. Located'
    BY <1>1, <1>3, SMTT(30) DEF Located
<1> QED BY <1>4, <1>5

-----------------------------------------------------------------------------
(* The steps, one lemma each.                                              *)

\* on_work_started(): only a holder of work, a service, or anyone before the join.
LEMMA StartedStep ==
  ASSUME IInv, NEW t \in Threads, NEW c \in Conts, on_work_started(t, c)
  PROVE  IInv'
<1>0. Types /\ Located /\ Apart /\ Counted /\ Fates /\ Places /\ Phases
    BY DEF IInv
<1> USE DEF on_work_started, InCode, flag_vars, call_vars,
        fate_vars
<1>a. /\ c \notin Called(t) /\ held[t] \subseteq work \ done
      /\ \A u \in Threads : c \notin Mine(u)
    BY <1>0 DEF Located, Mine
<1>q. Contents(queue)' = Contents(queue)
    BY SameQueue
<1>1. Types'
    BY <1>0, <1>a DEF Types
<1>2. Mine(t)' = Mine(t) \cup {c} /\ \A u \in Threads \ {t} : Mine(u)' = Mine(u)
    BY <1>0, <1>a DEF Types, Mine, Called, Apart
<1>3. Located' /\ Counted'
    BY <1>0, <1>2, <1>a, Starts
<1>4. Apart'
    BY <1>0, <1>a DEF Types, Apart, Called
<1>5. Fates'
    BY <1>0, <1>q DEF Types, Fates, Located, Mine, Called
<1>6. Places'
    BY <1>0, <1>a, Distinct, SMTT(30) DEF Types, Places
<1>7. Phases'
    BY <1>0, <1>a, Distinct, SMTT(30) DEF Types, Phases, Joining, ShuttingDown, Destroying, Places
<1> QED BY <1>1, <1>3, <1>4, <1>5, <1>6, <1>7, Zenon DEF IInv

\* on_work_finished() begins with a unit that its thread holds.
LEMMA FinishedStep ==
  ASSUME IInv, NEW t \in Threads, NEW c \in Conts, on_work_finished(t, c)
  PROVE  IInv'
<1>0. Types /\ Located /\ Apart /\ Counted /\ Fates /\ Places /\ Phases
    BY DEF IInv
<1> USE DEF on_work_finished, AfterLoad, InCode, Goto, flag_vars,
        call_vars, fate_vars
<1>q. Contents(queue)' = Contents(queue)
    BY SameQueue
<1>1. Types'
    BY <1>0 DEF Types
<1>2. \A u \in Threads : Mine(u)' = Mine(u)
    BY <1>0 DEF Types, Mine, Called, Apart
<1>3. Located' /\ Counted'
    BY <1>0, <1>2, Same
<1>4. Apart'
    BY <1>0 DEF Types, Apart, Called
<1>5. Fates'
    BY <1>0, <1>q, SMTT(30) DEF Types, Fates, Located, Mine, Called
<1>6. Places'
    BY <1>0, SMTT(30) DEF Types, Places
<1>7. Phases'
    BY <1>0, SMTT(30) DEF Types, Phases, Joining, ShuttingDown, Destroying, Places
<1> QED BY <1>1, <1>3, <1>4, <1>5, <1>6, <1>7, Zenon DEF IInv

\* A release that is not the last.
LEMMA CasStep ==
  ASSUME IInv, NEW t \in Threads, finish_cas(t), outstanding_work_ = seen[t]
  PROVE  IInv'
<1>0. Types /\ Located /\ Apart /\ Counted /\ Fates /\ Places /\ Phases
    BY DEF IInv
<1> USE DEF finish_cas, AfterLoad, Goto, Return, flag_vars,
        call_vars, fate_vars
<1>a. arg[t] \in Called(t) /\ arg[t] \in Mine(t) /\ arg[t] \in work \ done /\ arg[t] \in Conts
      /\ arg[t] \notin held[t]
    BY <1>0 DEF Located, Mine, Called, Apart, Types
<1>q. Contents(queue)' = Contents(queue)
    BY SameQueue
<1>1. Types'
    BY <1>0, <1>a, SMTT(30) DEF Types
<1>2. Mine(t)' = Mine(t) \ {arg[t]} /\ \A u \in Threads \ {t} : Mine(u)' = Mine(u)
    BY <1>0, <1>a, SMTT(30) DEF Types, Mine, Called, Apart
<1>3. Located' /\ Counted'
    BY <1>0, <1>2, <1>a, Finishes
<1>4. Apart'
    BY <1>0, <1>a, SMTT(30) DEF Types, Apart, Called
<1>5. Fates'
    BY <1>0, <1>q, SMTT(30) DEF Types, Fates, Located, Mine, Called
<1>6. Places'
    BY <1>0, <1>a, Distinct, SMTT(30) DEF Types, Places
<1>7. Phases'
    BY <1>0, <1>a, Distinct, SMTT(30) DEF Types, Phases, Joining, ShuttingDown, Destroying, Places
<1> QED BY <1>1, <1>3, <1>4, <1>5, <1>6, <1>7, Zenon DEF IInv

\* The count has changed meanwhile.
LEMMA ReloadStep ==
  ASSUME IInv, NEW t \in Threads, finish_cas(t), outstanding_work_ # seen[t]
  PROVE  IInv'
<1>0. Types /\ Located /\ Apart /\ Counted /\ Fates /\ Places /\ Phases
    BY DEF IInv
<1> USE DEF finish_cas, AfterLoad, Goto, Return, flag_vars,
        call_vars, fate_vars
<1>q. Contents(queue)' = Contents(queue)
    BY SameQueue
<1>1. Types'
    BY <1>0 DEF Types
<1>2. \A u \in Threads : Mine(u)' = Mine(u)
    BY <1>0, SMTT(30) DEF Types, Mine, Called, Apart
<1>3. Located' /\ Counted'
    BY <1>0, <1>2, Same
<1>4. Apart'
    BY <1>0 DEF Types, Apart, Called
<1>5. Fates'
    BY <1>0, <1>q, SMTT(30) DEF Types, Fates, Located, Mine, Called
<1>6. Places'
    BY <1>0, Distinct, SMTT(30) DEF Types, Places
<1>7. Phases'
    BY <1>0, Distinct DEF Types, Phases, Joining, ShuttingDown, Destroying, Places
<1> QED BY <1>1, <1>3, <1>4, <1>5, <1>6, <1>7, Zenon DEF IInv

\* The release that may be the last, under mutex_.
LEMMA SubStep ==
  ASSUME IInv, NEW t \in Threads, finish_sub(t)
  PROVE  IInv'
<1>0. Types /\ Located /\ Apart /\ Counted /\ Fates /\ Places /\ Phases
    BY DEF IInv
<1> USE DEF finish_sub, Unlocked, Goto, flag_vars, call_vars,
        fate_vars
<1>a. arg[t] \in Called(t) /\ arg[t] \in Mine(t) /\ arg[t] \in work \ done /\ arg[t] \in Conts
      /\ arg[t] \notin held[t]
    BY <1>0 DEF Located, Mine, Called, Apart, Types
<1>q. Contents(queue)' = Contents(queue)
    BY SameQueue
<1>1. Types'
    BY <1>0, <1>a DEF Types
<1>2. Mine(t)' = Mine(t) \ {arg[t]} /\ \A u \in Threads \ {t} : Mine(u)' = Mine(u)
    BY <1>0, <1>a DEF Types, Mine, Called, Apart
<1>3. Located' /\ Counted'
    BY <1>0, <1>2, <1>a, Finishes
<1>4. Apart'
    BY <1>0, <1>a DEF Types, Apart, Called
<1>5. Fates'
    BY <1>0, <1>q, SMTT(30) DEF Types, Fates, Located, Mine, Called
<1>6. Places'
    BY <1>0, <1>a, Distinct, SMTT(30) DEF Types, Places
<1>7. Phases'
    BY <1>0, <1>a, SMTT(30) DEF Types, Phases, Joining, ShuttingDown, Destroying, Places
<1> QED BY <1>1, <1>3, <1>4, <1>5, <1>6, <1>7, Zenon DEF IInv

\* The last release of a joined pool stops it.
LEMMA LoadStep ==
  ASSUME IInv, NEW t \in Threads, finish_load(t)
  PROVE  IInv'
<1>0. Types /\ Located /\ Apart /\ Counted /\ Fates /\ Places /\ Phases
    BY DEF IInv
<1> USE DEF finish_load, WakeWorkers, WakeOwner, Goto, Return,
        flag_vars, call_vars, fate_vars
<1>a. outstanding_work_ = 0 => work = done
    BY <1>0, Settled
<1>q. Contents(queue)' = Contents(queue)
    BY SameQueue
<1>1. Types'
    BY <1>0, <1>a, SMTT(30) DEF Types
<1>2. \A u \in Threads : Mine(u)' = Mine(u)
    BY <1>0, <1>a DEF Types, Mine, Called, Apart
<1>3. Located' /\ Counted'
    BY <1>0, <1>2, <1>a, Same
<1>4. Apart'
    BY <1>0, <1>a DEF Types, Apart, Called
<1>5. Fates'
    BY <1>0, <1>q, SMTT(30) DEF Types, Fates, Located, Mine, Called
<1>6. Places'
    BY <1>0, <1>a, Distinct, SMTT(30) DEF Types, Places
<1>7. Phases'
    BY <1>0, <1>a, SMTT(30) DEF Types, Phases, Joining, ShuttingDown, Destroying, Places
<1> QED BY <1>1, <1>3, <1>4, <1>5, <1>6, <1>7, Zenon DEF IInv

\* A post begins with a unit that its thread holds.
LEMMA PostStep ==
  ASSUME IInv, NEW t \in Threads, NEW c \in Conts, post(t, c)
  PROVE  IInv'
<1>0. Types /\ Located /\ Apart /\ Counted /\ Fates /\ Places /\ Phases
    BY DEF IInv
<1> USE DEF post, InCode, Goto, flag_vars, call_vars, fate_vars
<1>q. Contents(queue)' = Contents(queue)
    BY SameQueue
<1>1. Types'
    BY <1>0 DEF Types
<1>2. \A u \in Threads : Mine(u)' = Mine(u)
    BY <1>0, SMTT(30) DEF Types, Mine, Called, Apart
<1>3. Located' /\ Counted'
    BY <1>0, <1>2, Same
<1>4. Apart'
    BY <1>0 DEF Types, Apart, Called
<1>5. Fates'
    BY <1>0, <1>q, SMTT(30) DEF Types, Fates, Located, Mine, Called
<1>6. Places'
    BY <1>0, SMTT(30) DEF Types, Places
<1>7. Phases'
    BY <1>0, SMTT(30) DEF Types, Phases, Joining, ShuttingDown, Destroying, Places
<1> QED BY <1>1, <1>3, <1>4, <1>5, <1>6, <1>7, Zenon DEF IInv

\* A post to a stopped pool that never started.
LEMMA StoppedStep ==
  ASSUME IInv, NEW t \in Threads, post_stopped(t), stop_ = "yes"
  PROVE  IInv'
<1>0. Types /\ Located /\ Apart /\ Counted /\ Fates /\ Places /\ Phases
    BY DEF IInv
<1> USE DEF post_stopped, push, Unlocked, Goto, Return, flag_vars,
        call_vars, fate_vars
<1>a. arg[t] \in Called(t) /\ arg[t] \in Mine(t) /\ arg[t] \in work \ done /\ arg[t] \in Conts
      /\ arg[t] \notin held[t]
    BY <1>0 DEF Located, Mine, Called, Apart, Types
<1>b. queue' \in Seq(Conts) /\ Contents(queue)' = Contents(queue) \cup {arg[t]}
    BY <1>0, <1>a, Appended
<1>1. Types'
    BY <1>0, <1>a, <1>b DEF Types
<1>2. Mine(t)' = Mine(t) \ {arg[t]} /\ \A u \in Threads \ {t} : Mine(u)' = Mine(u)
    BY <1>0, <1>a, <1>b, SMTT(30) DEF Types, Mine, Called, Apart
<1>3. Located' /\ Counted'
    BY <1>0, <1>2, <1>a, <1>b, Pushes
<1>4. Apart'
    BY <1>0, <1>a, <1>b, SMTT(30) DEF Types, Apart, Called
<1>5. Fates'
    BY <1>0, <1>a, <1>b, SMTT(30) DEF Types, Fates, Located, Mine, Called
<1>6. Places'
    BY <1>0, <1>a, <1>b, Distinct, SMTT(30) DEF Types, Places
<1>c. own # "deleted"
  <2> SUFFICES ASSUME own = "deleted" PROVE FALSE
    OBVIOUS
  <2>1. \A u \in Clients : pc[u] = "idle"
    BY <1>0 DEF Phases, Destroying, ShuttingDown
  <2>2. \A w \in Workers : pc[w] = "idle"
    BY <1>0 DEF Phases, ShuttingDown, Destroying, Places
  <2>3. pc[Owner] = "idle"
    BY <1>0 DEF Places
  <2>4. pc[t] # "idle"
    OBVIOUS
  <2> QED BY <2>1, <2>2, <2>3, <2>4, Zenon DEF Threads
<1>7. Phases'
  <2>1. /\ pc' = [pc EXCEPT ![t] = "idle"]
        /\ UNCHANGED <<own, joined_, stop_, threads_, wpc, held, work, done, userStop>>
    OBVIOUS
  <2> HIDE DEF post_stopped
  <2> QED BY <1>0, <1>c, <2>1, SMTT(30) DEF Types, Phases, Joining, ShuttingDown, Destroying
<1> QED BY <1>1, <1>3, <1>4, <1>5, <1>6, <1>7, Zenon DEF IInv

\* A post to a pool that has yet to start.
LEMMA NotStoppedStep ==
  ASSUME IInv, NEW t \in Threads, post_stopped(t), stop_ # "yes"
  PROVE  IInv'
<1>0. Types /\ Located /\ Apart /\ Counted /\ Fates /\ Places /\ Phases
    BY DEF IInv
<1> USE DEF post_stopped, push, Unlocked, Goto, Return, flag_vars,
        call_vars, fate_vars
<1>q. Contents(queue)' = Contents(queue)
    BY SameQueue
<1>1. Types'
    BY <1>0 DEF Types
<1>2. \A u \in Threads : Mine(u)' = Mine(u)
    BY <1>0 DEF Types, Mine, Called, Apart
<1>3. Located' /\ Counted'
    BY <1>0, <1>2, Same
<1>4. Apart'
    BY <1>0 DEF Types, Apart, Called
<1>5. Fates'
    BY <1>0, <1>q, SMTT(30) DEF Types, Fates, Located, Mine, Called
<1>6. Places'
    BY <1>0, Distinct, SMTT(30) DEF Types, Places
<1>7. Phases'
    BY <1>0 DEF Types, Phases, Joining, ShuttingDown, Destroying, Places
<1> QED BY <1>1, <1>3, <1>4, <1>5, <1>6, <1>7, Zenon DEF IInv

\* The post queues its unit.
LEMMA PushStep ==
  ASSUME IInv, NEW t \in Threads, post_push(t)
  PROVE  IInv'
<1>0. Types /\ Located /\ Apart /\ Counted /\ Fates /\ Places /\ Phases
    BY DEF IInv
<1> USE DEF post_push, push, Unlocked, Goto, Return, flag_vars,
        call_vars, fate_vars
<1>a. arg[t] \in Called(t) /\ arg[t] \in Mine(t) /\ arg[t] \in work \ done /\ arg[t] \in Conts
      /\ arg[t] \notin held[t]
    BY <1>0 DEF Located, Mine, Called, Apart, Types
<1>b. queue' \in Seq(Conts) /\ Contents(queue)' = Contents(queue) \cup {arg[t]}
    BY <1>0, <1>a, Appended
<1>1. Types'
    BY <1>0, <1>a, <1>b, SMTT(30) DEF Types
<1>2. Mine(t)' = Mine(t) \ {arg[t]} /\ \A u \in Threads \ {t} : Mine(u)' = Mine(u)
    BY <1>0, <1>a, <1>b DEF Types, Mine, Called, Apart
<1>3. Located' /\ Counted'
    BY <1>0, <1>2, <1>a, <1>b, Pushes
<1>4. Apart'
    BY <1>0, <1>a, <1>b DEF Types, Apart, Called
<1>5. Fates'
    BY <1>0, <1>a, <1>b, SMTT(30) DEF Types, Fates, Located, Mine, Called
<1>6. Places'
    BY <1>0, <1>a, <1>b, SMTT(30) DEF Types, Places
<1>c. own # "deleted"
  <2> SUFFICES ASSUME own = "deleted" PROVE FALSE
    OBVIOUS
  <2>1. \A u \in Clients : pc[u] = "idle"
    BY <1>0 DEF Phases, Destroying, ShuttingDown
  <2>2. \A w \in Workers : pc[w] = "idle"
    BY <1>0 DEF Phases, ShuttingDown, Destroying, Places
  <2>3. pc[Owner] = "idle"
    BY <1>0 DEF Places
  <2>4. pc[t] # "idle"
    OBVIOUS
  <2> QED BY <2>1, <2>2, <2>3, <2>4, Zenon DEF Threads
<1>7. Phases'
    BY <1>0, <1>c, SMTT(30) DEF Types, Phases, Joining, ShuttingDown, Destroying, Places
<1> QED BY <1>1, <1>3, <1>4, <1>5, <1>6, <1>7, Zenon DEF IInv

\* ensure_started(), which may fail half way and gives the unit back.
LEMMA EnsureStep ==
  ASSUME IInv, NEW t \in Threads, ensure_started(t)
  PROVE  IInv'
<1>0. Types /\ Located /\ Apart /\ Counted /\ Fates /\ Places /\ Phases
    BY DEF IInv
<1> USE DEF ensure_started, StartThreads, Unlocked, Goto, Return,
        flag_vars, call_vars, fate_vars
<1>a. arg[t] \in Called(t) /\ arg[t] \in Mine(t) /\ arg[t] \in work \ done /\ arg[t] \in Conts
      /\ arg[t] \notin held[t]
    BY <1>0 DEF Located, Mine, Called, Apart, Types
<1>q. Contents(queue)' = Contents(queue)
    BY SameQueue
<1>1. Types'
    BY <1>0, <1>a, SMTT(30) DEF Types
<1>2. \A u \in Threads : Mine(u)' = Mine(u)
    BY <1>0, <1>a, SMTT(30) DEF Types, Mine, Called, Apart
<1>3. Located' /\ Counted'
    BY <1>0, <1>2, <1>a, Same
<1>4. Apart'
    BY <1>0, <1>a, SMTT(30) DEF Types, Apart, Called
<1>5. Fates'
    BY <1>0, <1>q, SMTT(30) DEF Types, Fates, Located, Mine, Called
<1>6. Places'
    BY <1>0, <1>a, Distinct, SMTT(30) DEF Types, Places
<1>7. Phases'
    BY <1>0, <1>a, Distinct DEF Types, Phases, Joining, ShuttingDown, Destroying, Places
<1> QED BY <1>1, <1>3, <1>4, <1>5, <1>6, <1>7, Zenon DEF IInv

\* dispatch() on a worker resumes in place.
LEMMA DispatchStep ==
  ASSUME IInv, NEW t \in Threads, NEW c \in Conts, t \in Workers, dispatch(t, c)
  PROVE  IInv'
<1>0. Types /\ Located /\ Apart /\ Counted /\ Fates /\ Places /\ Phases
    BY DEF IInv
<1> USE DEF dispatch, InCode, flag_vars, call_vars, fate_vars
<1>q. Contents(queue)' = Contents(queue)
    BY SameQueue
<1>1. Types'
    BY <1>0, SMTT(30) DEF Types
<1>2. \A u \in Threads : Mine(u)' = Mine(u)
    BY <1>0 DEF Types, Mine, Called, Apart
<1>3. Located' /\ Counted'
    BY <1>0, <1>2, Same
<1>4. Apart'
    BY <1>0 DEF Types, Apart, Called
<1>5. Fates'
    BY <1>0, <1>q, SMTT(30) DEF Types, Fates, Located, Mine, Called
<1>6. Places'
    BY <1>0, SMTT(30) DEF Types, Places
<1>7. Phases'
    BY <1>0, SMTT(30) DEF Types, Phases, Joining, ShuttingDown, Destroying, Places
<1> QED BY <1>1, <1>3, <1>4, <1>5, <1>6, <1>7, Zenon DEF IInv

\* A worker takes the first of the queue.
LEMMA RunTakesStep ==
  ASSUME IInv, NEW w \in Workers, run(w), stop_ = "no", queue # <<>>
  PROVE  IInv'
<1>0. Types /\ Located /\ Apart /\ Counted /\ Fates /\ Places /\ Phases
    BY DEF IInv
<1> USE DEF run, Unlocked, flag_vars, call_vars, fate_vars
<1>a. held[w] = {} /\ pc[w] = "idle" /\ w \in Threads
    BY <1>0, Distinct DEF Places, Types
<1>b. /\ queue' \in Seq(Conts) /\ Head(queue) \in Contents(queue) /\ Head(queue) \in Conts
      /\ Contents(queue)' = Contents(queue) \ {Head(queue)}
    BY <1>0, Popped
<1>1. Types'
  <2>1. wpc' = [wpc EXCEPT ![w] = "busy"] /\ held' = [held EXCEPT ![w] = {Head(queue)}]
        /\ ran' = ran \cup {Head(queue)}
        /\ UNCHANGED <<mutex_, stop_, joined_, userStop, threads_, own, pc, arg, work, done,
                       abandoned>>
    OBVIOUS
  <2> HIDE DEF run
  <2>2. wpc' \in [Workers -> {"unborn", "check", "asleep", "busy", "exited"}]
    BY <1>0, <2>1 DEF Types
  <2>3. held' \in [Threads -> SUBSET Conts]
    BY <1>0, <1>a, <1>b, <2>1 DEF Types
  <2> QED BY <1>0, <1>b, <2>1, <2>2, <2>3 DEF Types
<1>2. Mine(w)' = {Head(queue)} /\ Mine(w) = {} /\ \A u \in Threads \ {w} : Mine(u)' = Mine(u)
    BY <1>0, <1>a, <1>b DEF Types, Mine, Called, Apart
<1>3. Located' /\ Counted'
    BY <1>0, <1>2, <1>a, <1>b, Takes
<1>4. Apart'
    BY <1>0, <1>a, <1>b DEF Types, Apart, Called
<1>5. Fates'
    BY <1>0, <1>a, <1>b, SMTT(30) DEF Types, Fates, Located, Mine, Called
<1>6. Places'
    BY <1>0, <1>a, <1>b, Distinct, SMTT(30) DEF Types, Places
<1>7. Phases'
    BY <1>0, <1>a, <1>b DEF Types, Phases, Joining, ShuttingDown, Destroying, Places
<1> QED BY <1>1, <1>3, <1>4, <1>5, <1>6, <1>7, Zenon DEF IInv

\* A worker exits or sleeps.
LEMMA RunIdlesStep ==
  ASSUME IInv, NEW w \in Workers, run(w), stop_ = "yes" \/ queue = <<>>
  PROVE  IInv'
<1>0. Types /\ Located /\ Apart /\ Counted /\ Fates /\ Places /\ Phases
    BY DEF IInv
<1> USE DEF run, Unlocked, flag_vars, call_vars, fate_vars
<1>1. Types'
    BY <1>0 DEF Types
<1>2. Located' /\ Apart' /\ Counted' /\ Fates'
    BY <1>0, NotCalled
<1>3. Places'
    BY <1>0, SMTT(30) DEF Types, Places
<1>4. Phases'
    BY <1>0 DEF Types, Phases, Joining, ShuttingDown, Destroying, Places
<1> QED BY <1>1, <1>2, <1>3, <1>4, Zenon DEF IInv

\* A worker is back in its loop, or was woken.
LEMMA ReturnsStep ==
  ASSUME IInv, NEW w \in Workers, coroutine_returns(w) \/ spurious_wakeup(w)
  PROVE  IInv'
<1>0. Types /\ Located /\ Apart /\ Counted /\ Fates /\ Places /\ Phases
    BY DEF IInv
<1> USE DEF coroutine_returns, spurious_wakeup, flag_vars,
        call_vars, fate_vars
<1>1. Types'
    BY <1>0 DEF Types
<1>2. Located' /\ Apart' /\ Counted' /\ Fates'
    BY <1>0, NotCalled
<1>3. Places'
    BY <1>0, SMTT(30) DEF Types, Places
<1>4. Phases'
    BY <1>0, SMTT(30) DEF Types, Phases, Joining, ShuttingDown, Destroying, Places
<1> QED BY <1>1, <1>2, <1>3, <1>4, Zenon DEF IInv

\* stop().
LEMMA StopStep ==
  ASSUME IInv, NEW t \in Threads, stop(t)
  PROVE  IInv'
<1>0. Types /\ Located /\ Apart /\ Counted /\ Fates /\ Places /\ Phases
    BY DEF IInv
<1> USE DEF stop, InCode, Unlocked, WakeWorkers, WakeOwner,
        flag_vars, call_vars, fate_vars, quiet_vars
<1>1. Types'
    BY <1>0 DEF Types
<1>2. Located' /\ Apart' /\ Counted' /\ Fates'
    BY <1>0, NotCalled
<1>3. Places'
    BY <1>0 DEF Types, Places
<1>4. Phases'
    BY <1>0 DEF Types, Phases, Joining, ShuttingDown, Destroying, Places
<1> QED BY <1>1, <1>2, <1>3, <1>4, Zenon DEF IInv

\* join(), called by the owner or by the destructor.
LEMMA JoinStep ==
  ASSUME IInv,
         (own = "idle" /\ join("joining")) \/ (own = "djoin" /\ join("djoining"))
  PROVE  IInv'
<1>0. Types /\ Located /\ Apart /\ Counted /\ Fates /\ Places /\ Phases
    BY DEF IInv
<1> USE DEF join, Unlocked, WakeWorkers, flag_vars, call_vars,
        fate_vars, quiet_vars
<1>a. outstanding_work_ = 0 => work = done
    BY <1>0, Settled
<1>1. Types'
    BY <1>0, <1>a DEF Types
<1>2. Located' /\ Apart' /\ Counted' /\ Fates'
    BY <1>0, NotCalled
<1>3. Places'
    BY <1>0, <1>a, SMTT(30) DEF Types, Places
<1>4. Phases'
    BY <1>0, <1>a, SMTT(30) DEF Types, Phases, Joining, ShuttingDown, Destroying, Places
<1> QED BY <1>1, <1>2, <1>3, <1>4, Zenon DEF IInv

\* The wait for the work ends with stop_.
LEMMA WakesStep ==
  ASSUME IInv, join_wakes
  PROVE  IInv'
<1>0. Types /\ Located /\ Apart /\ Counted /\ Fates /\ Places /\ Phases
    BY DEF IInv
<1> USE DEF join_wakes, Unlocked, flag_vars, call_vars, fate_vars,
        quiet_vars
<1>1. Types'
    BY <1>0 DEF Types
<1>2. Located' /\ Apart' /\ Counted' /\ Fates'
    BY <1>0, NotCalled
<1>3. Places'
    BY <1>0 DEF Types, Places
<1>4. Phases'
    BY <1>0 DEF Types, Phases, Joining, ShuttingDown, Destroying, Places
<1> QED BY <1>1, <1>2, <1>3, <1>4, Zenon DEF IInv

\* The threads are joined.
LEMMA ThreadsStep ==
  ASSUME IInv, join_threads("joining", "joined") \/ join_threads("djoining", "shutdown")
  PROVE  IInv'
<1>0. Types /\ Located /\ Apart /\ Counted /\ Fates /\ Places /\ Phases
    BY DEF IInv
<1> USE DEF join_threads, flag_vars, call_vars, fate_vars,
        quiet_vars
<1>1. Types'
    BY <1>0 DEF Types
<1>2. Located' /\ Apart' /\ Counted' /\ Fates'
    BY <1>0, NotCalled
<1>3. Places'
    BY <1>0, SMTT(30) DEF Types, Places
<1>4. Phases'
    BY <1>0, SMTT(30) DEF Types, Phases, Joining, ShuttingDown, Destroying, Places
<1> QED BY <1>1, <1>2, <1>3, <1>4, Zenon DEF IInv

\* The destructor begins, with no client inside the pool but threads of services.
LEMMA DestroyStopStep ==
  ASSUME IInv, destroy_stop
  PROVE  IInv'
<1>0. Types /\ Located /\ Apart /\ Counted /\ Fates /\ Places /\ Phases
    BY DEF IInv
<1> USE DEF destroy_stop, Unlocked, WakeWorkers, flag_vars,
        call_vars, fate_vars, quiet_vars
<1>a. \A t \in Clients \ Services : pc[t] = "idle" /\ held[t] = {}
  <2>1. CASE own = "joined" /\ userStop = "no"
    <3>1. work \ done = {}
      BY <1>0, <2>1 DEF Phases, Joining, ShuttingDown, Destroying
    <3>2. \A t \in Threads : Mine(t) = {}
      BY <1>0, <3>1 DEF Located
    <3>3. \A t \in Threads : held[t] = {} /\ Called(t) = {}
      BY <3>2 DEF Mine
    <3>4. \A t \in Threads : pc[t] # "reread"
      BY <1>0, Distinct DEF Places
    <3> QED BY <1>0, <3>3, <3>4, Distinct DEF Called, Types
  <2> QED BY <2>1
<1>1. Types'
    BY <1>0, <1>a DEF Types
<1>2. Located' /\ Apart' /\ Counted' /\ Fates'
    BY <1>0, NotCalled
<1>3. Places'
    BY <1>0, <1>a DEF Types, Places
<1>4. Phases'
    BY <1>0, <1>a DEF Types, Phases, Joining, ShuttingDown, Destroying, Places
<1> QED BY <1>1, <1>2, <1>3, <1>4, Zenon DEF IInv

\* The destructor of a pool that was joined.
LEMMA JoinedStep ==
  ASSUME IInv, own = "djoin", Unlocked, joined_ = "yes", own' = "shutdown",
         UNCHANGED <<mutex_, queue, outstanding_work_, flag_vars, wpc, fate_vars, quiet_vars,
                     userStop>>
  PROVE  IInv'
<1>0. Types /\ Located /\ Apart /\ Counted /\ Fates /\ Places /\ Phases
    BY DEF IInv
<1> USE DEF Unlocked, flag_vars, call_vars, fate_vars, quiet_vars
<1>1. Types'
    BY <1>0 DEF Types
<1>2. Located' /\ Apart' /\ Counted' /\ Fates'
    BY <1>0, NotCalled
<1>3. Places'
    BY <1>0 DEF Types, Places
<1>4. Phases'
    BY <1>0 DEF Types, Phases, Joining, ShuttingDown, Destroying, Places
<1> QED BY <1>1, <1>2, <1>3, <1>4, Zenon DEF IInv

\* The destructor abandons the first of the queue.
LEMMA DrainStep ==
  ASSUME IInv, queue # <<>>,
         \/ drain_abandoned("drain1", "abandon1", "destroy")
         \/ drain_abandoned("drain2", "abandon2", "deleted")
  PROVE  IInv'
<1>0. Types /\ Located /\ Apart /\ Counted /\ Fates /\ Places /\ Phases
    BY DEF IInv
<1> USE DEF drain_abandoned, Unlocked, flag_vars, call_vars,
        fate_vars
<1>a. held[Owner] = {} /\ pc[Owner] = "idle" /\ Owner \in Threads
    BY <1>0, Distinct DEF Places, Types
<1>b. /\ queue' \in Seq(Conts) /\ Head(queue) \in Contents(queue) /\ Head(queue) \in Conts
      /\ Contents(queue)' = Contents(queue) \ {Head(queue)}
    BY <1>0, Popped
<1>c. /\ own \in {"drain1", "drain2"} /\ own' \in {"abandon1", "abandon2"}
      /\ held' = [held EXCEPT ![Owner] = {Head(queue)}]
      /\ abandoned' = abandoned \cup {Head(queue)}
      /\ UNCHANGED <<mutex_, stop_, joined_, threads_, wpc, pc, arg, work, done, ran, userStop>>
    OBVIOUS
<1>d. UNCHANGED outstanding_work_ /\ queue' = Tail(queue)
    OBVIOUS
<1>1. Types'
    BY <1>0, <1>a, <1>b, SMTT(30) DEF Types
<1>2. Mine(Owner)' = {Head(queue)} /\ Mine(Owner) = {}
      /\ \A u \in Threads \ {Owner} : Mine(u)' = Mine(u)
    BY <1>0, <1>a, <1>b, SMTT(30) DEF Types, Mine, Called, Apart
<1>3. Located' /\ Counted'
    BY <1>0, <1>2, <1>a, <1>b, Takes
<1>4. Apart'
    BY <1>0, <1>a, <1>b DEF Types, Apart, Called
<1>5. Fates'
  <2> HIDE DEF drain_abandoned
  <2>1. Head(queue) \in work /\ Head(queue) \notin ran
      BY <1>0, <1>b DEF Located, Fates
  <2>2. \A t \in Threads : pc[t] \in {"stopped?", "start", "push"} => arg[t] # Head(queue)
      BY <1>0, <1>b DEF Located, Mine, Called
  <2> QED BY <1>0, <1>b, <1>c, <2>1, <2>2, Zenon DEF Fates
<1>6. Places'
  <2> HIDE DEF drain_abandoned
  <2>1. \A t \in Threads \ {Owner} : held'[t] = held[t]
      BY <1>0, <1>c DEF Types
  <2> QED BY <1>0, <1>c, <2>1, Distinct DEF Places
<1>7. Phases'
    BY <1>0, <1>a, <1>b, Distinct, ZenonT(30) DEF Types, Phases, Joining, ShuttingDown, Destroying, Places
<1> QED BY <1>1, <1>3, <1>4, <1>5, <1>6, <1>7, Zenon DEF IInv

\* The destructor finds the queue empty.
LEMMA DrainedStep ==
  ASSUME IInv, queue = <<>>,
         \/ drain_abandoned("drain1", "abandon1", "destroy")
         \/ drain_abandoned("drain2", "abandon2", "deleted")
  PROVE  IInv'
<1>0. Types /\ Located /\ Apart /\ Counted /\ Fates /\ Places /\ Phases
    BY DEF IInv
<1> USE DEF drain_abandoned, Unlocked, flag_vars, call_vars,
        fate_vars
<1>1. Types'
    BY <1>0 DEF Types
<1>2. Located' /\ Apart' /\ Counted' /\ Fates'
    BY <1>0, NotCalled
<1>3. Places'
    BY <1>0, SMTT(30) DEF Types, Places
<1>4. Phases'
    BY <1>0 DEF Types, Phases, Joining, ShuttingDown, Destroying, Places
<1> QED BY <1>1, <1>2, <1>3, <1>4, Zenon DEF IInv

\* What the destructor has run returns.
LEMMA OwnerReturnsStep ==
  ASSUME IInv, NEW from, NEW to, owner_returns(from, to),
         <<from, to>> \in {<<"abandon1", "drain1">>,
                           <<"destroy", "drain2">>, <<"abandon2", "drain2">>}
  PROVE  IInv'
<1>0. Types /\ Located /\ Apart /\ Counted /\ Fates /\ Places /\ Phases
    BY DEF IInv
<1> USE DEF owner_returns, flag_vars, call_vars, fate_vars,
        quiet_vars
<1>1. Types'
    BY <1>0 DEF Types
<1>2. Located' /\ Apart' /\ Counted' /\ Fates'
    BY <1>0, NotCalled
<1>3. Places'
    BY <1>0 DEF Types, Places
<1>4. Phases'
    BY <1>0 DEF Types, Phases, Joining, ShuttingDown, Destroying, Places
<1> QED BY <1>1, <1>2, <1>3, <1>4, Zenon DEF IInv

\* The services' shutdown() returns, and their threads are out.
LEMMA ShutdownStep ==
  ASSUME IInv, shutdown_returns
  PROVE  IInv'
<1>0. Types /\ Located /\ Apart /\ Counted /\ Fates /\ Places /\ Phases
    BY DEF IInv
<1> USE DEF shutdown_returns, owner_returns, flag_vars, call_vars, fate_vars, quiet_vars
<1>1. Types'
    BY <1>0 DEF Types
<1>2. Located' /\ Apart' /\ Counted' /\ Fates'
    BY <1>0, NotCalled
<1>3. Places'
    BY <1>0 DEF Types, Places
<1>4. Phases'
    BY <1>0 DEF Types, Phases, Joining, ShuttingDown, Destroying, Places
<1> QED BY <1>1, <1>2, <1>3, <1>4, Zenon DEF IInv

-----------------------------------------------------------------------------
\* A new pool.
LEMMA Initially == Init => IInv
<1> SUFFICES ASSUME Init PROVE IInv
    OBVIOUS
<1> USE ThreadsAssumption DEF Init
<1>1. Types
    BY SMTT(30) DEF Types, Threads
<1>2. Contents(queue) = {}
    BY SMTT(30) DEF Contents
<1>3. Located /\ Apart /\ Fates
    BY <1>2, SMTT(30) DEF Located, Mine, Called, Apart, Fates
<1>4. Counted
  <2>1. work \ done = {} /\ outstanding_work_ = 0
    OBVIOUS
  <2> QED BY <2>1, NoneLeft, Zenon DEF Counted
<1>5. Places
    BY DEF Places, Threads
<1>6. Phases
    BY DEF Phases, Joining, ShuttingDown, Destroying
<1> QED BY <1>1, <1>3, <1>4, <1>5, <1>6 DEF IInv

\* Every step of the workers, the clients and the owner keeps the invariant.
LEMMA Inductive == IInv /\ [Next]_vars => IInv'
<1> SUFFICES ASSUME IInv, [Next]_vars PROVE IInv'
    OBVIOUS
<1>1. CASE UNCHANGED vars
  <2> USE <1>1 DEF vars, flag_vars, call_vars, fate_vars
  <2>1. Types'
    BY DEF IInv, Types
  <2>2. Located' /\ Counted'
    <3>1. \A t \in Threads : Mine(t)' = Mine(t)
      BY DEF Mine, Called
    <3> QED BY <3>1, Same DEF IInv
  <2>3. Apart' /\ Fates'
    BY DEF IInv, Apart, Fates, Called, Contents
  <2>4. Places' /\ Phases'
    BY DEF IInv, Places, Phases, Joining, ShuttingDown, Destroying
  <2> QED BY <2>1, <2>2, <2>3, <2>4 DEF IInv
<1>2. ASSUME NEW t \in Threads, NEW c \in Conts, on_work_started(t, c) \/ dispatch(t, c)
      PROVE  IInv'
    BY <1>2, StartedStep, DispatchStep, PostStep DEF dispatch
<1>3. ASSUME NEW t \in Threads, CallStep(t) \/ stop(t) PROVE IInv'
    BY <1>3, FinishedStep, CasStep, ReloadStep, SubStep, LoadStep, PostStep, StoppedStep,
       NotStoppedStep, EnsureStep, PushStep, StopStep DEF CallStep
<1>4. ASSUME NEW w \in Workers, WorkerStep(w) \/ spurious_wakeup(w) PROVE IInv'
  <2>1. CASE run(w)
    <3>1. stop_ = "yes" \/ queue = <<>> \/ (stop_ = "no" /\ queue # <<>>)
      BY <2>1 DEF run
    <3> QED BY <2>1, <3>1, RunTakesStep, RunIdlesStep
  <2> QED BY <1>4, <2>1, ReturnsStep DEF WorkerStep
<1>5. CASE join_call \/ destroy_stop
  <2>1. CASE join_call
    BY <2>1, JoinStep DEF join_call
  <2> QED BY <1>5, <2>1, DestroyStopStep
<1>6. CASE OwnerStep
  <2>1. CASE destroy_join
    BY <2>1, JoinStep, JoinedStep DEF destroy_join
  <2> QED BY <1>6, <2>1, WakesStep, ThreadsStep, ShutdownStep, DrainStep, DrainedStep,
          OwnerReturnsStep
          DEF OwnerStep
<1> QED BY <1>1, <1>2, <1>3, <1>4, <1>5, <1>6 DEF Next, Finished

\* The invariant holds throughout.
THEOREM Invariant == Spec => []IInv
    BY Initially, Inductive, PTL DEF Spec

\* After ~thread_pool() no thread is inside the pool and nothing is queued in it, for
\* any number of workers, clients and continuations.
THEOREM DestroyedIsQuiet == Spec => []NoUseAfterDelete
<1>1. IInv => NoUseAfterDelete
  <2> SUFFICES ASSUME IInv, own = "deleted" PROVE NoUseAfterDelete
    BY DEF NoUseAfterDelete
  <2>1. Types /\ Places /\ Phases
    BY DEF IInv
  <2>2. \A w \in Workers : wpc[w] \in {"unborn", "exited"}
    BY <2>1 DEF Places, Phases, Joining, ShuttingDown, Destroying
  <2>3. \A w \in Workers : pc[w] = "idle" /\ held[w] = {}
    BY <2>1, <2>2 DEF Places
  <2>4. \A t \in Clients : pc[t] = "idle" /\ held[t] = {}
    BY <2>1 DEF Phases, Destroying, ShuttingDown
  <2>5. pc[Owner] = "idle" /\ held[Owner] = {}
    BY <2>1 DEF Places
  <2>6. queue = <<>>
    BY <2>1 DEF Phases
  <2> QED BY <2>2, <2>3, <2>4, <2>5, <2>6 DEF NoUseAfterDelete, Threads
<1> QED BY Invariant, <1>1, PTL

\* A join() that nobody cuts short with stop() returns when all work has finished, and
\* no continuation is resumed or abandoned twice.
THEOREM JoinWaitsForWork == Spec => []WorkIsSettled
<1>1. IInv => WorkIsSettled
  <2> SUFFICES ASSUME IInv PROVE WorkIsSettled
    OBVIOUS
  <2>1. Fates /\ Located /\ Phases
    BY DEF IInv
  <2>2. own \in {"joining", "joined"} /\ userStop = "no" => work = done
    BY <2>1 DEF Phases, Joining, ShuttingDown, Destroying
  <2>3. ran \cap abandoned = {} /\ \A i, j \in DOMAIN queue : queue[i] = queue[j] => i = j
    BY <2>1 DEF Fates, Located
  <2>4. \A t \in Threads :
            pc[t] \in {"stopped?", "start", "push"} => arg[t] \notin ran \cup abandoned
    BY <2>1 DEF Fates
  <2>5. Contents(queue) \cap (ran \cup abandoned) = {}
    BY <2>1 DEF Fates
  <2> QED BY <2>2, <2>3, <2>4, <2>5 DEF WorkIsSettled
<1> QED BY Invariant, <1>1, PTL

=============================================================================
