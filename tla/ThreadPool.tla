----------------------------- MODULE ThreadPool -----------------------------
(***************************************************************************)
(* thread_pool: the shared queue, the lazily started workers, the count of *)
(* outstanding work, and the join(), stop() and destructor that end it.    *)
(*                                                                         *)
(* A critical section of mutex_ is one action, except where a lock-free    *)
(* on_work_started() can act in the middle of one: on_work_finished() holds*)
(* mutex_ over two actions.  Condition variables are modelled by who is    *)
(* asleep on them.  Every continuation is tracked work, as run_async()     *)
(* makes it: on_work_started() before it is posted, on_work_finished()     *)
(* when it has run, was given up, or could not be posted.                  *)
(***************************************************************************)
EXTENDS Naturals, Sequences

CONSTANTS
    Workers,    \* the num_threads_ threads of the pool
    Clients,    \* threads outside it that hold work on it
    Services,   \* those of them that the pool's services own
    Owner,      \* the thread that joins and destroys it
    Conts,      \* the continuations, each tracked as one unit of work
    None,
    MaxThrows   \* how often starting a thread may fail

Threads == Workers \cup Clients \cup {Owner}

ASSUME ThreadsAssumption ==
    /\ Workers \cap Clients = {} /\ Owner \notin Workers \cup Clients
    /\ None \notin Threads \cup Conts /\ Services \subseteq Clients
    /\ MaxThrows \in Nat

VARIABLES
    mutex_, queue, outstanding_work_, stop_, joined_, started_, threads_,
    wpc,            \* per worker: where run() is
    own,            \* where the owner's join() or ~thread_pool() is
    pc, arg, seen,  \* per thread: its call on the executor, and its locals
    held,           \* per thread: the work it answers for
    work, done,     \* work ever started, and finished
    ran, abandoned, \* what became of each continuation
    userStop,       \* has anyone called stop()?
    throws

flag_vars == <<stop_, joined_, started_, threads_>>
call_vars == <<pc, arg, seen>>
fate_vars == <<ran, abandoned>>
vars == <<mutex_, queue, outstanding_work_, flag_vars, wpc, own, call_vars,
          held, work, done, fate_vars, userStop, throws>>

Contents(s) == {s[i] : i \in DOMAIN s}

Init ==
    /\ mutex_ = None /\ queue = <<>> /\ outstanding_work_ = 0
    /\ stop_ = "no" /\ joined_ = "no" /\ started_ = "no" /\ threads_ = {}
    /\ wpc = [w \in Workers |-> "unborn"] /\ own = "idle"
    /\ pc = [t \in Threads |-> "idle"] /\ arg = [t \in Threads |-> None]
    /\ seen = [t \in Threads |-> 0] /\ held = [t \in Threads |-> {}]
    /\ work = {} /\ done = {} /\ ran = {} /\ abandoned = {}
    /\ userStop = "no" /\ throws = 0

-----------------------------------------------------------------------------
Unlocked == mutex_ = None

\* t is between two calls, in code that may use the pool's executor.
InCode(t) ==
    /\ pc[t] = "idle"
    /\ \/ t \in Clients
       \/ t \in Workers /\ wpc[t] = "busy"
       \/ t = Owner /\ own \in {"shutdown", "abandon1", "destroy", "abandon2"}

Goto(t, l) == pc' = [pc EXCEPT ![t] = l]

Return(t) == Goto(t, "idle") /\ arg' = [arg EXCEPT ![t] = None]

\* notify_all on a condition variable: its sleepers look again.
WakeWorkers == wpc' = [w \in Workers |-> IF wpc[w] = "asleep" THEN "check" ELSE wpc[w]]
WakeOwner == own' = IF own = "asleep" THEN "check" ELSE own

-----------------------------------------------------------------------------
(* Work counting.                                                          *)

\* New work comes from a thread that already holds some, from anyone while the pool
\* is not being joined, from a service that is shut down or destroyed, and from a
\* service's thread in the destructor until shutdown() returns.
on_work_started(t, c) ==
    /\ InCode(t) /\ c \notin work
    /\ \/ held[t] # {} \/ (t \in Clients /\ own = "idle")
       \/ t = Owner /\ own \in {"shutdown", "destroy"}
       \/ t \in Services /\ own \in {"djoin", "djoining", "shutdown"}
    /\ outstanding_work_' = outstanding_work_ + 1
    /\ work' = work \cup {c} /\ held' = [held EXCEPT ![t] = @ \cup {c}]
    /\ UNCHANGED <<mutex_, queue, flag_vars, wpc, own, call_vars, done,
                   fate_vars, userStop, throws>>

\* Where on_work_finished() goes after reading n.
AfterLoad(n) == IF n > 1 THEN "cas" ELSE "finish"

\* on_work_finished() loads the count.
on_work_finished(t, c) ==
    /\ InCode(t) /\ c \in held[t]
    /\ held' = [held EXCEPT ![t] = @ \ {c}] /\ arg' = [arg EXCEPT ![t] = c]
    /\ seen' = [seen EXCEPT ![t] = outstanding_work_]
    /\ Goto(t, AfterLoad(outstanding_work_))
    /\ UNCHANGED <<mutex_, queue, outstanding_work_, flag_vars, wpc, own, work,
                   done, fate_vars, userStop, throws>>

\* Mutant: the last release is made without the mutex, which is taken after.
finish_cas_always(t) ==
    /\ pc[t] \in {"cas", "finish"}
    /\ outstanding_work_' = outstanding_work_ - 1
    /\ done' = done \cup {arg[t]}
    /\ Goto(t, "reread") /\ UNCHANGED <<arg, seen>>
    /\ UNCHANGED <<mutex_, queue, flag_vars, wpc, own, held, work,
                   fate_vars, userStop, throws>>

\* compare_exchange(n, n - 1): a failure reloads n.
finish_cas(t) ==
    /\ pc[t] = "cas"
    /\ IF outstanding_work_ = seen[t]
       THEN /\ outstanding_work_' = outstanding_work_ - 1
            /\ done' = done \cup {arg[t]}
            /\ Return(t) /\ UNCHANGED seen
       ELSE /\ seen' = [seen EXCEPT ![t] = outstanding_work_]
            /\ Goto(t, AfterLoad(outstanding_work_))
            /\ UNCHANGED <<outstanding_work_, done, arg>>
    /\ UNCHANGED <<mutex_, queue, flag_vars, wpc, own, held, work,
                   fate_vars, userStop, throws>>

\* The release that may be the last: fetch_sub under mutex_.
finish_sub(t) ==
    /\ pc[t] = "finish" /\ Unlocked
    /\ mutex_' = t
    /\ outstanding_work_' = outstanding_work_ - 1 /\ done' = done \cup {arg[t]}
    /\ Goto(t, "reread")
    /\ UNCHANGED <<queue, flag_vars, wpc, own, arg, seen, held, work,
                   fate_vars, userStop, throws>>

\* Mutant: the workers are told to stop, the joining thread is not.
finish_load_keeps_joiner(t) ==
    /\ pc[t] = "reread" /\ mutex_' = None /\ Return(t)
    /\ IF outstanding_work_ = 0 /\ joined_ = "yes" /\ stop_ = "no"
       THEN stop_' = "yes" /\ WakeWorkers
       ELSE UNCHANGED <<stop_, wpc>>
    /\ UNCHANGED <<queue, outstanding_work_, joined_, started_, threads_, own,
                   seen, held, work, done, fate_vars, userStop, throws>>

\* Mutant: the count is not read again.
finish_load_unjoined(t) ==
    /\ pc[t] = "reread" /\ mutex_' = None /\ Return(t)
    /\ IF joined_ = "yes" /\ stop_ = "no"
       THEN stop_' = "yes" /\ WakeWorkers /\ WakeOwner
       ELSE UNCHANGED <<stop_, wpc, own>>
    /\ UNCHANGED <<queue, outstanding_work_, joined_, started_, threads_,
                   seen, held, work, done, fate_vars, userStop, throws>>

\* The count is read again: an on_work_started() may have raised it.
finish_load(t) ==
    /\ pc[t] = "reread" /\ mutex_' = None /\ Return(t)
    /\ IF outstanding_work_ = 0 /\ joined_ = "yes" /\ stop_ = "no"
       THEN stop_' = "yes" /\ WakeWorkers /\ WakeOwner
       ELSE UNCHANGED <<stop_, wpc, own>>
    /\ UNCHANGED <<queue, outstanding_work_, joined_, started_, threads_,
                   seen, held, work, done, fate_vars, userStop, throws>>

-----------------------------------------------------------------------------
(* post().                                                                 *)

push(c) == queue' = Append(queue, c)

\* A post begins with the load of started_, outside the mutex.
post(t, c) ==
    /\ InCode(t) /\ c \in held[t] \ (ran \cup abandoned)
    /\ held' = [held EXCEPT ![t] = @ \ {c}] /\ arg' = [arg EXCEPT ![t] = c]
    /\ Goto(t, IF started_ = "yes" THEN "push" ELSE "stopped?")
    /\ UNCHANGED <<mutex_, queue, outstanding_work_, flag_vars, wpc, own, seen,
                   work, done, fate_vars, userStop, throws>>

\* "Stopped before any thread started": the destructor will abandon it.
post_stopped(t) ==
    /\ pc[t] = "stopped?" /\ Unlocked
    /\ IF stop_ = "yes"
       THEN push(arg[t]) /\ Return(t)
       ELSE Goto(t, "start") /\ UNCHANGED <<queue, arg>>
    /\ UNCHANGED <<mutex_, outstanding_work_, flag_vars, wpc, own, seen, held,
                   work, done, fate_vars, userStop, throws>>

StartThreads(S) ==
    /\ threads_' = S
    /\ wpc' = [w \in Workers |-> IF w \in S \ threads_ THEN "check" ELSE wpc[w]]

\* ensure_started() starts the missing threads, or some of them and throws,
\* which leaves the caller of post() with its continuation.
ensure_started(t) ==
    /\ pc[t] = "start" /\ Unlocked
    /\ \/ /\ started_ = "yes" \/ stop_ = "yes"
          /\ Goto(t, "push")
          /\ UNCHANGED <<started_, threads_, wpc, arg, held, throws>>
       \/ /\ started_ = "no" /\ stop_ = "no"
          /\ StartThreads(Workers) /\ started_' = "yes"
          /\ Goto(t, "push")
          /\ UNCHANGED <<arg, held, throws>>
       \/ /\ started_ = "no" /\ stop_ = "no" /\ throws < MaxThrows
          /\ \E S \in SUBSET Workers :
                 threads_ \subseteq S /\ S # Workers /\ StartThreads(S)
          /\ throws' = throws + 1 /\ Return(t)
          /\ held' = [held EXCEPT ![t] = @ \cup {arg[t]}]
          /\ UNCHANGED started_
    /\ UNCHANGED <<mutex_, queue, outstanding_work_, stop_, joined_, own, seen,
                   work, done, fate_vars, userStop>>

\* The push and the notify_one are one critical section.
post_push(t) ==
    /\ pc[t] = "push" /\ Unlocked
    /\ push(arg[t]) /\ Return(t)
    /\ \/ \E w \in Workers :
              wpc[w] = "asleep" /\ wpc' = [wpc EXCEPT ![w] = "check"]
       \/ (\A w \in Workers : wpc[w] # "asleep") /\ UNCHANGED wpc
    /\ UNCHANGED <<mutex_, outstanding_work_, flag_vars, own, seen, held,
                   work, done, fate_vars, userStop, throws>>

\* dispatch() on a worker of this pool resumes c in place; elsewhere it posts.
dispatch(t, c) ==
    \/ /\ t \in Workers /\ InCode(t) /\ c \in held[t] \ (ran \cup abandoned)
       /\ ran' = ran \cup {c}
       /\ UNCHANGED <<mutex_, queue, outstanding_work_, flag_vars, wpc, own,
                      call_vars, held, work, done, abandoned, userStop, throws>>
    \/ t \notin Workers /\ post(t, c)

-----------------------------------------------------------------------------
(* The worker's run().                                                     *)

\* One turn of the loop up to the resume: exit, sleep, or take and resume.
run(w) ==
    /\ wpc[w] = "check" /\ Unlocked
    /\ \/ /\ stop_ = "yes" /\ wpc' = [wpc EXCEPT ![w] = "exited"]
          /\ UNCHANGED <<queue, held, ran>>
       \/ /\ stop_ = "no" /\ queue # <<>>
          /\ wpc' = [wpc EXCEPT ![w] = "busy"] /\ queue' = Tail(queue)
          /\ held' = [held EXCEPT ![w] = {Head(queue)}]
          /\ ran' = ran \cup {Head(queue)}
       \/ /\ stop_ = "no" /\ queue = <<>> /\ wpc' = [wpc EXCEPT ![w] = "asleep"]
          /\ UNCHANGED <<queue, held, ran>>
    /\ UNCHANGED <<mutex_, outstanding_work_, flag_vars, own, call_vars, work,
                   done, abandoned, userStop, throws>>

\* The coroutine has finished or handed on its work; run() loops.
coroutine_returns(w) ==
    /\ wpc[w] = "busy" /\ pc[w] = "idle" /\ held[w] = {}
    /\ wpc' = [wpc EXCEPT ![w] = "check"]
    /\ UNCHANGED <<mutex_, queue, outstanding_work_, flag_vars, own, call_vars,
                   held, work, done, fate_vars, userStop, throws>>

spurious_wakeup(w) ==
    /\ wpc[w] = "asleep" /\ wpc' = [wpc EXCEPT ![w] = "check"]
    /\ UNCHANGED <<mutex_, queue, outstanding_work_, flag_vars, own, call_vars,
                   held, work, done, fate_vars, userStop, throws>>

-----------------------------------------------------------------------------
(* join(), stop() and the destructor.                                      *)

quiet_vars == <<call_vars, held, work, done, throws>>

\* stop(), from a worker or from a thread that knows the pool to be alive.
stop(t) ==
    /\ InCode(t) /\ t # Owner /\ Unlocked
    /\ own \in {"idle", "asleep", "check"} \/ t \in Workers
    /\ stop_' = "yes" /\ userStop' = "yes" /\ WakeWorkers /\ WakeOwner
    /\ UNCHANGED <<mutex_, queue, outstanding_work_, joined_, started_, threads_,
                   fate_vars, quiet_vars>>

\* join()'s first critical section; the owner goes on at l, to the threads.
join(l) ==
    /\ Unlocked /\ joined_ = "no" /\ joined_' = "yes"
    /\ IF outstanding_work_ = 0
       THEN stop_' = "yes" /\ WakeWorkers /\ own' = l
       ELSE /\ own' = (IF stop_ = "yes" THEN l ELSE "asleep")
            /\ UNCHANGED <<stop_, wpc>>
    /\ UNCHANGED <<mutex_, queue, outstanding_work_, started_, threads_,
                   fate_vars, quiet_vars, userStop>>

join_call == own = "idle" /\ join("joining")

\* The wait on done_cv_ ends when stop_ is set.
join_wakes ==
    /\ own = "check" /\ Unlocked
    /\ own' = (IF stop_ = "yes" THEN "joining" ELSE "asleep")
    /\ UNCHANGED <<mutex_, queue, outstanding_work_, flag_vars, wpc, fate_vars,
                   quiet_vars, userStop>>

\* The loop over threads_, which reads the vector without the mutex.
join_threads(from, to) ==
    /\ own = from /\ \A w \in threads_ : wpc[w] = "exited"
    /\ own' = to
    /\ UNCHANGED <<mutex_, queue, outstanding_work_, flag_vars, wpc, fate_vars,
                   quiet_vars, userStop>>

\* ~thread_pool() begins with stop().  Its precondition is that no thread outside the
\* pool and its services uses it, which a join() that ran out of work ensures.
destroy_stop ==
    /\ own \in {"idle", "joined"} /\ Unlocked
    /\ \/ own = "joined" /\ userStop = "no"
       \/ \A t \in Clients \ Services : pc[t] = "idle" /\ held[t] = {}
    /\ stop_' = "yes" /\ WakeWorkers /\ own' = "djoin"
    /\ UNCHANGED <<mutex_, queue, outstanding_work_, joined_, started_, threads_,
                   fate_vars, quiet_vars, userStop>>

\* Its join() returns at once when the pool has been joined.
destroy_join ==
    /\ own = "djoin"
    /\ \/ join("djoining")
       \/ /\ Unlocked /\ joined_ = "yes" /\ own' = "shutdown"
          /\ UNCHANGED <<mutex_, queue, outstanding_work_, flag_vars, wpc,
                         fate_vars, quiet_vars, userStop>>

\* The unwound chain, or the services' shutdown() or destructors, did what it had to.
owner_returns(from, to) ==
    /\ own = from /\ pc[Owner] = "idle" /\ held[Owner] = {}
    /\ own' = to
    /\ UNCHANGED <<mutex_, queue, outstanding_work_, flag_vars, wpc, fate_vars,
                   quiet_vars, userStop>>

\* shutdown() of the services returns when their threads have left the pool.
shutdown_returns ==
    /\ owner_returns("shutdown", "drain1")
    /\ \A t \in Services : pc[t] = "idle" /\ held[t] = {}

\* drain_abandoned() takes one continuation under the mutex and abandons it
\* outside; on an empty queue the destructor goes on to `to`.
drain_abandoned(from, abandon, to) ==
    /\ own = from /\ Unlocked
    /\ IF queue = <<>>
       THEN own' = to /\ UNCHANGED <<queue, held, abandoned>>
       ELSE /\ own' = abandon /\ queue' = Tail(queue)
            /\ held' = [held EXCEPT ![Owner] = {Head(queue)}]
            /\ abandoned' = abandoned \cup {Head(queue)}
    /\ UNCHANGED <<mutex_, outstanding_work_, flag_vars, wpc, call_vars, work,
                   done, ran, userStop, throws>>

OwnerStep ==
    \/ join_wakes \/ join_threads("joining", "joined")
    \/ destroy_join \/ join_threads("djoining", "shutdown") \/ shutdown_returns
    \/ drain_abandoned("drain1", "abandon1", "destroy")
    \/ owner_returns("abandon1", "drain1")
    \/ owner_returns("destroy", "drain2")
    \/ drain_abandoned("drain2", "abandon2", "deleted")
    \/ owner_returns("abandon2", "drain2")

-----------------------------------------------------------------------------
CallStep(t) ==
    \/ finish_cas(t) \/ finish_sub(t) \/ finish_load(t)
    \/ post_stopped(t) \/ ensure_started(t) \/ post_push(t)
    \/ \E c \in Conts : on_work_finished(t, c) \/ post(t, c)

WorkerStep(w) == run(w) \/ coroutine_returns(w)

Finished == own = "deleted" /\ UNCHANGED vars

Next ==
    \/ \E t \in Threads, c \in Conts : on_work_started(t, c) \/ dispatch(t, c)
    \/ \E t \in Threads : CallStep(t) \/ stop(t)
    \/ \E w \in Workers : WorkerStep(w) \/ spurious_wakeup(w)
    \/ join_call \/ destroy_stop \/ OwnerStep
    \/ Finished

Spec == Init /\ [][Next]_vars

\* Threads are scheduled, and whoever holds work finishes it or posts it.
\* Nobody is obliged to start work, to stop, to join or to destroy.
FairSpec ==
    /\ Spec
    /\ \A t \in Threads : WF_vars(CallStep(t))
    /\ \A w \in Workers : WF_vars(WorkerStep(w))
    /\ WF_vars(OwnerStep)

-----------------------------------------------------------------------------
(* Properties.                                                             *)

\* After the destructor nothing is inside the pool: no call of any thread, no
\* worker (join() reads threads_ without the mutex, so none may start behind
\* it), no queued work.  The hard case is the thread whose on_work_finished()
\* releases the join() that lets the pool be destroyed.
NoUseAfterDelete ==
    own = "deleted" =>
        /\ \A t \in Threads : pc[t] = "idle" /\ held[t] = {}
        /\ \A w \in Workers : wpc[w] \in {"unborn", "exited"}
        /\ queue = <<>>

\* Work is settled once, and join() waits for it.  Each continuation is resumed or
\* abandoned, not both, and neither while it is still queued or being posted; and when
\* join() is past its wait and nobody called stop(), all work ever started has finished.
WorkIsSettled ==
    LET posted == Contents(queue) \cup
                  {arg[t] : t \in {u \in Threads :
                       pc[u] \in {"stopped?", "start", "push"}}}
    IN  /\ ran \cap abandoned = {} /\ posted \cap (ran \cup abandoned) = {}
        /\ \A i, j \in DOMAIN queue : queue[i] = queue[j] => i = j
        /\ own \in {"joining", "joined"} /\ userStop = "no" => work = done

\* No waiting is in vain.  A join() returns: when every holder of work finishes or posts it, when a
\* stop() cuts it short, and when the threads it needs are started only after
\* the pool was joined.  Queued work is taken by a worker unless the pool stops.
PoolMovesOn ==
    /\ joined_ = "yes" ~> own \notin {"asleep", "check", "joining", "djoining"}
    /\ \A c \in Conts : (c \in Contents(queue)) ~> (c \in ran \/ stop_ = "yes")

=============================================================================
