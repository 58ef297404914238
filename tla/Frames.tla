------------------------------- MODULE Frames -------------------------------
(***************************************************************************)
(* The frames of coroutine chains, the memory resources they come from,    *)
(* and the results they hand up.  A chain is the task or quitter that      *)
(* run_async() launched and those it awaits, directly or through run();    *)
(* the deepest one has the control.                                        *)
(*                                                                         *)
(* A frame is allocated from the resource that the thread's frame          *)
(* allocator names when the coroutine is created, and freed through the    *)
(* one it came from.  Nobody passes the allocator along: each coroutine    *)
(* sets it from its environment whenever it gets the control, and whoever  *)
(* lends the thread to a coroutine puts it back afterwards.                *)
(*                                                                         *)
(* A thread is a stack of levels: an executor's loop or a call of          *)
(* run_async() that lent it to a chain.  A level ends when that chain      *)
(* suspends or is over.                                                    *)
(***************************************************************************)
EXTENDS Naturals, FiniteSets

CONSTANTS
    Threads, Chains,
    Owning,      \* chains launched with an allocator of their own
    MaxDepth,    \* bound: coroutines nested in a chain
    MaxLevels,   \* bound: levels of a thread
    MaxOps,      \* bound: operations of all chains
    Nil

Depths == 1 .. MaxDepth
Levels == 1 .. MaxLevels

ASSUME FramesAssumption ==
    /\ MaxDepth \in Nat \ {0} /\ MaxLevels \in Nat \ {0} /\ MaxOps \in Nat
    /\ Owning \subseteq Chains

\* The memory resources: the context's, which outlives all chains, one in each
\* trampoline, and those in the wrapper and in the awaitable of each run().
Context == <<"context", 0, 0>>
Trampoline(c) == <<"trampoline", c, 0>>
Wrapper(c, d) == <<"wrapper", c, d>>
Awaitable(c, d) == <<"awaitable", c, d>>

VARIABLES
    tls,      \* each thread's current frame allocator, or Nil
    level,    \* the levels of each thread: the chain, and the allocator to put back
    top,      \* how many they are
    frame,    \* the frames of each chain: kind, mr, env's allocator, via
    depth,    \* how many they are
    st,       \* each chain: "new", "running", "start", "waiting", "back", "over"
    exc,      \* the exception its deepest coroutine has to deal with: "none",
              \* "error", or the "sentinel" of a stop
    stop,     \* the chains whose stop token was triggered
    doomed,   \* those whose first coroutine is a quitter that was suspended then
    late,     \* operations begun after the stop by chains of quitters only
    handled,  \* what run_async()'s handlers got
    ops

thread_vars == <<tls, level, top>>
stop_vars == <<stop, doomed, late>>
vars == <<thread_vars, frame, depth, st, exc, stop_vars, handled, ops>>

Init ==
    /\ tls = [t \in Threads |-> Nil] /\ top = [t \in Threads |-> 0]
    /\ level = [t \in Threads |-> [i \in Levels |-> Nil]]
    /\ frame = [c \in Chains |-> [d \in Depths |-> Nil]] /\ depth = [c \in Chains |-> 0]
    /\ st = [c \in Chains |-> "new"] /\ exc = [c \in Chains |-> "none"]
    /\ stop = {} /\ doomed = {} /\ late = [c \in Chains |-> 0]
    /\ handled = [c \in Chains |-> "no"] /\ ops = 0

-----------------------------------------------------------------------------
\* Chain c has the control of thread t.
On(t, c) == top[t] > 0 /\ level[t][top[t]].ch = c
Op == ops < MaxOps /\ ops' = ops + 1
Deepest(c) == frame[c][depth[c]]
AllQuitters(c) == \A d \in 1 .. depth[c] : frame[c][d].kind = "quitter"

\* A level begins: the thread is lent to c.
Lend(t, c) ==
    /\ top[t] < MaxLevels /\ top' = [top EXCEPT ![t] = @ + 1]
    /\ level' = [level EXCEPT ![t][top[t] + 1] = [ch |-> c, saved |-> tls[t]]]

\* Mutant: the executor's loop resumes without saving the allocator.
Suspend_unrestored(t) ==
    /\ top' = [top EXCEPT ![t] = @ - 1] /\ level' = [level EXCEPT ![t][top[t]] = Nil]
    /\ UNCHANGED tls

\* It ends: safe_resume() or ~run_async_wrapper puts the allocator back.
Suspend(t) ==
    /\ top' = [top EXCEPT ![t] = @ - 1] /\ level' = [level EXCEPT ![t][top[t]] = Nil]
    /\ tls' = [tls EXCEPT ![t] = level[t][top[t]].saved]

\* A quitter that gets the control finds the stop token triggered.
Quits(c, f) == f.kind = "quitter" /\ c \in stop

\* Mutant: the result of what a quitter waited for comes before the stop.
Resumed_result_first(t, c, f, x) ==
    /\ tls' = [tls EXCEPT ![t] = f.env]
    /\ exc' = [exc EXCEPT ![c] = IF x = "none" /\ Quits(c, f) THEN "sentinel" ELSE x]

\* The coroutine with frame f gets the control, with x to deal with: await_resume()
\* of its initial suspend point or of the awaiter that it waited with.
Resumed(t, c, f, x) ==
    /\ tls' = [tls EXCEPT ![t] = f.env]
    /\ exc' = [exc EXCEPT ![c] = IF Quits(c, f) THEN "sentinel" ELSE x]

\* A child of c's deepest coroutine is made and awaited.
Push(c, f) ==
    /\ depth[c] < MaxDepth /\ depth' = [depth EXCEPT ![c] = @ + 1]
    /\ frame' = [frame EXCEPT ![c][depth[c] + 1] = f]

\* c's deepest frame is destroyed.
Pop(c) ==
    /\ depth' = [depth EXCEPT ![c] = @ - 1]
    /\ frame' = [frame EXCEPT ![c][depth[c]] = Nil]

Goto(c, l) == st' = [st EXCEPT ![c] = l]

-----------------------------------------------------------------------------
(* Launching.                                                              *)

\* The resource that run_async() installs: the one in its trampoline, around the
\* allocator it was given, or the context's.
get_resource(c) == IF c \in Owning THEN Trampoline(c) ELSE Context

Root(c, k) == [kind |-> k, mr |-> get_resource(c), env |-> get_resource(c), via |-> "run_async"]

Made(c, k) ==
    /\ st[c] = "new"
    /\ frame' = [frame EXCEPT ![c][1] = Root(c, k)] /\ depth' = [depth EXCEPT ![c] = 1]
    /\ doomed' = IF k = "quitter" /\ c \in stop THEN doomed \cup {c} ELSE doomed

\* run_async(ex)(task()): the wrapper installs the resource, the task is made, and
\* dispatch() resumes it at once.
run_async_inline(t, c, k) ==
    /\ Made(c, k) /\ Lend(t, c) /\ Goto(c, "running") /\ Resumed(t, c, Root(c, k), "none")
    /\ UNCHANGED <<stop, late, handled, ops>>

\* Or it is queued, and the wrapper puts the allocator back.
run_async_posted(t, c, k) ==
    /\ Made(c, k) /\ Goto(c, "start")
    /\ UNCHANGED <<thread_vars, exc, stop, late, handled, ops>>

\* Making the task or dispatch() throws: ~run_async_wrapper destroys the trampoline,
\* with the task if there is one, and puts the allocator back.
run_async_throws(t, c) ==
    /\ st[c] = "new" /\ Goto(c, "over")
    /\ UNCHANGED <<thread_vars, frame, depth, exc, stop_vars, handled, ops>>

-----------------------------------------------------------------------------
(* A coroutine's body.                                                     *)

\* It runs, with no exception on its way.
Body(t, c) == On(t, c) /\ exc[c] = "none"

\* co_await child(): a child in the same environment.
call(t, c, k) ==
    LET f == [kind |-> k, mr |-> tls[t], env |-> Deepest(c).env, via |-> "call"] IN
    /\ Body(t, c) /\ Op /\ Push(c, f) /\ Resumed(t, c, f, "none")
    /\ UNCHANGED <<level, top, st, stop_vars, handled>>

\* The child of run(alloc): its frame comes from the wrapper's resource, and its
\* environment names the awaitable's.
RunChild(c, k, v) ==
    [kind |-> k, mr |-> Wrapper(c, depth[c] + 1), env |-> Awaitable(c, depth[c] + 1), via |-> v]

\* co_await run(alloc)(child()): on the same executor.
run(t, c, k) ==
    /\ Body(t, c) /\ Op /\ Push(c, RunChild(c, k, "run"))
    /\ Resumed(t, c, RunChild(c, k, "run"), "none")
    /\ UNCHANGED <<level, top, st, stop_vars, handled>>

\* co_await run(ex, alloc)(child()): the child is posted and the chain suspends.
run_ex(t, c, k) ==
    /\ Body(t, c) /\ Op /\ Push(c, RunChild(c, k, "run_ex")) /\ Goto(c, "start") /\ Suspend(t)
    /\ UNCHANGED <<exc, stop_vars, handled>>

\* Mutant: ~run_wrapper does not put the allocator back when the argument threw.
run_throws_leaks(t, c) ==
    /\ Body(t, c) /\ Op /\ exc' = [exc EXCEPT ![c] = "error"]
    /\ tls' = [tls EXCEPT ![t] = Wrapper(c, depth[c] + 1)]
    /\ UNCHANGED <<level, top, frame, depth, st, stop_vars, handled>>

\* The argument of run(alloc) throws: ~run_wrapper puts the allocator back, and the
\* body has an exception.
run_throws(t, c) ==
    /\ Body(t, c) /\ Op /\ exc' = [exc EXCEPT ![c] = "error"]
    /\ UNCHANGED <<thread_vars, frame, depth, st, stop_vars, handled>>

\* It waits for an operation, which holds its continuation.
wait(t, c) ==
    /\ Body(t, c) /\ Op /\ Goto(c, "waiting") /\ Suspend(t)
    /\ late' = IF c \in stop /\ AllQuitters(c) THEN [late EXCEPT ![c] = @ + 1] ELSE late
    /\ UNCHANGED <<frame, depth, exc, stop, doomed, handled>>

\* It throws; it catches.  A quitter's body does not catch the sentinel.
throw(t, c) ==
    /\ Body(t, c) /\ Op /\ exc' = [exc EXCEPT ![c] = "error"]
    /\ UNCHANGED <<thread_vars, frame, depth, st, stop_vars, handled>>

catch(t, c) ==
    /\ On(t, c)
    /\ \/ exc[c] = "error"
       \/ exc[c] = "sentinel" /\ Deepest(c).kind = "task"
    /\ exc' = [exc EXCEPT ![c] = "none"]
    /\ UNCHANGED <<thread_vars, frame, depth, st, stop_vars, handled, ops>>

-----------------------------------------------------------------------------
(* A coroutine ends: it returned (exc is "none") or unhandled_exception()  *)
(* keeps what its body let out.                                            *)

\* The child of a direct await or of run(): the parent goes on, takes the result or
\* rethrows the exception, and destroys the child.
end_child(t, c) ==
    /\ On(t, c) /\ depth[c] > 1 /\ Deepest(c).via \in {"call", "run"}
    /\ Pop(c) /\ Resumed(t, c, frame[c][depth[c] - 1], exc[c])
    /\ UNCHANGED <<level, top, st, stop_vars, handled, ops>>

\* The child of run(ex): its trampoline posts the parent.
end_run_ex(t, c) ==
    /\ On(t, c) /\ Deepest(c).via = "run_ex" /\ Goto(c, "back") /\ Suspend(t)
    /\ UNCHANGED <<frame, depth, exc, stop_vars, handled, ops>>

\* The first coroutine of the chain: the trampoline calls the handlers with its value
\* or its exception, destroys it and ends.
end_chain(t, c) ==
    /\ On(t, c) /\ depth[c] = 1 /\ Pop(c) /\ Goto(c, "over") /\ Suspend(t)
    /\ handled' = [handled EXCEPT ![c] = IF exc[c] = "none" THEN "value" ELSE exc[c]]
    /\ exc' = [exc EXCEPT ![c] = "none"]
    /\ UNCHANGED <<stop_vars, ops>>

-----------------------------------------------------------------------------
(* Executors and stops.                                                    *)

\* An executor's loop, on any thread and possibly inside a coroutine's body, resumes
\* a coroutine that begins, or whose operation is complete.
resume(t, c) ==
    /\ st[c] \in {"start", "waiting"} /\ Lend(t, c) /\ Goto(c, "running")
    /\ Resumed(t, c, Deepest(c), "none")
    /\ UNCHANGED <<frame, depth, stop_vars, handled, ops>>

\* It resumes one that comes back from run(ex), which destroys the child.
resume_back(t, c) ==
    /\ st[c] = "back" /\ Lend(t, c) /\ Goto(c, "running")
    /\ Pop(c) /\ Resumed(t, c, frame[c][depth[c] - 1], exc[c])
    /\ UNCHANGED <<stop_vars, handled, ops>>

\* A suspended chain is given up: all its frames are destroyed, on any thread, whose
\* allocator ~run_wrapper leaves alone since it has put its own back already.
abandon(t, c) ==
    /\ st[c] \in {"start", "waiting", "back"} /\ Goto(c, "over")
    /\ frame' = [frame EXCEPT ![c] = [d \in Depths |-> Nil]] /\ depth' = [depth EXCEPT ![c] = 0]
    /\ exc' = [exc EXCEPT ![c] = "none"]
    /\ UNCHANGED <<thread_vars, stop_vars, handled, ops>>

request_stop(c) ==
    /\ c \notin stop /\ stop' = stop \cup {c}
    /\ doomed' = IF /\ depth[c] > 0 /\ frame[c][1].kind = "quitter"
                    /\ (st[c] # "running" \/ depth[c] > 1)
                 THEN doomed \cup {c} ELSE doomed
    /\ UNCHANGED <<thread_vars, frame, depth, st, exc, late, handled, ops>>

-----------------------------------------------------------------------------
Kinds == {"task", "quitter"}

BodyStep(t, c) ==
    \/ wait(t, c) \/ throw(t, c) \/ catch(t, c) \/ run_throws(t, c)
    \/ end_child(t, c) \/ end_run_ex(t, c) \/ end_chain(t, c)
    \/ \E k \in Kinds : call(t, c, k) \/ run(t, c, k) \/ run_ex(t, c, k)

Next ==
    \E c \in Chains :
        \/ request_stop(c)
        \/ \E t \in Threads :
               \/ BodyStep(t, c) \/ resume(t, c) \/ resume_back(t, c) \/ abandon(t, c)
               \/ run_async_throws(t, c)
               \/ \E k \in Kinds : run_async_inline(t, c, k) \/ run_async_posted(t, c, k)

Spec == Init /\ [][Next]_vars

-----------------------------------------------------------------------------
(* Properties.                                                             *)

\* Is the resource there?  A trampoline's lives as long as its chain, those of a run()
\* as long as its child's frame.
Alive(r) ==
    \/ r = Context
    \/ \E c \in Chains :
           \/ r = Trampoline(c) /\ depth[c] > 0
           \/ \E d \in 2 .. depth[c] :
                  r \in {Wrapper(c, d), Awaitable(c, d)} /\ frame[c][d].via \in {"run", "run_ex"}

\* While a coroutine's body runs, the thread's frame allocator is the one of its
\* environment, whichever thread resumed it, whatever chains were launched, resumed or
\* torn down inside it, and whatever threw; and an idle thread has none.
AllocatorIsTheChains ==
    \A t \in Threads :
        tls[t] = IF top[t] = 0 THEN Nil ELSE Deepest(level[t][top[t]].ch).env

\* Every frame can be freed: the resource it came from, and the one that its
\* environment names, outlive it, so no chain allocates from the resource of
\* another one or of a run() that is over.
FramesCanBeFreed ==
    \A c \in Chains : \A d \in 1 .. depth[c] :
        Alive(frame[c][d].mr) /\ Alive(frame[c][d].env)

\* A stop requested while a quitter is suspended is what its chain ends with, whatever
\* the coroutines below it catch or return; and a chain of quitters that was stopped
\* begins at most the one operation that it was about to.
StopIsHeeded ==
    \A c \in Chains :
        /\ c \in doomed => handled[c] \in {"no", "sentinel"}
        /\ late[c] <= 1
=============================================================================
