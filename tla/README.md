# A verification of Boost.Capy

Boost.Capy is a C++20 coroutine library: tasks, executors, synchronisation
between coroutines, combinators, and streams.  This directory holds TLA+ models
of the parts of it that are hard to test, the TLC configurations that check them
on small instances, and theorems that TLAPS proves for every instance.

Definitions carry the names of the functions they model.  Where one function is
several steps, because other threads can act in between, the steps are
`function_step`.  A definition whose comment begins with "Mutant" is a plausible
bug: a changed copy of the definition that follows it, kept to show that the
properties notice it; no specification uses it.  `PROJECT.json` maps every
definition to its source lines, and lists for every hazard the properties that
would notice it.

## 1. The system and its parts

| part | state | operations | what is hard |
|---|---|---|---|
| strand (`strand_service.cpp`) | `locked_`, `pending_`, `dispatch_thread_`, `service_` | post, dispatch, the invoker loop, withdraw, shutdown, `~strand_impl` | posts racing the release of the lock and the shutdown; a failed post of the invoker |
| thread_pool (`thread_pool.cpp`) | the queue, `threads_`, `outstanding_work_`, `stop_`, `joined_` | post, on_work_started/finished, join, stop, run, the destructor | threads started lazily; join released by a call that is still inside the pool |
| async_mutex | `locked_`, the waiter list, each waiter's flags | lock, unlock, the stop callback, destructors | cancellation, destruction and re-entrance between hand-over and resumption |
| async_event | `set_`, the waiter list | wait, set, clear, the stop callback, destructors | a broadcast whose own posts destroy waiters and the event |
| async_waker | the atomic slot `st_`, the waiter's flags | wait, wake, the stop callback, destructors | four parties arbitrate through one atomic |
| when_all, when_any | `remaining_count_`, `lost_`, the stop source, the result | launch, the runners, `final_suspend`, `lose_branch` | the last of several branches on several threads ends the join |
| task, run_async, run, abandon | frames, their owners, held work | launch, call, cross to another executor and back, abandon, unwind | contexts torn down in any order under a chain |
| run_blocking, the awaitable-sender bridge | the blocking context's queue and signals; the operation state | run, signal; start, complete, give up | a chain that never calls its handler; a receiver that destroys its operation |
| test::stream, any_read_stream, read | buffers, parked reads, the stored awaitable | read_some, write_some, close, assign, destroy | a wrapper assigned to under a parked read |
| write, write_at_least, write_now, fuse | how much is written; the failure point and the counter | write_some, the loops; armed, maybe_fail | partial writes with an error; a failure point that is skipped |
| execution_context | the list of services, `mutex_` | use_service, make_service, shutdown, destroy | creation outside the mutex; services made while the context dies |
| recycling_memory_resource | buckets of each thread, shared buckets | allocate, deallocate, the thread's janitor | blocks freed on other threads, and after a thread's janitor ran |
| bridges to senders, Asio, CUDA and a GUI (`example/`) | the awaitable's result, the flag `done_`; the services' queues; the GUI's queue | await_suspend, the receiver, handler or callback, await_resume; the services' and the GUI's threads | work that ends on any thread, also before await_suspend has returned |
| frame allocator, quitter | the thread-local allocator, frames, the stop token | create, resume, run, throw, stop | who puts the allocator back, and what a frame outlives |

They interact in this way.  Tasks of a *segment* run on one executor.  An executor
(pool, strand, blocking context) receives *continuations*, and either resumes or
*abandons* each of them.  A continuation knows the owner of its segment; to
abandon it is to post that owner, which destroys the segment's frames and gives
up the segment that waits for it.  The primitives, the joins and the streams keep
continuations of suspended coroutines, and every one of them has the same race to
settle: several parties (a waker, a stop callback, a destructor) may want to resume
a frame, and exactly one of them must.

## 2. Modules

| module | models | extends / instantiates |
|---|---|---|
| `Strand` | a strand, its service, callers on several threads | |
| `SerialExecutor` | what a strand promises: one at a time, first in first out | |
| `StrandRefinement` | the refinement mapping, and the liveness property | `Strand`, `SerialExecutor` |
| `ThreadPool` | the pool, its workers, outside threads, the owner | |
| `AsyncMutex`, `AsyncEvent`, `AsyncWaker` | the three primitives with their waiters | |
| `WakerSpec` | what a waker promises | instantiated by `AsyncWaker` |
| `Bridges` | coroutines that wait for work outside the library, through one of eight bridges of the examples | |
| `Notifications` | a waker, an event or a bridge, side by side | `AsyncWaker`, `AsyncEvent`, `Bridges` |
| `Join` | what when_all and when_any share | |
| `WhenAll`, `WhenAny` | what their runners record and what they return | `Join` |
| `When` | the composition: either combinator | `WhenAll`, `WhenAny` |
| `Chain` | segments, their owners, executors that may be torn down | |
| `Sender` | the operation state that starts a chain for a receiver | `Chain` |
| `RunBlocking` | a chain started by run_async(), a sender or run_blocking() | `Sender` |
| `Frames` | frames, the resources they come from, exceptions and stopped quitters | |
| `Buffers` | consuming_buffers: data() and consume() on buffer sizes | |
| `Stream` | a pair of test streams, the awaitable of read_some() | |
| `Read` | read() and read_at_least() over them, any_read_stream | `Stream`, `Buffers` |
| `Fuse` | armed() with its two phases, maybe_fail() | |
| `Armed` | the write operations in a test that armed() runs | `Fuse`, `Buffers` |
| `Streams` | the two worlds of streams, side by side | `Read`, `Armed` |
| `ExecutionContext` | services, the threads that make them, the context's end | |
| `Recycling` | the recycling memory resource | |
| `Resources` | services or memory, side by side | `ExecutionContext`, `Recycling` |
| `*Proofs` | the theorems of section 6 | the module they are about |
| `MC*` | the instances for TLC | |

### How states and actions correspond to the code

**Strand.**  A continuation is a name and a queue a sequence of names.
`enqueue_check` and `enqueue_lock` are the load of `service_` and the critical
section of enqueue(); between them shutdown() may come.  `post_invoker` may throw;
`withdraw`, `repost_invoker` and `abandon_pending` are the error path.  An invoker
is a state of the thread that runs it: it takes a batch, resumes its members one by
one, and either releases the strand or goes on (`try_unlock`).  `shutdown_*` are the
steps of strand_service::shutdown().  The strands' shared mutexes are one mutex: a strand
uses one, and what others do under it only delays.

**ThreadPool.**  One action per critical section of `mutex_` and per access to
`outstanding_work_` and `started_`.  A condition variable is the set of threads
that sleep on it; notify_one wakes any of them, and a worker may wake up unasked
(`spurious_wakeup`).  Starting a thread may throw, `MaxThrows` times.  The destructor waits
for nobody but the workers before it shuts the services down, so services that are shut down or
destroyed, and their threads (`Services`) until shutdown() has returned, may still post; other
threads may not, as the documentation asks.

**AsyncMutex and AsyncEvent** run on one executor thread, as their documentation
demands; only stop callbacks come from other threads, in two steps: claim and
post.  A post may abandon its coroutine on the spot, whose destruction re-enters
the primitive, so unlock(), set() and the destructors have their loops as
separate steps.  A waiter of the mutex may be a quitter, which checks for a stop
before it looks at the result of its co_await.

**AsyncWaker.**  One action per access to `st_` and per call to the stop
callback's registration and removal.

**Bridges.**  A wait is where its await_suspend(), its work and its coroutine are.  Work ends in
two steps, the result and the hand-over, as the executor may run the coroutine before the
call that posted it returns.  When net::post() throws, the guard it was given was destroyed
or never taken (`net_post`); asio_executor::post() asks its own guard which (`asio_post_throws`),
and only then does the handler's guard give the waiter up.  Executors queue or abandon what they are given; the GUI's
is modelled with its queue, its loop, quit() and its destructor.  The services of the CUDA example are one thread each: one action per
entry that poll_service looks at, per post, and per critical section of sync_service.  The results
of senders are the indices of the variant that the receivers fill and await_resume() reads.
What follows start() in await_suspend() is a step of its own, which is where stdexec's bridge
exchanges its flag.

**Join, WhenAll, WhenAny.**  One action per access to the shared state.  A branch is
its outcome: a value, an error, an exception, or lost.  A runner that cannot be
allocated or posted ends the process (`terminated`): await_suspend of the awaiting
task is noexcept.

**Chain, Sender, RunBlocking.**  A segment is a stack of `depth` frames of which the
deepest is at `st`.  Owners, links and held work follow `run.hpp` and `run_async.hpp`.
Executors are open, draining or closed; in the last two they abandon.  A sender's
operation state is the owner of the first segment; completing it lets the receiver
destroy it.  `RunBlocking` adds the thread that waits in run().

**Frames.**  A thread is a stack of levels, one for each resumption in progress, with
the allocator that level puts back.  A chain is a stack of frames; each has the resource it
came from and the one its environment names.  Chains start inside each other, change
threads at a suspension, call tasks and quitters, cross run(), throw, are stopped and
are given up.

**Stream, Read, Armed.**  One thread, and stop callbacks.  A byte is its position in what
was sent.  On a stream pair a fuse lets each operation pass or fails it, as a free choice.
Reads go to an end directly or through an any_read_stream, which is assigned, or
destroyed, at any time.  In the other world the fuse has its counter: `Armed` runs a test
that writes with one operation after another, round after round.

**ExecutionContext.**  A thread is a stack of calls, since the constructor, the shutdown
hook and the destructor of a service may use other services.  One action is what a
call does under the mutex or between two uses of it.  A service that loses the race to be
registered is deleted under the mutex (`lose`); if its destructor uses a service, its thread waits
for itself, and nobody gets the mutex any more (`Locked`).

**Recycling.**  An allocation or a deallocation is one step where it touches only the
buckets of its thread; a shared bucket has a mutex and its access is one step too.  The
janitor of a thread runs at its exit, other thread-local destructors after it.

## 3. Runs

Nine runs pass.

- **strand** (`MCStrand.cfg`). Every interleaving of posts, dispatches, failing invoker posts, invokers and a shutdown keeps the strand serial (`MutualExclusion`), its lock flag stands for one party that owes the queue an invoker (`QueueHasOneOwner`), and a shutdown leaves nothing queued (`ShutdownIsFinal`). The strand implements the abstract serial executor, so that each continuation is handled once and in order (`ImplementsSerialExecutor`); each of them is resumed, abandoned or handed back (`EveryCallSettled`).
- **pool** (`MCThreadPool.cfg`). No interleaving of posts, work counting, thread start failures, stop, join and destruction loses a continuation (`WorkIsSettled`), deadlocks, or touches the pool after it is gone (`NoUseAfterDelete`); join() returns and queued work is taken (`PoolMovesOn`).
- **mutex** (`MCAsyncMutex.cfg`). Whatever cancellation, abandonment and destruction come between a hand-over and a resumption, the lock has one owner (`LockIsOwned`), a waiter is in one place and nothing points at what is gone (`WaiterInOnePlace`), the order is kept (`FirstInFirstOut`), and nobody waits for ever (`EveryWaiterSettles`).
- **notifications** (`MCNotifications.cfg`). Waker: one party settles each wait (`OneWinner`), nothing reaches a waker that is gone (`NothingReachesDeadWaker`), every stop ends a wait and every loop ends (`WaitsEnd`), and the waker implements `WakerSpec` with its fairness (`ImplementsWakerSpec`). Event: a waiter is claimed once and linked where it says (`EventWaiterInOnePlace`), and set() reaches every wait (`WaitsEnd`). Bridges: a coroutine is resumed or given up once, with what its work ended with, and nobody uses its awaitable afterwards (`HandedOnce`); it does not wait for ever, also when a service is destroyed or the GUI's loop quits meanwhile (`OutsideWaitEnds`).
- **when** (`MCWhen.cfg`). Three branches on any threads: the join ends once, after the last branch, and nothing touches its state afterwards (`JoinEndsOnce`), with the documented result (`ResultIsRight`); the deciding branch requests stop before it gives up its share (`StopComesFirst`); the join ends (`JoinEnds`).
- **chain** (`MCRunBlocking.cfg`). Executors are torn down at any point under three segments: nothing terminates in a noexcept function (`NeverTerminates`), no frame, owner or operation state is used after its end (`NothingDangles`), whoever started the chain is told once how it ended (`ReportedOnce`), and not before its frames are gone (`WaitsForTheEnd`); it ends (`ChainEnds`).
- **streams** (`MCStreams.cfg`). Reads and writes report the bytes that they move, all of them once and in order, over empty buffers and partial transfers, whether they succeed or fail (`BytesAreReported`); nothing points at a dead awaitable (`NoDanglingRead`); a parked read with something to report is resumed (`ParkedReadEnds`); a test under armed() ends, having met a failure at each of its points in both ways (`ArmedCovers`).
- **resources** (`MCResources.cfg`). One service of a type, although two threads may make it (`OneServicePerType`); services are shut down once and in order, before any is destroyed (`ShutDownInOrder`); the context's end comes, also when services are made during it, unless a service that lost the race to be registered uses another in its destructor (`ContextIsDestroyed`). A block of memory has one user or is in one bucket of its size (`BlockInOnePlace`), and a thread leaves none behind (`NothingOutlivesThread`).
- **frames** (`MCFrames.cfg`). A body always runs with its own chain's allocator (`AllocatorIsTheChains`), the resource of a frame outlives it (`FramesCanBeFreed`), and a stop ends the quitters it finds suspended, whatever the coroutines below them catch (`StopIsHeeded`).

Three runs find disagreements between the code and its documentation.

- **strand_thread** (`MCStrandThread.cfg`, `RunningInThisThread`).  make_invoker() calls
  try_unlock() and only then clears the dispatch thread.  Between the two another thread
  can run the next invoker and store its own id, which the late store erases.  A
  coroutine that runs inside the strand's dispatch loop is then told by
  running_in_this_thread() that it does not, and dispatch() posts what it could have
  resumed at once.  The converse never happens (`NoForeignInline`, part of the proof):
  nobody is taken for the dispatch thread who is not in the loop, so serialisation is
  not affected.
- **strand_drop** (`MCStrandDrop.cfg`, `ImplOutlivesShutdown`).  shutdown() stores a null
  `service_` and then takes the queue and releases the mutex.  A handle dropped by another
  thread in between finds the null pointer, takes no mutex and frees the impl that
  shutdown() is using.  The passing run excludes this race (`DropRace = FALSE`), and
  says what holds without it; the proofs hold with it.
- **mutex_quitter** (`MCAsyncMutexQuitter.cfg`, `StoppedQuitterReleases`).  await_ready() of
  a lock takes a free mutex and does not set `granted_`.  If stop was requested, the
  quitter that awaits it throws before it calls the wrapped await_resume(), which
  would have made the guard, and the awaiter's destructor releases only a granted lock.
  The mutex stays locked with no owner, and those behind wait for ever.  `LockIsOwned`
  and `EveryWaiterSettles` say what holds but for this one case.

Five observations were made while modelling and are not runs.  In compilers other than GCC the eager loop
of write_now returns an error without the bytes of the write that failed, where its
documentation counts them; streams that complete with an error and bytes at once are needed to see it.  A second
armed() on one fuse begins with the counter `i`, and `stopped`, as the first left them.
A service that loses the race to be registered is deleted under the context's mutex, so
its destructor may not look up services, which the documentation does not say.  The model has
such services: their thread blocks, which `ContextIsDestroyed` names as its one exception.
sync_service::post() of the CUDA example notifies after it has released the mutex, so whoever
destroys the service must know that no post() is still on its way out; the model assumes it.  Stop that is requested
before an Asio operation has been started is emitted into an empty cancellation slot, and is
lost.

## 4. Bounds

- Strand: two threads and three continuations.  Two threads are enough for a caller
  against an invoker, two invokers in succession and a failing post; three continuations
  are what it takes for one being withdrawn, one that trusts its invoker, and one in a
  batch.  Two continuations show the violations.
- Pool: two workers, two outside threads, one of them a service's, the owner, two units of work, one thread
  that fails to start (`MaxThrows`).  One unit is in the queue or with a worker while the
  other one is being posted, or finished, by somebody else.
- Mutex: four waiters, two of which may be canceled, one of these a quitter: a holder, one
  that was handed the lock, one that is canceled meanwhile, and one behind it.
- Notifications: two waking threads, three waits, four wakes.  With three waits a token
  can be left over from a wait that was canceled and another be lost to the next.  Event:
  three waiters, two cancellable.  Bridges: two waiters (`Bridged`), one of which is taken from a
  service's list, or uses the shared stream or dialog, while the other is queued or unwound.
- When: three branches: one that ends the join, one that fails, one that is lost.
- Chain: three segments, on three executors or with the third back on the first one's,
  two tasks deep (`MaxDepth`), seven operations (`MaxOps`).
- Streams: two readers, three buffers of which one is empty, two bytes to send, an end
  that gives one byte at a time.  Armed: three buffers of which one is empty, at most one byte in a write;
  write, write_at_least of one byte and of three, which is all there are plus one, and write_now.
- Resources: two threads, three calls (`MaxCalls`), seven instances of four types of
  services that need, replace and outlive each other, in a cycle that is closed only by what
  a destructor looks up; two threads, four blocks, the sizes 64, 65, 2048 and 2049 at the edges of
  the classes, buckets of two blocks so that they overflow.
- Frames: two threads, two chains of which one brings its own resource, three frames deep,
  two levels, four operations.

Symmetry is used for the threads of `MCFrames`, a run of invariants only.  Deadlock is
checked in the pool and the joins, which may stop only at their ends.  `CHECK_DEADLOCK
FALSE` appears where the system may come to rest: a strand, a primitive or a stream that
nobody calls any more, a chain or a context that has ended.

## 5. Fairness

The assumptions are those of the scheduling the code relies on.  A thread that is
inside the library keeps running (weak fairness of its steps).  An executor runs what
it was given (weak fairness of the step that takes from its queue).  Whoever holds a
lock, a unit of work or a continuation gives it back, as the documentation asks of
users; a service's hooks return; work outside ends or is dropped, and a GUI program whose
loop has returned goes on to destroy the application.  Nobody is obliged to call anything, to request stop, or
to destroy anything, but for the context of `Resources`, whose owner goes through with its destruction.
In `AsyncEvent` the resumption of waiters is strongly fair: coroutines that call
set() and clear() on the same executor thread take turns with the queue, and the
executor's queue is first in first out.

## 6. What is proved

TLAPS proves the following for any sets of threads, waiters, chains and blocks and any
bounds.  In each module `IInv`, or one such definition per part, is the inductive invariant;
one lemma, or one step, per action shows that it is preserved.

**`StrandProofs`.**  Assumption: `None` is neither a thread nor a continuation.  `IInv` is
the type invariant, `Lifetimes` (who keeps the impl alive), `InsideLoop` (only a thread in
the dispatch loop is the dispatch thread), and the parts of the properties.
Mutual exclusion is not inductive: two coroutines could run if two invokers existed, so the
argument goes through `LockedMeansOneResponsible` and through `InsideLoop`, which is what
makes inline dispatch safe.  Theorems: `TypeCorrect`, `Serialised` (`MutualExclusion`),
`LockDiscipline` (`QueueHasOneOwner`), `ShutdownEmpties` (`ShutdownIsFinal`).
For the refinement the abstract queue is the batch of the one thread that has
one, followed by what is pending.  `RInv` adds to the strand's `IInv` that the continuation of a
call which has yet to queue it is nowhere else (`Placed`), that only the thread in
dispatch_batch() has a batch (`Batches`), and that shutdown() takes the queue once
(`TakenOnce`).  One lemma per action shows the step of `SerialExecutor` that it is, or
that the mapped state is unchanged.  Theorem: `Refines` (`ImplementsSerialExecutor`).

**`ThreadPoolProofs`.**  Assumption: workers, outside threads and the owner are different, and
services own some of the outside threads; the sets may be infinite.  That join() waits for the work rests on a
count being zero, so the invariant says that the work that is not done can be numbered
from 1 to `outstanding_work_` (`Counted`) and says where each unit is (`Located`, `Apart`, `Fates`); who
may be inside the pool (`Places`) and how far its end has come (`Phases`) then exclude
everybody from a deleted pool.  Theorems: `DestroyedIsQuiet` (`NoUseAfterDelete`),
`JoinWaitsForWork` (`WorkIsSettled`).

**`AsyncMutexProofs`.**  The lemmas say what push_back, pop_front and remove do to the nodes
of a list without repetitions.  `IInv` adds to `LockIsOwned` that listed waiters are
suspended and unclaimed ones (`Listed`), what each waiter's flags say of its place (`Flags`),
and what nobody owns (`Unowned`).  `PInv` adds the executor's queue (`Queued`), where a linked
or stoppable waiter is (`Places`), what the results exclude (`Results`), and that the list
is in the order in which its waiters arrived (`Arrivals`): a removal from the middle
keeps that order, so the head is always the earliest.  Theorems: `OneOwner` (`LockIsOwned`),
`OnePlace` (`WaiterInOnePlace`), `FairQueueing` (`FirstInFirstOut`).

**`NotificationsProofs`.**  For the waker, `WakerInv` adds to the properties what a suspended
or posted waiter, its callback and the calls of wake() know of one another: a suspended waiter
is in the slot or in the hands of one party (`SuspendedIsHeld`), a callback belongs to
a wait under way (`CallbackOfWait`), and no call outlives the waker (`UnderWay`).
Theorems: `SingleWinner` (`OneWinner`), `DeadWakerIsLeftAlone` (`NothingReachesDeadWaker`), and
`WakerRefines`: every step of the waker is a step of `WakerSpec` or leaves it unchanged.

For the event, `EventInv` says that the three lists (the event's, set()'s and the executor's)
have no repetitions and hold exactly the waiters whose tag says so (`EventLists`), what the
flags of each waiter say of its place and of its callback (`EventFlags`), and what is left
when the event is gone (`EventEnds`).  The lemmas `Appended`, `Popped` and `Filtered` say what
the list operations do; the last one is by induction over the length, stated with a set of
naturals.  Theorem: `EventWaiters` (`EventWaiterInOnePlace`).

For the bridges, `BridgeInv` says how far the coroutine, its work and its awaitable have come
together (`BridgeStages`), which of two resumptions comes second (`SecondResumes`), which result
is due at each stage (`RightResult`, `StreamError`) and whom the lists of the services hold
(`BridgeLists`).  The bridges share the lemmas of what a start, an answer, a hand-over
and an end do to one waiter (`Starting`, `ResultStored`, `WorkOver`, `Settled`).  Theorem:
`BridgedHandedOnce` (`HandedOnce`).  `AllNotifications` puts the parts together: it
states all four invariants of the composition `Notifications`.

**`WhenProofs`.**  Assumption: at least one branch.  `remaining_count_` is the number of
branches that have not released their share (`Counted`), which makes the last one the only
one left (`Stages`); `Outcomes`, `AllRecords` and `AnyRecords` relate what the runners have
recorded to how far each has come.  Theorems: `EndsOnce` (`JoinEndsOnce`), `StopsInTime`
(`StopComesFirst`), `RightResult` (`ResultIsRight`).

**`FramesProofs`.**  A thread has the allocator of the coroutine that runs on it, and each
level puts back that of the coroutine it interrupted (`LevelsOK`); each frame's resource is
its chain's or that of a run() above it (`Lineage`), which ends later.  `SInv` adds what a
stop leaves behind: a chain that must end with it has a quitter as its first coroutine, with
the sentinel on its way whenever that one has the control (`Doomed`), and a chain of quitters
that began an operation after the stop unwinds (`Unwinds`).  Theorems:
`AllocatorFollowsTheChain` (`AllocatorIsTheChains`), `EveryFrameCanBeFreed` (`FramesCanBeFreed`),
`StopsAreHeeded` (`StopIsHeeded`).

**`RecyclingProofs`.**  A block in use has the size of the class that deallocation computes
from its bytes (`SizeOfClass`), and a thread that is armed has a janitor to come
(`ArmedIsRegistered`).  Theorems: `OnePlace` (`BlockInOnePlace`), `NothingLeftBehind`
(`NothingOutlivesThread`).

**`RunBlockingProofs`.**  Assumption: `ChainAssumption` (at least one segment, and a layout of executors).  A teardown
changes a whole run of segments at once, so the invariant is about neighbours: what each
segment's variables say of itself (`Local`) and of the next one (`Below`), that there is
nothing further down unless it is waited for (`Deep`), and that an abandoned segment is yet to
be unwound or has passed the unwinding on to the one above (`GivenUp`).  `Counted` says that the
work on an executor is the number of awaitables and trampolines that hold some, which gives
both halves of `WaitsForTheEnd`; `Ends` relates what was reported to the first owner.
`Reshape` and `Destroyed` are the lemmas that the actions share.  Theorems: `NoTermination`
(`NeverTerminates`), `OwnersLive` (`NothingDangles`), `OneReport` (`ReportedOnce`),
`LongEnough` (`WaitsForTheEnd`).

## 7. What is only model-checked

All liveness properties, and the liveness part of `ImplementsWakerSpec`, as fairness is out
of the prover's reach.  `BytesAreReported`, which needs induction over sequences.
Everything else about the streams and the fuse, and the services: no proof was written for
them.

## 8. What is not modelled

The map of `PROJECT.json` covers the code that has state which several steps depend on.  About half of
the lines of the library are comments; most of the rest outside the map are declarations,
constructors, concepts, traits, overloads, type erasure and result types, and the programs
that measure and demonstrate the library.

- any_write_stream and any_stream hold and disown their inner awaitable with the same code
  as any_read_stream; test::read_stream mirrors test::write_stream.  Moving an
  any_read_stream, or a started awaitable of it, with a read in flight.
- write_now's cached frame and its eager path: a test::write_stream is never ready at once.
- fail() and inert() of the fuse; has_service() and find_service(), which only read.
- The strand's cache of invoker frames and the hashing of strands onto shared mutexes.
- run() with a stop token of its own (`Frames` has one token for a chain), and a run(alloc)
  that is not awaited in the expression that makes it.
- The bridging of foreign stop tokens in awaitable-sender, and the senders of the
  benchmarks, which are separate code without an owner for the segment.
- In the bridges of the examples: cancellation (`cancel_bridge`, `cancel_state`); a post that throws
  in a noexcept receiver or on a service's thread, which ends the process; allocations and threads that fail
  in await_suspend(); the end of poll_service, which its driver delays until no wait is left.
- A join whose runners cannot be allocated or posted, beyond that it ends the process.
- Steps that one action takes together.  unwind() of run()'s trampoline destroys the inner task
  and gives up the parent last; the model does both at once.  await_suspend() of a lock checks for
  a stop, enqueues the waiter and registers its stop callback at once: a stop that comes in
  between, and runs the callback inside await_suspend(), is one that comes right after.  The post
  of a stop callback queues the waiter and never abandons it on the spot.  What run_blocking()
  rethrows counts as having returned.
- Work that a service's thread starts between join() and the destructor of a pool.
- Intrusive lists as pointers: a list is a sequence of its nodes.
- Values: results, exceptions as objects, buffers as memory.  Type erasure (executor_ref,
  any_executor), concepts, configuration, error categories and adapters have no state.
- Memory order weaker than sequential consistency: an access to an atomic is one step.
