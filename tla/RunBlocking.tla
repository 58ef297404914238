---------------------------- MODULE RunBlocking -----------------------------
(***************************************************************************)
(* A chain launched with run_async() or by a sender, on executors that may *)
(* be torn down at any time, or with run_blocking(): then the first        *)
(* executor is a blocking_context that lives on the caller's stack, is run *)
(* by the caller's thread alone until the chain is over, and dies with the *)
(* call.                                                                   *)
(***************************************************************************)
EXTENDS Sender

VARIABLES
    main,    \* "none" without run_blocking(), else "running" or how run() ended
    done     \* "no", or the signal: "value" (signal_done) or "abandoned"

vars == <<cvars, sender_vars, main, done>>

Init ==
    /\ ChainInit /\ SenderInit /\ done = "no"
    /\ main \in (IF root = "run_async" THEN {"none", "running"} ELSE {"none"})

\* Mutant: the destructor of the handlers signals nothing.
signal_handler_only ==
    done' = IF main = "running" /\ handler' # handler THEN "value" ELSE done

\* The handlers die with the trampoline of run_async(): called, they have signalled
\* that the chain is done; if not, their destructor signals that it was abandoned.
signal ==
    done' = IF main # "running" \/ frame[1] = "none" \/ frame'[1] = "live" THEN done
            ELSE IF handler' # handler THEN "value" ELSE "abandoned"

\* Mutant: run() returns as soon as it is signalled, whatever is queued, and
\* without a signal when nothing is.
run_returns_early ==
    /\ main = "running" /\ launch = "done" /\ \A s \in On(Ex(1)) : st[s] # "running"
    /\ main' = (IF done = "value" THEN "returned" ELSE "threw")
    /\ ex' = [ex EXCEPT ![Ex(1)] = "draining"]
    /\ UNCHANGED <<root, ex_of, work, seg_vars, owner_vars, launch, handler, crash, ops,
                   sender_vars, done>>

\* run() of the blocking context returns, or throws if the chain was abandoned,
\* once it was signalled and its queue is empty; the context is then torn down.
run_returns ==
    /\ main = "running" /\ done # "no"
    /\ \A s \in On(Ex(1)) : st[s] \notin {"queued", "running"} /\ posted[s] = "no"
    /\ main' = (IF done = "value" THEN "returned" ELSE "threw")
    /\ ex' = [ex EXCEPT ![Ex(1)] = "draining"]
    /\ UNCHANGED <<root, ex_of, work, seg_vars, owner_vars, launch, handler, crash, ops,
                   sender_vars, done>>

\* run_blocking() posts the task before it enters run(), and throws what run_async()
\* throws.
Launched ==
    /\ main = "running" /\ launch = "no" => st'[1] # "running"
    /\ main' = IF main = "running" /\ launch' = "threw" THEN "threw" ELSE main

Step ==
    \/ ChainStep /\ signal /\ Launched /\ UNCHANGED sender_vars
    \/ SenderStep /\ UNCHANGED <<main, done>>
    \/ run_returns

TearDown ==
    \E e \in Executors :
        (main # "none" => e # Ex(1)) /\ tear_down(e) /\ UNCHANGED <<main, done, sender_vars>>

Next == crash = "no" /\ (Step \/ TearDown)

Spec == Init /\ [][Next]_vars

\* Executors run or abandon what they hold, holders complete or give up, and tasks
\* come to their end (there are at most MaxOps operations).
FairSpec == Spec /\ WF_vars(crash = "no" /\ Step)

-----------------------------------------------------------------------------
(* Properties.                                                             *)

\* No chain of teardowns destroys a task that is awaited in a segment that was
\* not abandoned, or the awaitable of run() while its task is at work: what
\* ~task and ~run_awaitable_ex terminate for; nor a trampoline twice.
NeverTerminates == crash # "yes"

\* Whatever is queued, held or waited for is alive, and so is the owner that
\* would unwind it; a parent queued to come back from run() is queued by a node
\* in the trampoline; an owner posted to unwind is not destroyed meanwhile.
NothingDangles ==
    \A s \in Segments :
        /\ st[s] \notin {"none", "done"} => depth[s] > 0 /\ frame[s] = "live"
        /\ st[s] = "queued" /\ holds[s] = "yes" => frame[s + 1] = "live"
        /\ posted[s] = "yes" => frame[s] = "live" /\ abandoned[s] = "yes"
        /\ frame[s] = "live" /\ s > 1 => holds[s - 1] = "yes"

\* Whoever started the chain learns once how it ended.  The handler of run_async() is
\* called once if the chain came to its end and never if it was abandoned, the
\* receiver of a sender is completed once in either case; an abandoned segment never
\* runs again.
ReportedOnce ==
    /\ \A s \in Segments : st[s] = "running" => abandoned[s] = "no"
    /\ handler <= 1 /\ (handler = 1 => abandoned[1] = "no")
    /\ root = "run_async" /\ launch = "done" /\ frame[1] = "none" =>
           (handler = 1 <=> abandoned[1] = "no")
    /\ ReceiverCompletesOnce

\* Whoever waits for a chain waits long enough.  A coroutine that waits for an inner
\* task holds work on its own executor, so that join() there waits for it, and nothing
\* holds work when all is over; run_blocking() returns when its chain is over, reports
\* how it ended, and the context it then destroys is one that nobody will post to.
WaitsForTheEnd ==
    /\ \A s \in Segments : st[s] = "lent" => work[Ex(s)] > 0
    /\ (\A s \in Segments : frame[s] = "none") => \A e \in Executors : work[e] = 0
    /\ main \in {"returned", "threw"} =>
           /\ main = "returned" <=> handler = 1
           /\ \A s \in On(Ex(1)) : st[s] = "none" /\ frame[s] = "none"

\* Every chain comes to its end, and run_blocking() with it, or a task ends the process.
ChainEnds ==
    <>(\/ crash = "refused"
       \/ main # "running" /\ \A s \in Segments : frame[s] = "none")
=============================================================================
