-------------------------------- MODULE Read --------------------------------
(***************************************************************************)
(* read() and read_at_least() on the ends of a test::stream pair, of some  *)
(* readers directly and of the others through one any_read_stream, which   *)
(* keeps the awaitable of the stream's read_some() in storage of its own.  *)
(*                                                                         *)
(* The any_read_stream may be assigned to, or destroyed, while a read is   *)
(* parked on it, and a coroutine may be destroyed while it is suspended.   *)
(* Whoever does that makes sure that no stop request races it and that the *)
(* continuation is not with the executor.  One wrapper and one end have    *)
(* one operation at a time, as their documentation demands.                *)
(***************************************************************************)
EXTENDS Stream, Buffers

CONSTANTS
    Directs, \* the sets of readers that may read end 1 directly
    Sizes,   \* the sizes of the buffers that each reader reads into
    MaxRead, \* max_read_size, for each end
    Needs    \* what read_at_least() is asked for

Total == buffer_size(Sizes)

ASSUME ReadSizes ==
    /\ Sizes \in Seq(Nat) /\ Total > 0 /\ Directs \subseteq SUBSET Readers
    /\ MaxRead \in [Ends -> Nat \ {0}] /\ MaxSend \in Nat
    /\ Needs \subseteq Nat

VARIABLES
    direct,   \* the readers that do
    bound,    \* the end that the wrapper refers to, or None when it is gone
    cached,   \* the reader whose awaitable it stores (awaitable_active_), or None
    owner_,   \* the reader whose outer awaitable its owner_ points into
    owns_,    \* the readers whose outer awaitable says that it owns the inner
    need,     \* the bytes that each operation waits for
    first_, front_skip_,  \* its consuming_buffers
    total,    \* the bytes that it has read
    mem,      \* the memory that its buffers refer to
    ec        \* what it reported

wrapper_vars == <<direct, bound, cached, owner_, owns_>>
loop_vars == <<need, first_, front_skip_, total, mem, ec>>
read_vars == <<stream_vars, wrapper_vars, loop_vars>>

ReadInit ==
    /\ StreamInit /\ direct \in Directs
    /\ bound = 0 /\ cached = None /\ owner_ = None /\ owns_ = {}
    /\ need = [r \in Readers |-> 0]
    /\ first_ = [r \in Readers |-> 1] /\ front_skip_ = [r \in Readers |-> 0]
    /\ total = [r \in Readers |-> 0]
    /\ mem = [r \in Readers |-> [i \in 1 .. Total |-> None]]
    /\ ec = [r \in Readers |-> "none"]

End(r) == IF r \in direct THEN 1 ELSE bound

\* No coroutine is running: the one thread may do something else.
Idle == \A r \in Readers : st[r] \notin {"running", "resuming"}

\* Where the slice of r begins.
From(r) == data(Sizes, first_[r], front_skip_[r])

\* How many bytes buffer_copy() moves from end e into the slice of r.
buffer_copy(r, e) ==
    LET limits == {Total - From(r), Len(buf[e]), MaxRead[e]}
    IN  CHOOSE n \in limits : \A k \in limits : n <= k

-----------------------------------------------------------------------------
(* The loop of read_at_least(); read() is the same with n the whole size.  *)

CanStart(r) ==
    /\ Idle /\ st[r] = "new" /\ End(r) # None
    /\ \A q \in live : at[q] # End(r)
    /\ r \notin direct => cached = None

read(r) ==
    /\ CanStart(r) /\ need' = [need EXCEPT ![r] = Total]
    /\ st' = [st EXCEPT ![r] = "running"]
    /\ UNCHANGED <<closed, buf, eof, pending, wait_vars, claimed, queue, sent,
                   wrapper_vars, first_, front_skip_, total, mem, ec>>

read_at_least(r, n) ==
    /\ CanStart(r) /\ need' = [need EXCEPT ![r] = n]
    /\ st' = [st EXCEPT ![r] = IF n > Total THEN "done" ELSE "running"]
    /\ ec' = [ec EXCEPT ![r] = IF n > Total THEN "invalid_argument" ELSE "none"]
    /\ UNCHANGED <<closed, buf, eof, pending, wait_vars, claimed, queue, sent,
                   wrapper_vars, first_, front_skip_, total, mem>>

\* The loop is done.
finish(r) ==
    /\ st[r] = "running" /\ total[r] >= need[r]
    /\ st' = [st EXCEPT ![r] = "done"] /\ ec' = [ec EXCEPT ![r] = "success"]
    /\ UNCHANGED <<closed, buf, eof, pending, wait_vars, claimed, queue, sent,
                   wrapper_vars, need, first_, front_skip_, total, mem>>

\* What the loop does with the result (x, k) of a read_some().
settle(r, x, k) ==
    LET c == consume(Sizes, first_[r], front_skip_[r], k) IN
    /\ first_' = [first_ EXCEPT ![r] = c[1]]
    /\ front_skip_' = [front_skip_ EXCEPT ![r] = c[2]]
    /\ total' = [total EXCEPT ![r] = @ + k]
    /\ ec' = [ec EXCEPT ![r] = IF x # "ok" /\ total[r] + k < need[r] THEN x ELSE @]
    /\ UNCHANGED need

Settled(r, x, k) ==
    [st EXCEPT ![r] = IF x # "ok" /\ total[r] + k < need[r] THEN "done" ELSE "running"]

-----------------------------------------------------------------------------
(* The four ways in which await_resume() of the stream's awaitable goes.   *)

resume_canceled(r) ==
    /\ unlink({r}) /\ settle(r, "canceled", 0) /\ st' = Settled(r, "canceled", 0)
    /\ UNCHANGED <<closed, buf, claimed, mem, queue>>

resume_eof(r, e) ==
    /\ closed = "yes" \/ (eof[e] = "yes" /\ buf[e] = <<>>)
    /\ settle(r, "eof", 0) /\ st' = Settled(r, "eof", 0)
    /\ UNCHANGED <<closed, buf, claimed, pending, mem, queue>>

\* The fuse fails the read, with an error code or with an exception.
resume_fuse(r, e) ==
    /\ closed = "no" /\ eof[e] = "no"
    /\ settle(r, "fuse", 0) /\ close_pair(e, Settled(r, "fuse", 0))
    /\ UNCHANGED <<buf, mem>>

resume_data(r, e) ==
    LET k == buffer_copy(r, e)
        from == From(r)
    IN
    /\ closed = "no" /\ ~(eof[e] = "yes" /\ buf[e] = <<>>)
    /\ mem' = [mem EXCEPT ![r] = [i \in 1 .. Total |->
                  IF i - from \in 1 .. k THEN <<e, buf[e][i - from]>> ELSE @[i]]]
    /\ buf' = [buf EXCEPT ![e] = SubSeq(@, k + 1, Len(@))]
    /\ settle(r, "ok", k) /\ st' = Settled(r, "ok", k)
    /\ UNCHANGED <<closed, claimed, pending, queue>>

await_resume(r, e) == resume_eof(r, e) \/ resume_fuse(r, e) \/ resume_data(r, e)

-----------------------------------------------------------------------------
(* read_some(), directly or through the wrapper.                           *)

InLoop(r) == st[r] = "running" /\ total[r] < need[r]

\* await_ready() is true: the awaitable is made, used and destroyed at once.
read_some_ready(r) ==
    /\ InLoop(r) /\ await_ready(End(r)) /\ await_resume(r, End(r))
    /\ UNCHANGED <<eof, wait_vars, sent, wrapper_vars>>

\* await_suspend() finds that stop was requested and returns false.
read_some_stopped(r) ==
    /\ InLoop(r) /\ ~await_ready(End(r)) /\ r \in stopped /\ resume_canceled(r)
    /\ UNCHANGED <<eof, wait_vars, sent, wrapper_vars>>

\* The read parks.  The wrapper has the inner awaitable in its storage.
read_some_parks(r) ==
    /\ InLoop(r) /\ await_suspend(r, End(r))
    /\ IF r \in direct THEN UNCHANGED wrapper_vars
       ELSE cached' = r /\ owner_' = r /\ owns_' = owns_ \cup {r} /\ UNCHANGED <<direct, bound>>
    /\ UNCHANGED loop_vars

\* The executor takes the next coroutine from its queue.
executor_resumes ==
    /\ Idle /\ queue # <<>> /\ queue' = Tail(queue)
    /\ st' = [st EXCEPT ![Head(queue)] = "resuming"]
    /\ UNCHANGED <<closed, buf, eof, pending, wait_vars, claimed, sent, wrapper_vars, loop_vars>>

\* Its awaitable ends: the guard in the wrapper's await_resume() destroys it.
release(r) ==
    IF r \in direct THEN UNCHANGED wrapper_vars
    ELSE cached' = None /\ owner_' = None /\ owns_' = owns_ \ {r} /\ UNCHANGED <<direct, bound>>

resume(r) ==
    /\ st[r] = "resuming" /\ retire({r}) /\ release(r)
    /\ IF r \in canceled THEN resume_canceled(r) ELSE await_resume(r, at[r])
    /\ UNCHANGED <<eof, firing, stopped, sent>>

-----------------------------------------------------------------------------
(* Destruction.                                                            *)

\* Mutant: the outer awaitable always destroys what the wrapper stores.
outer_destroyed_always(r) ==
    /\ retire({cached}) /\ unlink({cached})
    /\ cached' = None /\ owner_' = None /\ owns_' = owns_ \ {r} /\ UNCHANGED <<direct, bound>>

\* The outer awaitable of r is destroyed: it destroys the inner one when it owns it.
outer_destroyed(r) ==
    IF r \in owns_
    THEN /\ retire({cached}) /\ unlink({cached})
         /\ cached' = None /\ owner_' = None /\ owns_' = owns_ \ {r} /\ UNCHANGED <<direct, bound>>
    ELSE UNCHANGED <<live, active, at, canceled, pending, wrapper_vars>>

\* The coroutine of r is destroyed where it is suspended, or by the executor.
destroy(r) ==
    /\ Idle /\ (st[r] = "posted" \/ (st[r] = "suspended" /\ r \notin stopped))
    /\ st' = [st EXCEPT ![r] = "destroyed"] /\ queue' = SelectSeq(queue, LAMBDA q : q # r)
    /\ IF r \in direct THEN retire({r}) /\ unlink({r}) /\ UNCHANGED wrapper_vars
       ELSE outer_destroyed(r)
    /\ UNCHANGED <<closed, buf, eof, claimed, firing, stopped, sent, loop_vars>>

\* end_operation(): disown, and destroy the inner awaitable.
end_operation ==
    /\ owner_' = None /\ owns_' = owns_ \ {owner_}
    /\ retire({cached}) /\ unlink({cached} \ {None}) /\ cached' = None

\* The wrapper is assigned another wrapper, for end e, or destroyed (e = None).
assign(e) ==
    /\ Idle /\ bound # None /\ bound' = e
    /\ cached # None => st[cached] = "suspended" /\ cached \notin stopped
    /\ end_operation /\ UNCHANGED direct
    /\ UNCHANGED <<closed, buf, eof, claimed, firing, st, stopped, queue,
                   sent, loop_vars>>

-----------------------------------------------------------------------------
ReadStep(r) ==
    \/ read_some_ready(r) \/ read_some_stopped(r) \/ read_some_parks(r)
    \/ resume(r) \/ finish(r)

ReadNext ==
    \/ Idle /\ PeerStep /\ UNCHANGED <<wrapper_vars, loop_vars>>
    \/ executor_resumes
    \/ \E e \in Ends \cup {None} : assign(e)
    \/ \E r \in Readers :
           \/ read(r) \/ \E n \in Needs : read_at_least(r, n)
           \/ ReadStep(r) \/ destroy(r)
           \/ request_stop(r) /\ UNCHANGED <<wrapper_vars, loop_vars>>
           \/ CancelStep(r) /\ UNCHANGED <<wrapper_vars, loop_vars>>

-----------------------------------------------------------------------------
(* Properties.                                                             *)

\* No byte is lost, doubled or moved: what was sent to an end is what its readers
\* found there, each in the order of its buffers, and what is still to be read.
\* An operation that succeeds has the bytes it asked for, and one that fails,
\* with the errors that test::stream has, fewer.
BytesInOrder ==
    /\ \A e \in Ends : \A n \in 1 .. Len(sent[e]) :
           Cardinality({i \in DOMAIN buf[e] : buf[e][i] = n})
           + Cardinality({p \in Readers \X (1 .. Total) :
                              p[2] <= total[p[1]] /\ mem[p[1]][p[2]] = <<e, n>>}) = 1
    /\ \A r \in Readers : \A i, j \in 1 .. total[r] :
           i < j /\ mem[r][i][1] = mem[r][j][1] => mem[r][i][2] < mem[r][j][2]
    /\ \A r \in Readers : st[r] = "done" => (ec[r] = "success" <=> total[r] >= need[r])

\* Nothing points at what is gone.  A parked or queued reader has an awaitable,
\* and is where it is once; the wrapper, its outer awaitables and its streams
\* agree on whose awaitable it stores, also when it was assigned to while a read
\* was parked and another read was started before that one was unwound.
NoDanglingRead ==
    /\ \A e \in Ends : pending[e] # None =>
           pending[e] \in live /\ at[pending[e]] = e
    /\ \A i, j \in DOMAIN queue : queue[i] = queue[j] => i = j
    /\ \A r \in Readers : st[r] = "posted" <=> r \in ToSet(queue)
    /\ \A r \in ToSet(queue) \cup firing : r \in live
    /\ live \ direct = {cached} \ {None} /\ owner_ = cached /\ owns_ = {owner_} \ {None}
    /\ \A r \in live : st[r] \in {"suspended", "posted", "resuming"}

\* A parked read that has something to report is resumed: bytes, the end of the
\* stream, a pair closed by the fuse of either end, or a stop request.
ParkedReadEnds ==
    \A r \in Readers :
        (r \in live /\ (await_ready(at[r]) \/ r \in stopped)) ~> (r \notin live)

=============================================================================
