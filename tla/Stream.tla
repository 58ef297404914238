------------------------------- MODULE Stream -------------------------------
(***************************************************************************)
(* test::stream: the two in-memory stream ends of make_stream_pair(), what *)
(* their users do to them, and the awaitable of read_some(), which parks   *)
(* its coroutine at its end until there is something to report.            *)
(*                                                                         *)
(* Everything happens on one thread, as test::stream demands, except that  *)
(* stop may be requested from another.  A reader is a coroutine that reads *)
(* one end; its awaitable is named after it.  A byte is its position in    *)
(* what was sent to an end.                                                *)
(***************************************************************************)
EXTENDS Naturals, Sequences, SequencesExt, FiniteSets

CONSTANTS
    Readers,   \* the coroutines that read
    None,      \* a null pointer
    Stoppable, \* those whose stop token may be triggered
    MaxSend    \* a bound: the bytes that both ends are sent

Ends == {0, 1}

VARIABLES
    closed,   \* state::closed
    buf,      \* the bytes that each end can read
    eof,      \* whether the peer of each end called close()
    pending,  \* the read parked at each end, or None
    live,     \* the readers whose awaitable exists
    at,       \* the end that each awaitable reads
    claimed,  \* the awaitables whose resumption was claimed
    canceled, \* those whose stop callback claimed it
    firing,   \* those whose callback has yet to post what it claimed
    active,   \* stop_cb_active_
    st,       \* where each reader is
    stopped,  \* the readers whose stop token was triggered
    queue,    \* the executor's queue
    sent      \* the bytes that were sent to each end

wait_vars == <<live, at, canceled, firing, active, stopped>>
stream_vars ==
    <<closed, buf, eof, pending, wait_vars, claimed, st, queue, sent>>

StreamInit ==
    /\ closed = "no" /\ buf = [e \in Ends |-> <<>>] /\ eof = [e \in Ends |-> "no"]
    /\ pending = [e \in Ends |-> None]
    /\ live = {} /\ at = [r \in Readers |-> None]
    /\ claimed = {} /\ canceled = {} /\ firing = {} /\ active = {}
    /\ st = [r \in Readers |-> "new"]
    /\ stopped = {} /\ queue = <<>> /\ sent = [e \in Ends |-> <<>>]

-----------------------------------------------------------------------------
(* Wakeups and the peers.                                                  *)

\* The executor queues the continuations in q; S is st so far.
post(q, S) ==
    /\ queue' = queue \o q
    /\ st' = [r \in Readers |-> IF r \in ToSet(q) THEN "posted" ELSE S[r]]

ParkedAt(W) == SelectSeq(<<pending[0], pending[1]>>,
                         LAMBDA r : r # None /\ \E e \in W : pending[e] = r)

\* state::wake() for the sides in W: what is parked is taken, and posted when
\* its stop callback has not claimed it.
wake(W, S) ==
    /\ pending' = [e \in Ends |-> IF e \in W THEN None ELSE pending[e]]
    /\ claimed' = claimed \cup ToSet(ParkedAt(W))
    /\ post(SelectSeq(ParkedAt(W), LAMBDA r : r \notin claimed), S)

Sent(e, k) == [i \in 1 .. k |-> Len(sent[e]) + i]

append(e, k) ==
    /\ Len(sent[0]) + Len(sent[1]) + k <= MaxSend
    /\ buf' = [buf EXCEPT ![e] = @ \o Sent(e, k)]
    /\ sent' = [sent EXCEPT ![e] = @ \o Sent(e, k)]

\* write_some() of k bytes by the peer of e, when the fuse lets it pass.
write_some(e, k) ==
    /\ closed = "no" /\ append(e, k) /\ wake({e}, st)
    /\ UNCHANGED <<closed, eof, wait_vars>>

\* Mutant: only the end that the failed operation is about is woken.
close_pair_one(e, S) == closed' = "yes" /\ wake({e}, S)

\* state::close(), made by the close_guard of an operation on e that the fuse
\* fails: it wakes both sides.
close_pair(e, S) == closed' = "yes" /\ wake(Ends, S)

\* write_some() by the peer of e when the fuse fails it, with an error code or
\* an exception.
write_fails(e) ==
    /\ closed = "no" /\ close_pair(e, st)
    /\ UNCHANGED <<buf, eof, sent, wait_vars>>

\* provide() by the peer of e passes by the fuse.
provide(e, k) ==
    /\ append(e, k) /\ wake({e}, st)
    /\ UNCHANGED <<closed, eof, wait_vars>>

\* close() by the peer of e.
close(e) ==
    /\ eof[e] = "no" /\ eof' = [eof EXCEPT ![e] = "yes"] /\ wake({e}, st)
    /\ UNCHANGED <<closed, buf, sent, wait_vars>>

PeerStep ==
    \E e \in Ends :
        \/ write_fails(e) \/ close(e)
        \/ \E k \in 1 .. MaxSend : write_some(e, k) \/ provide(e, k)

-----------------------------------------------------------------------------
(* The awaitable of read_some().                                           *)

\* await_ready(): there is something to report.
await_ready(e) == closed = "yes" \/ eof[e] = "yes" \/ buf[e] # <<>>

\* await_suspend(), when stop was not requested before.  A stop requested while
\* the callback is being registered runs it at once, which is as if it came
\* right after: the coroutine is only posted.
await_suspend(r, e) ==
    /\ ~await_ready(e) /\ r \notin stopped
    /\ live' = live \cup {r} /\ at' = [at EXCEPT ![r] = e]
    /\ pending' = [pending EXCEPT ![e] = r] /\ active' = active \cup {r}
    /\ claimed' = claimed \ {r} /\ canceled' = canceled \ {r}
    /\ st' = [st EXCEPT ![r] = "suspended"]
    /\ UNCHANGED <<closed, buf, eof, firing, stopped, queue, sent>>

request_stop(r) ==
    /\ r \in Stoppable \ stopped /\ st[r] \in {"running", "suspended", "posted"}
    /\ stopped' = stopped \cup {r}
    /\ UNCHANGED <<closed, buf, eof, pending, live, at, claimed, canceled, firing,
                   active, st, queue, sent>>

\* cancel_fn: the stop callback claims the resumption, and then posts it.
cancel_claim(r) ==
    /\ r \in stopped /\ r \in active /\ r \notin claimed
    /\ claimed' = claimed \cup {r} /\ canceled' = canceled \cup {r}
    /\ firing' = firing \cup {r}
    /\ UNCHANGED <<closed, buf, eof, pending, live, at, active, st, stopped, queue, sent>>

cancel_post(r) ==
    /\ r \in firing /\ firing' = firing \ {r} /\ post(<<r>>, st)
    /\ UNCHANGED <<closed, buf, eof, pending, live, at, claimed, canceled, active,
                   stopped, sent>>

\* ~awaitable, and await_resume() of a canceled read: unlink what is parked.
unlink(D) == pending' = [e \in Ends |-> IF pending[e] \in D THEN None ELSE pending[e]]

\* The awaitables in D end, when no callback of theirs is running any more.
retire(D) ==
    /\ D \cap firing = {} /\ live' = live \ D /\ active' = active \ D
    /\ canceled' = canceled \ D
    /\ at' = [r \in Readers |-> IF r \in D THEN None ELSE at[r]]

CancelStep(r) == cancel_claim(r) \/ cancel_post(r)

=============================================================================
