------------------------------- MODULE Armed --------------------------------
(***************************************************************************)
(* A coroutine test under fuse::armed(): in each round it makes a          *)
(* test::write_stream, writes the same buffers to it with one write        *)
(* operation after another, and returns at the first error, or ends with   *)
(* the exception that the fuse throws.  The stream expects nothing, and    *)
(* nobody requests stop: run_blocking() is given no stop token.            *)
(***************************************************************************)
EXTENDS Fuse, Buffers

CONSTANTS
    WriteSizes, \* the sizes of the buffers
    MaxWrite,   \* max_write_size
    Ops         \* the operations of the test, in order: their kinds and needs

total_size == buffer_size(WriteSizes)

ASSUME WritesAreReal ==
    /\ WriteSizes \in Seq(Nat) /\ MaxWrite \in Nat \ {0} /\ Len(Ops) > 0
    /\ \A j \in DOMAIN Ops :
           /\ Ops[j].kind \in {"write", "write_at_least", "write_now"}
           /\ Ops[j].kind # "write_at_least" => Ops[j].need = total_size

VARIABLES
    op,             \* the operation that the test is in
    total_written, first_w, skip_w, \* its loop
    data_,          \* what the stream has: bytes, each with its operation
    report,         \* what the operations of this round reported
    calls           \* the calls of maybe_fail() in this round

write_vars == <<op, total_written, first_w, skip_w, data_, report, calls>>
armed_vars == <<fuse_vars, write_vars>>

ArmedInit ==
    /\ FuseInit /\ op = 1 /\ total_written = 0 /\ first_w = 1 /\ skip_w = 0
    /\ data_ = <<>> /\ report = <<>> /\ calls = 0

\* The test begins anew.
begin_round ==
    /\ next_round /\ op' = 1 /\ total_written' = 0 /\ first_w' = 1 /\ skip_w' = 0
    /\ data_' = <<>> /\ report' = <<>> /\ calls' = 0

\* An operation reports: the test goes on with the next, or returns.
Report(x, k) ==
    /\ report' = Append(report, [ec |-> x, n |-> k])
    /\ IF x = "success" /\ op < Len(Ops)
       THEN op' = op + 1 /\ UNCHANGED round ELSE end_round /\ UNCHANGED op
    /\ total_written' = 0 /\ first_w' = 1 /\ skip_w' = 0

\* write_at_least() is asked for more than there is.
write_invalid ==
    /\ round = "on" /\ Ops[op].need > total_size /\ Report("invalid_argument", 0)
    /\ UNCHANGED <<phase, n, i, triggered, failed, data_, calls>>

\* The loop of write(), write_at_least() or write_now is done.
write_ends ==
    /\ round = "on" /\ Ops[op].need <= total_size /\ total_written >= Ops[op].need
    /\ Report("success", total_written)
    /\ UNCHANGED <<phase, n, i, triggered, failed, data_, calls>>

Remaining == total_size - data(WriteSizes, first_w, skip_w)

InWrite ==
    /\ round = "on" /\ total_written < Ops[op].need /\ Ops[op].need <= total_size
    /\ Remaining > 0

\* write_some() stores as many bytes as it may, and the loop counts them.
write_some_stores ==
    LET from == data(WriteSizes, first_w, skip_w)
        k == IF Remaining < MaxWrite THEN Remaining ELSE MaxWrite
        c == consume(WriteSizes, first_w, skip_w, k)
    IN  /\ InWrite /\ ~Fires /\ maybe_fail(calls + 1) /\ calls' = calls + 1
        /\ data_' = data_ \o [j \in 1 .. k |-> <<op, from + j>>]
        /\ first_w' = c[1] /\ skip_w' = c[2] /\ total_written' = total_written + k
        /\ UNCHANGED <<round, op, report>>

\* It fails with an error code, which the loop reports.
write_some_fails ==
    /\ InWrite /\ Fires /\ phase = "codes" /\ maybe_fail(calls + 1) /\ calls' = calls + 1
    /\ Report("fuse", total_written) /\ UNCHANGED data_

\* It throws through the loop and the test to run_blocking(), which rethrows.
write_some_throws ==
    /\ InWrite /\ Fires /\ phase = "throws" /\ maybe_fail(calls + 1) /\ calls' = calls + 1
    /\ end_round /\ UNCHANGED <<op, total_written, first_w, skip_w, data_, report>>

ArmedStep ==
    \/ (arm \/ next_phase) /\ UNCHANGED write_vars
    \/ begin_round
    \/ write_invalid \/ write_ends
    \/ write_some_stores \/ write_some_fails \/ write_some_throws

-----------------------------------------------------------------------------
(* Properties.                                                             *)

\* What an operation reports is what the stream has of it: the first n bytes of
\* its buffers in their order and nothing else, whether it succeeds, which it does
\* with what it was asked for, or fails with fewer.  An operation that was cut
\* short by an exception has stored what its loop counted.
WritesAreReported ==
    /\ \A j \in DOMAIN Ops :
           SelectSeq(data_, LAMBDA b : b[1] = j) =
           [x \in 1 .. (IF j <= Len(report) THEN report[j].n
                        ELSE IF j = op THEN total_written ELSE 0) |-> <<j, x>>]
    /\ \A j \in DOMAIN report : report[j].ec = "success" <=> report[j].n >= Ops[j].need

\* armed() comes to an end, and by then every call of maybe_fail() that the test
\* makes when nothing fails was the first to fail in some round, once with an error
\* code and once with an exception.
ArmedCoversEveryPoint ==
    <>(/\ phase = "over" /\ calls > 0
       /\ \A p \in DOMAIN failed : failed[p] = 1 .. calls)
=============================================================================
