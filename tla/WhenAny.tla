------------------------------ MODULE WhenAny -------------------------------
(***************************************************************************)
(* when_any: what its runners record.  The first branch that succeeds      *)
(* claims the win with an exchange, requests stop for the others and       *)
(* stores its value, which may throw; a failure is only remembered.        *)
(***************************************************************************)
EXTENDS Join

VARIABLES
    has_winner, winner,    \* claimed; winner_index_, or 0
    payload,               \* result_: "none", "stored", or "threw"
    failure                \* the failure remembered last, <<"none", 0>> at first

any_vars == <<has_winner, winner, payload, failure>>

AnyInit ==
    /\ has_winner = "no" /\ winner = 0 /\ payload = "none" /\ failure = <<"none", 0>>

\* Mutant: a branch that fails with an error claims the win.
any_claim_error(b) ==
    /\ pc[b] = "record"
    /\ IF outcome[b] # "throw"
       THEN /\ Goto(b, IF has_winner = "no" THEN "write" ELSE "final")
            /\ has_winner' = "yes" /\ UNCHANGED failure
       ELSE /\ Goto(b, "final") /\ failure' = <<outcome[b], b>>
            /\ UNCHANGED has_winner
    /\ UNCHANGED <<mode, join_vars, stop_vars, parent_vars, outcome, winner, payload>>

\* A success tries to win; an error or an exception is remembered, under a lock.
any_claim(b) ==
    /\ pc[b] = "record"
    /\ IF outcome[b] = "ok"
       THEN /\ Goto(b, IF has_winner = "no" THEN "write" ELSE "final")
            /\ has_winner' = "yes" /\ UNCHANGED failure
       ELSE /\ Goto(b, "final") /\ failure' = <<outcome[b], b>>
            /\ UNCHANGED has_winner
    /\ UNCHANGED <<mode, join_vars, stop_vars, parent_vars, outcome, winner, payload>>

\* try_win() writes winner_index_ and then requests stop.
any_write(b) ==
    /\ pc[b] = "write" /\ Goto(b, "stop") /\ winner' = b
    /\ UNCHANGED <<mode, join_vars, stop_vars, parent_vars, outcome, has_winner,
                   payload, failure>>

\* The winner stores its value; the move may throw.
any_emplace(b) ==
    /\ pc[b] = "emplace" /\ Goto(b, "final") /\ payload' \in {"stored", "threw"}
    /\ UNCHANGED <<mode, join_vars, stop_vars, parent_vars, outcome, has_winner,
                   winner, failure>>

AnyStep(b) ==
    \/ any_claim(b) \/ any_write(b) \/ any_emplace(b)
    \/ runner_stops(b, "emplace") /\ UNCHANGED any_vars

\* What the parent returns.
any_result ==
    IF has_winner = "yes"
    THEN IF payload = "threw" THEN <<"throw", winner>> ELSE <<"winner", winner>>
    ELSE failure
=============================================================================
