-------------------------------- MODULE Fuse --------------------------------
(***************************************************************************)
(* test::fuse::armed(): it runs a test again and again, and in each round  *)
(* lets the calls of maybe_fail() fail from one point on, first with error *)
(* codes and then with exceptions, until a round meets no failure.         *)
(***************************************************************************)
EXTENDS Naturals

VARIABLES
    phase,      \* of armed(): "new", "codes", "throws", "over"
    round,      \* "between" rounds, or a round is "on"
    n, i,       \* the failure point, and the calls counted in this round
    triggered,
    failed      \* the calls that were the first to fail in a round, by phase

fuse_vars == <<phase, round, n, i, triggered, failed>>

\* The largest std::size_t stands for no failure point yet: any number above the
\* rounds that there are.
NoPoint == 2147483647

FuseInit ==
    /\ phase = "new" /\ round = "between" /\ n = NoPoint /\ i = 0 /\ triggered = "no"
    /\ failed = [p \in {"codes", "throws"} |-> {}]

\* armed() begins with error codes.
arm ==
    /\ phase = "new" /\ phase' = "codes" /\ n' = NoPoint
    /\ UNCHANGED <<round, i, triggered, failed>>

\* operator bool lets another round begin.
next_round ==
    /\ phase \in {"codes", "throws"} /\ round = "between" /\ round' = "on"
    /\ \/ n = NoPoint /\ n' = 0 /\ UNCHANGED <<i, triggered>>
       \/ n # NoPoint /\ triggered = "yes" /\ n' = n + 1 /\ i' = 0 /\ triggered' = "no"
    /\ UNCHANGED <<phase, failed>>

\* Mutant: the second phase goes on with the counters of the first.
next_phase_unreset ==
    /\ phase \in {"codes", "throws"} /\ round = "between" /\ n # NoPoint /\ triggered = "no"
    /\ phase' = (IF phase = "codes" THEN "throws" ELSE "over")
    /\ n' = NoPoint
    /\ UNCHANGED <<round, i, triggered, failed>>

\* It ends the phase, which begins the second or ends the loop.
next_phase ==
    /\ phase \in {"codes", "throws"} /\ round = "between" /\ n # NoPoint /\ triggered = "no"
    /\ phase' = (IF phase = "codes" THEN "throws" ELSE "over")
    /\ IF phase = "codes" THEN n' = NoPoint /\ i' = 0 ELSE UNCHANGED <<n, i>>
    /\ UNCHANGED <<round, triggered, failed>>

\* The round is over: the test returned, or threw what the fuse made it throw.
end_round == round' = "between"

\* maybe_fail() counts up to the failure point, and there it fails.
Count == IF i < n THEN i + 1 ELSE i
Fires == Count = n

maybe_fail(k) ==
    /\ i' = Count /\ triggered' = IF Fires THEN "yes" ELSE triggered
    /\ failed' = IF Fires /\ triggered = "no"
                 THEN [failed EXCEPT ![phase] = @ \cup {k}] ELSE failed
    /\ UNCHANGED <<phase, n>>

=============================================================================
