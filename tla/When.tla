-------------------------------- MODULE When --------------------------------
(***************************************************************************)
(* The two joins as complete systems: the common part, and the recording   *)
(* steps of when_all or of when_any.                                       *)
(***************************************************************************)
EXTENDS WhenAll, WhenAny

vars == <<jvars, all_vars, any_vars>>

Init == JoinInit /\ AllInit /\ AnyInit

RecordStep ==
    \E b \in Branches :
        \/ mode = "all" /\ AllStep(b) /\ UNCHANGED any_vars
        \/ mode = "any" /\ AnyStep(b) /\ UNCHANGED all_vars

Step ==
    /\ parent # "terminated"
    /\ RecordStep \/ (JoinStep /\ UNCHANGED <<all_vars, any_vars>>)

\* The parent is done, and so is everybody else, or the process has ended.
Finished ==
    /\ \/ parent = "terminated"
       \/ /\ parent \in {"returned", "dropped", "destroyed"} /\ pcb = "done"
          /\ \A b \in Branches : pc[b] = "gone"
    /\ UNCHANGED vars

Next ==
    \/ Step \/ Finished
    \/ parent # "terminated" /\ parent_stop /\ UNCHANGED <<all_vars, any_vars>>

Spec == Init /\ [][Next]_vars

\* The executor runs what it is given, threads keep running, and every branch
\* ends.
FairSpec == Spec /\ WF_vars(Step)

-----------------------------------------------------------------------------
(* Properties.                                                             *)

Ended(o) == {b \in Branches : outcome[b] = o}

\* The runners that will still touch the shared state.
Touching == {b \in Branches : pc[b] # "gone"}

\* The parent hears of the join exactly once, after every branch has ended and
\* released its share, and it is given up exactly if a branch was lost.  Nobody reaches
\* the state after the frame that holds it is gone: no runner, no launch in progress or
\* cut short, no callback that has yet to copy the stop source.
JoinEndsOnce ==
    /\ settles <= 1
    /\ remaining = Cardinality({b \in Branches : pc[b] \notin {"gone", "last"}})
    /\ settles = 1 =>
          /\ remaining = 0 /\ Touching = {} /\ launched = N
          /\ parent \in {"abandoned", "destroyed"} <=> Ended("lost") # {}
    /\ alive = "no" => settles = 1 /\ pcb \notin {"copying", "borrowing"}

\* The result is the one documented.  when_all: any exception beats any error,
\* and success means that every value is there.  when_any: a branch won exactly
\* if one succeeded, and its value is there or what the move of it threw; else the
\* failure reported is that of a branch.
ResultIsRight ==
    parent = "returned" =>
        /\ mode = "all" =>
             LET r == all_result IN
             IF Ended("throw") # {} THEN r[1] = "throw" /\ r[2] \in Ended("throw")
             ELSE IF Ended("error") # {} THEN r[1] = "error" /\ r[2] \in Ended("error")
             ELSE r = <<"values", Branches>>
        /\ mode = "any" =>
             LET r == any_result IN
             IF Ended("ok") # {}
             THEN /\ r[2] \in Ended("ok") /\ payload # "none"
                  /\ r[1] = (IF payload = "threw" THEN "throw" ELSE "winner")
             ELSE \E b \in Branches : r = <<outcome[b], b>>

\* Stop reaches the other branches before the branch that is the reason for it
\* releases its share: a failure in when_all, the win in when_any, a loss.
StopComesFirst ==
    \A b \in Branches :
        pc[b] \in {"sub", "lsub", "last", "gone"} =>
            /\ mode = "all" /\ outcome[b] \in {"error", "throw"} => stop = "yes"
            /\ mode = "any" /\ winner = b => stop = "yes"
            /\ outcome[b] = "lost" => stop = "yes"

\* The join comes to an end, or the process does.
JoinEnds == <>(parent \in {"returned", "dropped", "destroyed", "terminated"})
=============================================================================
