------------------------------ MODULE WhenProofs ------------------------------
(***************************************************************************)
(* The joins are right for every number of branches: they end once, after  *)
(* every branch has let go of the shared state, stop reaches the siblings  *)
(* in time, and the parent returns the result that is documented.          *)
(***************************************************************************)
EXTENDS When, FiniteSetTheorems, TLAPS

\* Every leaf is for Zenon unless it names another prover.
USE Zenon

-----------------------------------------------------------------------------
(* The inductive invariant.                                                *)

Pcs == {"new", "queued", "running", "record", "write", "stop", "emplace", "final", "sub",
        "lose", "lsub", "last", "gone"}

Types ==
    /\ mode \in {"all", "any"} /\ alive \in {"yes", "no"}
    /\ parent \in {"start", "launching", "waiting", "terminated", "resumed", "abandoned",
                   "returned", "dropped", "destroyed"}
    /\ launched \in Nat /\ remaining \in Nat /\ settles \in {0, 1}
    /\ pc \in [Branches -> Pcs]
    /\ outcome \in [Branches -> {"none", "ok", "error", "throw", "lost"}]
    /\ lost \in {"yes", "no"} /\ stop \in {"yes", "no"} /\ pstop \in {"yes", "no"}
    /\ pcb \in {"none", "registered", "copying", "requesting", "done"}
    /\ values \subseteq Branches
    /\ has_error \in {"yes", "no"} /\ first_error \in 0 .. N
    /\ has_exception \in {"yes", "no"} /\ first_exception \in 0 .. N
    /\ has_winner \in {"yes", "no"} /\ winner \in 0 .. N
    /\ payload \in {"none", "stored", "threw"}

\* The branches that have not released their share.
Unreleased == {b \in Branches : pc[b] \notin {"gone", "last"}}

Counted == remaining = Cardinality(Unreleased)

\* How far the join is: the runners are launched in order, and it is settled when all
\* of them are gone.  A runner that released the last share has no siblings left.
Stages ==
    /\ launched <= N
    /\ \A b \in Branches : pc[b] = "new" <=> b > launched
    /\ launched < N <=> parent \in {"start", "launching", "terminated"}
    /\ settles = 0 <=> parent \in {"start", "launching", "waiting", "terminated"}
    /\ settles = 1 => \A b \in Branches : pc[b] = "gone"
    /\ \A b \in Branches : pc[b] = "last" =>
           settles = 0 /\ \A c \in Branches \ {b} : pc[c] = "gone"
    /\ alive = "no" <=> parent \in {"returned", "dropped", "destroyed"}
    /\ alive = "no" => pcb \in {"requesting", "done"}
    /\ pcb = "none" => parent = "start"

\* What a branch's place says of its outcome, and that a lost one is known to be.
Outcomes ==
    /\ \A b \in Branches :
           /\ pc[b] \in {"new", "queued", "running"} => outcome[b] = "none"
           /\ pc[b] \in {"record", "write", "stop", "emplace"} =>
                  outcome[b] \in {"ok", "error", "throw"}
           /\ pc[b] \in {"final", "sub", "last", "gone"} => outcome[b] # "none"
           /\ pc[b] = "lsub" => outcome[b] = "lost"
           /\ pc[b] = "lose" => outcome[b] \in {"none", "lost"}
           /\ pc[b] \in {"sub", "lsub", "last", "gone"} /\ outcome[b] = "lost" =>
                  lost = "yes" /\ stop = "yes"
    /\ lost = "yes" => \E b \in Branches : outcome[b] = "lost"
    /\ parent \in {"abandoned", "destroyed"} => lost = "yes"
    /\ parent \in {"resumed", "returned", "dropped"} => lost = "no"

\* What the runners of when_all have recorded.
AllRecords ==
    mode = "all" =>
    /\ \A b \in Branches :
           /\ pc[b] \in {"final", "sub", "last", "gone"} =>
                  /\ outcome[b] = "ok" => b \in values
                  /\ outcome[b] \in {"error", "throw"} => stop = "yes"
           /\ pc[b] \in {"write", "stop", "final", "sub", "last", "gone"} =>
                  /\ outcome[b] = "error" => has_error = "yes"
                  /\ outcome[b] = "throw" => has_exception = "yes"
           /\ pc[b] \in {"write", "stop"} => outcome[b] \in {"error", "throw"}
           /\ first_error = b => outcome[b] = "error"
           /\ first_exception = b => outcome[b] = "throw"
    /\ has_error = "yes" =>
           first_error # 0 \/ \E b \in Branches : pc[b] = "write" /\ outcome[b] = "error"
    /\ has_exception = "yes" =>
           first_exception # 0 \/ \E b \in Branches : pc[b] = "write" /\ outcome[b] = "throw"

\* What the runners of when_any have recorded.
AnyRecords ==
    mode = "any" =>
    /\ \A b \in Branches :
           /\ pc[b] \in {"write", "stop", "emplace", "final", "sub", "last", "gone"} =>
                  /\ outcome[b] = "ok" => has_winner = "yes"
                  /\ outcome[b] \in {"error", "throw"} => failure # <<"none", 0>>
           /\ pc[b] = "write" => outcome[b] = "ok"
           /\ winner = b => outcome[b] = "ok" /\ (pc[b] = "stop" \/ stop = "yes")
    /\ has_winner = "yes" => winner # 0 \/ \E b \in Branches : pc[b] = "write"
    /\ has_winner = "yes" =>
           payload # "none" \/ \E b \in Branches : pc[b] \in {"write", "stop", "emplace"}
    /\ \/ failure = <<"none", 0>>
       \/ \E b \in Branches :
              failure = <<outcome[b], b>> /\ outcome[b] \in {"error", "throw"}

IInv == Types /\ Counted /\ Stages /\ Outcomes /\ AllRecords /\ AnyRecords

-----------------------------------------------------------------------------
(* Counting.                                                               *)

\* The set that remaining_count_ counts is finite.
LEMMA Finite == IsFiniteSet(Unreleased) /\ Cardinality(Unreleased) \in Nat
<1>1. IsFiniteSet(Branches)
    BY NAssumption, FS_Interval, SMTT(30) DEF Branches
<1>2. Unreleased \in SUBSET Branches
    BY DEF Unreleased
<1> QED BY <1>1, <1>2, FS_Subset, FS_CardinalityType

\* A step of a runner that keeps its share.
LEMMA Keeps ==
  ASSUME Types, Counted, NEW b \in Branches, NEW l, Goto(b, l), remaining' = remaining,
         pc[b] \in {"gone", "last"} <=> l \in {"gone", "last"}
  PROVE  Counted'
<1>1. Unreleased' = Unreleased
    BY DEF Types, Unreleased, Goto
<1> QED BY <1>1 DEF Counted

\* A runner releases its share; if it was the last one it has no siblings left.
LEMMA Releases ==
  ASSUME Types, Counted, NEW b \in Branches, NEW l \in {"gone", "last"}, Goto(b, l),
         pc[b] \notin {"gone", "last"}, remaining' = remaining - 1
  PROVE  /\ Counted' /\ remaining' \in Nat
         /\ remaining = 1 => \A c \in Branches \ {b} : pc[c] \in {"gone", "last"}
<1>1. Unreleased' = Unreleased \ {b} /\ b \in Unreleased
    BY DEF Types, Unreleased, Goto
<1>2. /\ IsFiniteSet(Unreleased \ {b})
      /\ Cardinality(Unreleased \ {b}) = Cardinality(Unreleased) - 1
    BY <1>1, Finite, FS_RemoveElement
<1>3. Cardinality(Unreleased \ {b}) \in Nat
    BY <1>2, FS_CardinalityType
<1>4. Cardinality(Unreleased \ {b}) = 0 => Unreleased \ {b} = {}
    BY <1>2, FS_EmptySet
<1>5. remaining = Cardinality(Unreleased)
    BY DEF Counted
<1>6. Counted'
    BY <1>1, <1>2, <1>5 DEF Counted
<1>7. remaining' \in Nat
    BY <1>2, <1>3, <1>5
<1>8. remaining = 1 => Unreleased \ {b} = {}
    BY <1>2, <1>4, <1>5, SMTT(30)
<1> QED BY <1>6, <1>7, <1>8 DEF Unreleased

-----------------------------------------------------------------------------
(* The steps, one lemma each.                                              *)

\* await_suspend() starts the launch.
LEMMA LaunchStep ==
  ASSUME IInv, launch, UNCHANGED <<all_vars, any_vars>>
  PROVE  IInv'
<1> USE NAssumption DEF Branches, launch, stop_vars, join_vars, parent_vars, all_vars,
      any_vars, Goto
<1>0. Types /\ Counted /\ Stages /\ Outcomes /\ AllRecords /\ AnyRecords
    BY DEF IInv
<1>1. Types'
    BY <1>0, SMTT(30) DEF Types, Pcs, Stages
<1>2. Counted'
    BY <1>0 DEF Counted, Unreleased
<1>3. Stages'
    BY <1>0 DEF Types, Stages
<1>4. Outcomes'
    BY <1>0, SMTT(30) DEF Types, Outcomes, Stages
<1>5. AllRecords'
    BY <1>0, SMTT(30) DEF Types, Outcomes, AllRecords
<1>6. AnyRecords'
    BY <1>0, SMTT(30) DEF Types, Outcomes, AnyRecords
<1> QED BY <1>1, <1>2, <1>3, <1>4, <1>5, <1>6 DEF IInv

\* The next runner is posted, or destroyed at once.
LEMMA LaunchOneStep ==
  ASSUME IInv, launch_one, UNCHANGED <<all_vars, any_vars>>
  PROVE  IInv'
<1> USE NAssumption DEF Branches, launch_one, stop_vars, join_vars, parent_vars, all_vars,
      any_vars, Goto
<1>0. Types /\ Counted /\ Stages /\ Outcomes /\ AllRecords /\ AnyRecords
    BY DEF IInv
<1>a. /\ launched' = launched + 1 /\ launched' \in Branches /\ pc[launched'] = "new"
      /\ launched < N
    BY <1>0, SMTT(30) DEF Types, Stages
<1>1. Types'
    BY <1>0, <1>a, SMTT(30) DEF Types, Pcs, Stages
<1>2. Counted'
  <2>1. Unreleased' = Unreleased
    BY <1>0, <1>a DEF Types, Unreleased
  <2> QED BY <1>0, <2>1 DEF Counted
<1>3. Stages'
    BY <1>0, <1>a, SMTT(30) DEF Types, Stages
<1>4. Outcomes'
    BY <1>0, <1>a, SMTT(30) DEF Types, Outcomes, Stages
<1>5. AllRecords'
    BY <1>0, <1>a, SMTT(30) DEF Types, Outcomes, AllRecords
<1>6. AnyRecords'
    BY <1>0, <1>a, SMTT(30) DEF Types, Outcomes, AnyRecords
<1> QED BY <1>1, <1>2, <1>3, <1>4, <1>5, <1>6 DEF IInv

\* A launch that fails ends the process.
LEMMA LaunchThrowsStep ==
  ASSUME IInv, launch_throws, UNCHANGED <<all_vars, any_vars>>
  PROVE  IInv'
<1> USE NAssumption DEF Branches, launch_throws, stop_vars, join_vars, parent_vars, all_vars,
      any_vars, Goto
<1>0. Types /\ Counted /\ Stages /\ Outcomes /\ AllRecords /\ AnyRecords
    BY DEF IInv
<1>1. Types'
    BY <1>0, SMTT(30) DEF Types, Pcs, Stages
<1>2. Counted'
    BY <1>0 DEF Counted, Unreleased
<1>3. Stages'
    BY <1>0 DEF Types, Stages
<1>4. Outcomes'
    BY <1>0 DEF Types, Outcomes, Stages
<1>5. AllRecords'
    BY <1>0, SMTT(30) DEF Types, Outcomes, AllRecords
<1>6. AnyRecords'
    BY <1>0 DEF Types, Outcomes, AnyRecords
<1> QED BY <1>1, <1>2, <1>3, <1>4, <1>5, <1>6 DEF IInv

\* The parent's stop request is forwarded.
LEMMA ForwardStep ==
  ASSUME IInv, forward_copy \/ forward_stop \/ parent_stop, UNCHANGED <<all_vars, any_vars>>
  PROVE  IInv'
<1> USE NAssumption DEF Branches, forward_copy, forward_stop, parent_stop, stop_vars,
      join_vars, parent_vars, all_vars, any_vars, Goto
<1>0. Types /\ Counted /\ Stages /\ Outcomes /\ AllRecords /\ AnyRecords
    BY DEF IInv
<1>1. Types'
    BY <1>0, SMTT(30) DEF Types, Pcs, Stages
<1>2. Counted'
    BY <1>0 DEF Counted, Unreleased
<1>3. Stages'
    BY <1>0, SMTT(30) DEF Types, Stages
<1>4. Outcomes'
    BY <1>0, SMTT(30) DEF Types, Outcomes, Stages
<1>5. AllRecords'
    BY <1>0, SMTT(30) DEF Types, Outcomes, AllRecords
<1>6. AnyRecords'
    BY <1>0, SMTT(30) DEF Types, Outcomes, AnyRecords
<1> QED BY <1>1, <1>2, <1>3, <1>4, <1>5, <1>6 DEF IInv

\* The parent's frame goes.
LEMMA ParentEndsStep ==
  ASSUME IInv, parent_ends, UNCHANGED <<all_vars, any_vars>>
  PROVE  IInv'
<1> USE NAssumption DEF Branches, parent_ends, stop_vars, join_vars, parent_vars, all_vars,
      any_vars, Goto
<1>0. Types /\ Counted /\ Stages /\ Outcomes /\ AllRecords /\ AnyRecords
    BY DEF IInv
<1>1. Types'
    BY <1>0, SMTT(30) DEF Types, Pcs, Stages
<1>2. Counted'
    BY <1>0 DEF Counted, Unreleased
<1>3. Stages'
    BY <1>0 DEF Types, Stages
<1>4. Outcomes'
    BY <1>0, SMTT(30) DEF Types, Outcomes, Stages
<1>5. AllRecords'
    BY <1>0 DEF Types, Outcomes, AllRecords
<1>6. AnyRecords'
    BY <1>0 DEF Types, Outcomes, AnyRecords
<1> QED BY <1>1, <1>2, <1>3, <1>4, <1>5, <1>6 DEF IInv

\* The executor starts a runner, or gives it up.
LEMMA StartStep ==
  ASSUME IInv, NEW b \in Branches, start(b), UNCHANGED <<all_vars, any_vars>>
  PROVE  IInv'
<1> USE NAssumption DEF Branches, start, stop_vars, join_vars, parent_vars, all_vars,
      any_vars, Goto
<1>0. Types /\ Counted /\ Stages /\ Outcomes /\ AllRecords /\ AnyRecords
    BY DEF IInv
<1>1. Types'
    BY <1>0, SMTT(30) DEF Types, Pcs, Stages
<1>2. Counted'
    BY <1>0, Keeps DEF Counted, Unreleased
<1>3. Stages'
    BY <1>0, SMTT(30) DEF Types, Stages
<1>4. Outcomes'
    BY <1>0, SMTT(30) DEF Types, Outcomes, Stages
<1>5. AllRecords'
    BY <1>0, SMTT(30) DEF Types, Outcomes, AllRecords
<1>6. AnyRecords'
    BY <1>0, SMTT(30) DEF Types, Outcomes, AnyRecords
<1> QED BY <1>1, <1>2, <1>3, <1>4, <1>5, <1>6 DEF IInv

\* A branch ends with a result.
LEMMA EndsStep ==
  ASSUME IInv, NEW b \in Branches, branch_ends(b), UNCHANGED <<all_vars, any_vars>>
  PROVE  IInv'
<1> USE NAssumption DEF Branches, branch_ends, stop_vars, join_vars, parent_vars, all_vars,
      any_vars, Goto
<1>0. Types /\ Counted /\ Stages /\ Outcomes /\ AllRecords /\ AnyRecords
    BY DEF IInv
<1>a. PICK o \in {"ok", "error", "throw"} : outcome' = [outcome EXCEPT ![b] = o]
    OBVIOUS
<1>1. Types'
    BY <1>0, <1>a, SMTT(30) DEF Types, Pcs, Stages
<1>2. Counted'
    BY <1>0, Keeps DEF Counted, Unreleased
<1>3. Stages'
    BY <1>0, <1>a DEF Types, Stages
<1>4. Outcomes'
    BY <1>0, <1>a, SMTT(30) DEF Types, Outcomes, Stages
<1>5. AllRecords'
    BY <1>0, <1>a, SMTT(30) DEF Types, Outcomes, AllRecords
<1>6. AnyRecords'
    BY <1>0, <1>a, SMTT(30) DEF Types, Outcomes, AnyRecords
<1> QED BY <1>1, <1>2, <1>3, <1>4, <1>5, <1>6 DEF IInv

\* A branch is abandoned.
LEMMA LostStep ==
  ASSUME IInv, NEW b \in Branches, branch_lost(b), UNCHANGED <<all_vars, any_vars>>
  PROVE  IInv'
<1> USE NAssumption DEF Branches, branch_lost, stop_vars, join_vars, parent_vars, all_vars,
      any_vars, Goto
<1>0. Types /\ Counted /\ Stages /\ Outcomes /\ AllRecords /\ AnyRecords
    BY DEF IInv
<1>1. Types'
    BY <1>0, SMTT(30) DEF Types, Pcs, Stages
<1>2. Counted'
    BY <1>0, Keeps DEF Counted, Unreleased
<1>3. Stages'
    BY <1>0, SMTT(30) DEF Types, Stages
<1>4. Outcomes'
    BY <1>0, SMTT(30) DEF Types, Outcomes, Stages
<1>5. AllRecords'
    BY <1>0, SMTT(30) DEF Types, Outcomes, AllRecords
<1>6. AnyRecords'
    BY <1>0, SMTT(30) DEF Types, Outcomes, AnyRecords
<1> QED BY <1>1, <1>2, <1>3, <1>4, <1>5, <1>6 DEF IInv

\* A runner reaches its final suspend point.
LEMMA FinalStep ==
  ASSUME IInv, NEW b \in Branches, final_suspend(b), UNCHANGED <<all_vars, any_vars>>
  PROVE  IInv'
<1> USE NAssumption DEF Branches, final_suspend, stop_vars, join_vars, parent_vars, all_vars,
      any_vars, Goto
<1>0. Types /\ Counted /\ Stages /\ Outcomes /\ AllRecords /\ AnyRecords
    BY DEF IInv
<1>1. Types'
    BY <1>0, SMTT(30) DEF Types, Pcs, Stages
<1>2. Counted'
    BY <1>0, Keeps DEF Counted, Unreleased
<1>3. Stages'
    BY <1>0 DEF Types, Stages
<1>4. Outcomes'
    BY <1>0, SMTT(30) DEF Types, Outcomes, Stages
<1>5. AllRecords'
    BY <1>0, SMTT(30) DEF Types, Outcomes, AllRecords
<1>6. AnyRecords'
    BY <1>0, SMTT(30) DEF Types, Outcomes, AnyRecords
<1> QED BY <1>1, <1>2, <1>3, <1>4, <1>5, <1>6 DEF IInv

\* A runner that has finished releases its share.
LEMMA FinalCountStep ==
  ASSUME IInv, NEW b \in Branches, final_count(b), UNCHANGED <<all_vars, any_vars>>
  PROVE  IInv'
<1> USE NAssumption DEF Branches, final_count, stop_vars, join_vars, parent_vars, all_vars,
      any_vars, Goto
<1>0. Types /\ Counted /\ Stages /\ Outcomes /\ AllRecords /\ AnyRecords
    BY DEF IInv
<1>a. /\ Counted' /\ remaining' \in Nat
      /\ remaining = 1 => \A c \in Branches \ {b} : pc[c] \in {"gone", "last"}
    BY <1>0, Releases
<1>1. Types'
    BY <1>0, <1>a, SMTT(30) DEF Types, Pcs, Stages
<1>2. Counted'
    BY <1>a
<1>3. Stages'
    BY <1>0, <1>a, SMTT(30) DEF Types, Stages
<1>4. Outcomes'
    BY <1>0, <1>a, SMTT(30) DEF Types, Outcomes, Stages
<1>5. AllRecords'
    BY <1>0, <1>a, SMTT(30) DEF Types, Outcomes, AllRecords
<1>6. AnyRecords'
    BY <1>0, <1>a, SMTT(30) DEF Types, Outcomes, AnyRecords
<1> QED BY <1>1, <1>2, <1>3, <1>4, <1>5, <1>6 DEF IInv

\* The last runner resumes or abandons the parent.
LEMMA SettleStep ==
  ASSUME IInv, NEW b \in Branches, final_settle(b), UNCHANGED <<all_vars, any_vars>>
  PROVE  IInv'
<1> USE NAssumption DEF Branches, final_settle, stop_vars, join_vars, parent_vars, all_vars,
      any_vars, Goto
<1>0. Types /\ Counted /\ Stages /\ Outcomes /\ AllRecords /\ AnyRecords
    BY DEF IInv
<1>1. Types'
    BY <1>0, SMTT(30) DEF Types, Pcs, Stages
<1>2. Counted'
    BY <1>0, Keeps DEF Counted, Unreleased
<1>3. Stages'
    BY <1>0, SMTT(30) DEF Types, Stages
<1>4. Outcomes'
    BY <1>0, SMTT(30) DEF Types, Outcomes, Stages
<1>5. AllRecords'
    BY <1>0, SMTT(30) DEF Types, Outcomes, AllRecords
<1>6. AnyRecords'
    BY <1>0, SMTT(30) DEF Types, Outcomes, AnyRecords
<1> QED BY <1>1, <1>2, <1>3, <1>4, <1>5, <1>6 DEF IInv

\* A runner is destroyed before it finished.
LEMMA LoseStep ==
  ASSUME IInv, NEW b \in Branches, lose_branch(b), UNCHANGED <<all_vars, any_vars>>
  PROVE  IInv'
<1> USE NAssumption DEF Branches, lose_branch, stop_vars, join_vars, parent_vars, all_vars,
      any_vars, Goto
<1>0. Types /\ Counted /\ Stages /\ Outcomes /\ AllRecords /\ AnyRecords
    BY DEF IInv
<1>1. Types'
    BY <1>0, SMTT(30) DEF Types, Pcs, Stages
<1>2. Counted'
    BY <1>0, Keeps DEF Counted, Unreleased
<1>3. Stages'
    BY <1>0 DEF Types, Stages
<1>4. Outcomes'
    BY <1>0, SMTT(30) DEF Types, Outcomes, Stages
<1>5. AllRecords'
    BY <1>0, SMTT(30) DEF Types, Outcomes, AllRecords
<1>6. AnyRecords'
    BY <1>0, SMTT(30) DEF Types, Outcomes, AnyRecords
<1> QED BY <1>1, <1>2, <1>3, <1>4, <1>5, <1>6 DEF IInv

\* A runner that was lost releases its share.
LEMMA LoseCountStep ==
  ASSUME IInv, NEW b \in Branches, lose_count(b), UNCHANGED <<all_vars, any_vars>>
  PROVE  IInv'
<1> USE NAssumption DEF Branches, lose_count, stop_vars, join_vars, parent_vars, all_vars,
      any_vars, Goto
<1>0. Types /\ Counted /\ Stages /\ Outcomes /\ AllRecords /\ AnyRecords
    BY DEF IInv
<1>a. /\ Counted' /\ remaining' \in Nat
      /\ remaining = 1 => \A c \in Branches \ {b} : pc[c] \in {"gone", "last"}
    BY <1>0, Releases
<1>1. Types'
    BY <1>0, <1>a, SMTT(30) DEF Types, Pcs, Stages
<1>2. Counted'
    BY <1>a
<1>3. Stages'
    BY <1>0, <1>a, SMTT(30) DEF Types, Stages
<1>4. Outcomes'
    BY <1>0, <1>a, SMTT(30) DEF Types, Outcomes, Stages
<1>5. AllRecords'
    BY <1>0, <1>a, SMTT(30) DEF Types, Outcomes, AllRecords
<1>6. AnyRecords'
    BY <1>0, <1>a, SMTT(30) DEF Types, Outcomes, AnyRecords
<1> QED BY <1>1, <1>2, <1>3, <1>4, <1>5, <1>6 DEF IInv

\* A runner of when_all stores its value or claims the place of the first failure.
LEMMA AllClaimStep ==
  ASSUME IInv, NEW b \in Branches, all_claim(b), mode = "all", UNCHANGED any_vars
  PROVE  IInv'
<1> USE NAssumption DEF Branches, all_claim, stop_vars, join_vars, parent_vars, all_vars,
      any_vars, Goto
<1>0. Types /\ Counted /\ Stages /\ Outcomes /\ AllRecords /\ AnyRecords
    BY DEF IInv
<1>a. PICK l \in {"final", "write", "stop"} : Goto(b, l)
    OBVIOUS
<1>b. /\ values' \subseteq Branches
      /\ has_error' \in {"yes", "no"} /\ has_exception' \in {"yes", "no"}
    BY <1>0 DEF Types
<1>1. Types'
    BY <1>0, <1>a, <1>b, SMTT(30) DEF Types, Pcs, Stages
<1>2. Counted'
    BY <1>0, Keeps DEF Counted, Unreleased
<1>3. Stages'
    BY <1>0, <1>a, <1>b DEF Types, Stages
<1>4. Outcomes'
    BY <1>0, <1>a, <1>b, SMTT(30) DEF Types, Outcomes, Stages
<1>5. AllRecords'
    BY <1>0, <1>a, <1>b, SMTT(30) DEF Types, Outcomes, AllRecords
<1>6. AnyRecords'
    BY <1>0, <1>a, <1>b DEF Types, Outcomes, AnyRecords
<1> QED BY <1>1, <1>2, <1>3, <1>4, <1>5, <1>6 DEF IInv

\* A runner of when_all writes the failure it claimed.
LEMMA AllWriteStep ==
  ASSUME IInv, NEW b \in Branches, all_write(b), mode = "all", UNCHANGED any_vars
  PROVE  IInv'
<1> USE NAssumption DEF Branches, all_write, stop_vars, join_vars, parent_vars, all_vars,
      any_vars, Goto
<1>0. Types /\ Counted /\ Stages /\ Outcomes /\ AllRecords /\ AnyRecords
    BY DEF IInv
<1>1. Types'
    BY <1>0, SMTT(30) DEF Types, Pcs, Stages
<1>2. Counted'
    BY <1>0, Keeps DEF Counted, Unreleased
<1>3. Stages'
    BY <1>0 DEF Types, Stages
<1>4. Outcomes'
    BY <1>0, SMTT(30) DEF Types, Outcomes, Stages
<1>5. AllRecords'
    BY <1>0, SMTT(30) DEF Types, Outcomes, AllRecords
<1>6. AnyRecords'
    BY <1>0 DEF Types, Outcomes, AnyRecords
<1> QED BY <1>1, <1>2, <1>3, <1>4, <1>5, <1>6 DEF IInv

\* A runner of when_all stops the others.
LEMMA AllStopStep ==
  ASSUME IInv, NEW b \in Branches, runner_stops(b, "final"), UNCHANGED all_vars, mode = "all",
         UNCHANGED any_vars
  PROVE  IInv'
<1> USE NAssumption DEF Branches, runner_stops, stop_vars, join_vars, parent_vars, all_vars,
      any_vars, Goto
<1>0. Types /\ Counted /\ Stages /\ Outcomes /\ AllRecords /\ AnyRecords
    BY DEF IInv
<1>1. Types'
    BY <1>0, SMTT(30) DEF Types, Pcs, Stages
<1>2. Counted'
    BY <1>0, Keeps DEF Counted, Unreleased
<1>3. Stages'
    BY <1>0 DEF Types, Stages
<1>4. Outcomes'
    BY <1>0, SMTT(30) DEF Types, Outcomes, Stages
<1>5. AllRecords'
    BY <1>0, SMTT(30) DEF Types, Outcomes, AllRecords
<1>6. AnyRecords'
    BY <1>0 DEF Types, Outcomes, AnyRecords
<1> QED BY <1>1, <1>2, <1>3, <1>4, <1>5, <1>6 DEF IInv

\* What a runner of when_any records.
LEMMA AnyStepKeeps ==
  ASSUME IInv, NEW b \in Branches, mode = "any", AnyStep(b), UNCHANGED all_vars
  PROVE  IInv'
<1> USE NAssumption DEF Branches, AnyStep, any_claim, any_write, any_emplace, runner_stops,
      stop_vars, join_vars, parent_vars, all_vars, any_vars, Goto
<1>0. Types /\ Counted /\ Stages /\ Outcomes /\ AllRecords /\ AnyRecords
    BY DEF IInv
<1>1. Types'
    BY <1>0, SMTT(30) DEF Types, Pcs, Stages
<1>2. Counted'
    BY <1>0, Keeps DEF Counted, Unreleased
<1>3. Stages'
    BY <1>0, SMTT(30) DEF Types, Stages
<1>4. Outcomes'
    BY <1>0, SMTT(30) DEF Types, Outcomes, Stages
<1>5. AllRecords'
    BY <1>0 DEF Types, Outcomes, AllRecords
<1>6. AnyRecords'
    BY <1>0, SMTT(30) DEF Types, Outcomes, AnyRecords
<1> QED BY <1>1, <1>2, <1>3, <1>4, <1>5, <1>6 DEF IInv

-----------------------------------------------------------------------------
\* A join that has not begun.
LEMMA Initially == Init => IInv
<1> SUFFICES ASSUME Init PROVE IInv
    OBVIOUS
<1> USE NAssumption DEF Branches, Init, JoinInit, AllInit, AnyInit
<1>1. Types
    BY SMTT(30) DEF Types, Pcs
<1>2. Counted
  <2>1. Unreleased = 1 .. N
    BY DEF Unreleased
  <2>2. Cardinality(1 .. N) = N
    BY FS_Interval, SMTT(30)
  <2> QED BY <2>1, <2>2 DEF Counted
<1>3. Stages
    BY SMTT(30) DEF Stages
<1>4. Outcomes /\ AllRecords /\ AnyRecords
    BY SMTT(30) DEF Outcomes, AllRecords, AnyRecords
<1> QED BY <1>1, <1>2, <1>3, <1>4 DEF IInv

\* Every step of the join, its runners and its parent keeps the invariant.
LEMMA Inductive == IInv /\ [Next]_vars => IInv'
<1> SUFFICES ASSUME IInv, [Next]_vars PROVE IInv'
    OBVIOUS
<1>1. CASE UNCHANGED vars
  <2> USE <1>1 DEF vars, jvars, join_vars, stop_vars, parent_vars, all_vars, any_vars
  <2>1. Types' /\ Counted'
    BY SMTT(30) DEF IInv, Types, Counted, Unreleased
  <2>2. Stages' /\ Outcomes'
    BY DEF IInv, Stages, Outcomes
  <2>3. AllRecords' /\ AnyRecords'
    BY DEF IInv, AllRecords, AnyRecords
  <2> QED BY <2>1, <2>2, <2>3 DEF IInv
<1>2. CASE RecordStep
    BY <1>2, AllClaimStep, AllWriteStep, AllStopStep, AnyStepKeeps DEF RecordStep, AllStep
<1>3. CASE JoinStep /\ UNCHANGED <<all_vars, any_vars>>
    BY <1>3, LaunchStep, LaunchOneStep, LaunchThrowsStep, ForwardStep, ParentEndsStep,
       StartStep, EndsStep, LostStep, FinalStep, FinalCountStep, SettleStep, LoseStep,
       LoseCountStep DEF JoinStep
<1>4. CASE parent_stop /\ UNCHANGED <<all_vars, any_vars>>
    BY <1>4, ForwardStep
<1> QED BY <1>1, <1>2, <1>3, <1>4 DEF Next, Step, Finished

\* The invariant holds throughout.
THEOREM Invariant == Spec => []IInv
    BY Initially, Inductive, PTL DEF Spec

\* With any number of branches the parent hears of the join once, when all of them have
\* released their shares, and nothing reaches the state after its frame is gone.
THEOREM EndsOnce == Spec => []JoinEndsOnce
<1>1. IInv => JoinEndsOnce
  <2> SUFFICES ASSUME IInv PROVE JoinEndsOnce
    OBVIOUS
  <2>1. Types /\ Stages /\ Outcomes /\ remaining = Cardinality(Unreleased)
    BY DEF IInv, Counted
  <2>2. settles <= 1
    BY <2>1, SMTT(30) DEF Types
  <2>3. ASSUME settles = 1 PROVE /\ remaining = 0 /\ Touching = {} /\ launched = N
                                 /\ parent \in {"abandoned",
                                     "destroyed"} <=> Ended("lost") # {}
    <3>1. \A b \in Branches : pc[b] = "gone"
      BY <2>1, <2>3 DEF Stages
    <3>2. Unreleased = {} /\ Touching = {}
      BY <3>1 DEF Unreleased, Touching
    <3>3. remaining = 0
      BY <3>2, <2>1, FS_EmptySet
    <3>4. launched = N
      BY <2>1, <2>3, NAssumption, SMTT(30) DEF Stages, Types
    <3>5. parent \in {"abandoned", "destroyed"} <=> lost = "yes"
      BY <2>1, <2>3, SMTT(30) DEF Stages, Types, Outcomes
    <3>6. lost = "yes" <=> Ended("lost") # {}
      BY <2>1, <3>1 DEF Outcomes, Ended
    <3> QED BY <3>2, <3>3, <3>4, <3>5, <3>6
  <2>4. alive = "no" => settles = 1 /\ pcb \notin {"copying", "borrowing"}
    BY <2>1 DEF Stages, Types
  <2> QED BY <2>1, <2>2, <2>3, <2>4 DEF JoinEndsOnce, Unreleased
<1> QED BY Invariant, <1>1, PTL

\* The siblings are told to stop before the branch that is the reason lets go.
THEOREM StopsInTime == Spec => []StopComesFirst
<1>1. IInv => StopComesFirst
    BY SMTT(30) DEF IInv, Types, Outcomes, AllRecords, AnyRecords, StopComesFirst
<1> QED BY Invariant, <1>1, PTL

\* The parent returns the documented result, whichever branches raced to record theirs.
THEOREM RightResult == Spec => []ResultIsRight
<1>1. IInv => ResultIsRight
  <2> SUFFICES ASSUME IInv, parent = "returned" PROVE ResultIsRight
    BY DEF ResultIsRight
  <2>1. Types /\ Stages /\ Outcomes /\ AllRecords /\ AnyRecords
    BY DEF IInv
  <2>2. \A b \in Branches : pc[b] = "gone"
    BY <2>1 DEF Stages, Types
  <2>3. \A b \in Branches : outcome[b] \in {"ok", "error", "throw"}
    BY <2>1, <2>2 DEF Outcomes, Types
  <2>4. ASSUME mode = "all"
        PROVE  LET r == all_result IN
               IF Ended("throw") # {} THEN r[1] = "throw" /\ r[2] \in Ended("throw")
               ELSE IF Ended("error") # {} THEN r[1] = "error" /\ r[2] \in Ended("error")
               ELSE r = <<"values", Branches>>
    <3>1. CASE Ended("throw") # {}
      <4>1. has_exception = "yes"
        BY <2>1, <2>2, <2>4, <3>1 DEF AllRecords, Ended
      <4>2. first_exception # 0 /\ first_exception \in Branches
        BY <2>1, <2>2, <2>4, <4>1, NAssumption, SMTT(30) DEF AllRecords, Types, Branches
      <4>3. first_exception \in Ended("throw")
        BY <2>1, <2>4, <4>2 DEF AllRecords, Ended
      <4> QED BY <3>1, <4>2, <4>3 DEF all_result
    <3>2. CASE Ended("throw") = {} /\ Ended("error") # {}
      <4>1. first_exception = 0
        BY <2>1, <2>4, <3>2, NAssumption, SMTT(30) DEF AllRecords, Types, Branches, Ended
      <4>2. has_error = "yes"
        BY <2>1, <2>2, <2>4, <3>2 DEF AllRecords, Ended
      <4>3. first_error # 0 /\ first_error \in Branches
        BY <2>1, <2>2, <2>4, <4>2, NAssumption, SMTT(30) DEF AllRecords, Types, Branches
      <4>4. first_error \in Ended("error")
        BY <2>1, <2>4, <4>3 DEF AllRecords, Ended
      <4> QED BY <3>2, <4>1, <4>2, <4>4 DEF all_result
    <3>3. CASE Ended("throw") = {} /\ Ended("error") = {}
      <4>1. first_exception = 0
        BY <2>1, <2>4, <3>3, NAssumption, SMTT(30) DEF AllRecords, Types, Branches, Ended
      <4>0. ASSUME has_error = "yes" PROVE first_error \in Ended("error")
        <5>1. first_error # 0 /\ first_error \in Branches
          BY <2>1, <2>2, <2>4, <4>0, NAssumption, SMTT(30) DEF AllRecords, Types, Branches
        <5> QED BY <2>1, <2>4, <5>1 DEF AllRecords, Ended
      <4>2. has_error # "yes"
        BY <4>0, <3>3
      <4>3. values = Branches
        BY <2>1, <2>2, <2>3, <2>4, <3>3 DEF AllRecords, Types, Ended
      <4> QED BY <3>3, <4>1, <4>2, <4>3 DEF all_result
    <3> QED BY <3>1, <3>2, <3>3
  <2>5. ASSUME mode = "any"
        PROVE  LET r == any_result IN
               IF Ended("ok") # {}
               THEN /\ r[2] \in Ended("ok") /\ payload # "none"
                    /\ r[1] = (IF payload = "threw" THEN "throw" ELSE "winner")
               ELSE \E b \in Branches : r = <<outcome[b], b>>
    <3>1. CASE Ended("ok") # {}
      <4>1. has_winner = "yes"
        BY <2>1, <2>2, <2>5, <3>1 DEF AnyRecords, Ended
      <4>2. winner # 0 /\ winner \in Branches
        BY <2>1, <2>2, <2>5, <4>1, NAssumption, SMTT(30) DEF AnyRecords, Types, Branches
      <4>3. winner \in Ended("ok")
        BY <2>1, <2>5, <4>2 DEF AnyRecords, Ended
      <4>4. payload # "none"
        BY <2>1, <2>2, <2>5, <4>1 DEF AnyRecords
      <4> QED BY <3>1, <4>1, <4>3, <4>4 DEF any_result
    <3>2. CASE Ended("ok") = {}
      <4>0. ASSUME has_winner = "yes" PROVE winner \in Ended("ok")
        <5>1. winner # 0 /\ winner \in Branches
          BY <2>1, <2>2, <2>5, <4>0, NAssumption, SMTT(30) DEF AnyRecords, Types, Branches
        <5> QED BY <2>1, <2>5, <5>1 DEF AnyRecords, Ended
      <4>1. has_winner # "yes"
        BY <4>0, <3>2
      <4>2. 1 \in Branches /\ outcome[1] \in {"error", "throw"} /\ pc[1] = "gone"
        BY <2>2, <2>3, <3>2, NAssumption, SMTT(30) DEF Branches, Ended
      <4>3. failure # <<"none", 0>>
        BY <2>1, <2>5, <4>2 DEF AnyRecords
      <4>4. \E b \in Branches : failure = <<outcome[b], b>>
        BY <2>1, <2>5, <4>3 DEF AnyRecords
      <4> QED BY <3>2, <4>1, <4>4 DEF any_result
    <3> QED BY <3>1, <3>2
  <2> QED BY <2>4, <2>5 DEF ResultIsRight
<1> QED BY Invariant, <1>1, PTL

=============================================================================
