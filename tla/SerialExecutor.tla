--------------------------- MODULE SerialExecutor ---------------------------
(***************************************************************************)
(* What a strand promises: continuations wait in one queue, are resumed    *)
(* one at a time in the order they were queued, and each one is resumed,   *)
(* abandoned or handed back, once.                                         *)
(***************************************************************************)
EXTENDS Naturals, Sequences

CONSTANT Conts

VARIABLES
    queue,      \* accepted and not yet resumed, oldest first
    running,    \* the continuations being executed
    ran, abandoned, thrown

abs_vars == <<queue, running, ran, abandoned, thrown>>

Elems(s) == {s[i] : i \in DOMAIN s}

Unseen(c) == c \notin Elems(queue) \cup ran \cup abandoned \cup thrown

AbsInit ==
    /\ queue = <<>> /\ running = {}
    /\ ran = {} /\ abandoned = {} /\ thrown = {}

Accept(c) ==
    /\ Unseen(c) /\ queue' = Append(queue, c)
    /\ UNCHANGED <<running, ran, abandoned, thrown>>

\* The oldest continuation is resumed, when no other one is executing.
Resume ==
    /\ running = {} /\ queue # <<>>
    /\ running' = {Head(queue)} /\ ran' = ran \cup {Head(queue)}
    /\ queue' = Tail(queue)
    /\ UNCHANGED <<abandoned, thrown>>

\* The executing continuation transfers to one dispatched in place.
Transfer(c) ==
    /\ running # {} /\ Unseen(c)
    /\ running' = {c} /\ ran' = ran \cup {c}
    /\ UNCHANGED <<queue, abandoned, thrown>>

Suspend ==
    /\ running # {} /\ running' = {}
    /\ UNCHANGED <<queue, ran, abandoned, thrown>>

\* A continuation that cannot be accepted, or a tail of the queue, is given up.
Refuse(c) ==
    /\ Unseen(c) /\ abandoned' = abandoned \cup {c}
    /\ UNCHANGED <<queue, running, ran, thrown>>

GiveUp(n) ==
    /\ queue' = SubSeq(queue, 1, n)
    /\ abandoned' = abandoned \cup Elems(SubSeq(queue, n + 1, Len(queue)))
    /\ UNCHANGED <<running, ran, thrown>>

\* The first of the queue leaves it, to be handed back by an exception.
TakeBack ==
    /\ running = {} /\ queue # <<>> /\ queue' = Tail(queue)
    /\ thrown' = thrown \cup {Head(queue)}
    /\ UNCHANGED <<running, ran, abandoned>>

AbsNext ==
    \/ \E c \in Conts : Accept(c) \/ Transfer(c) \/ Refuse(c)
    \/ Resume \/ Suspend \/ TakeBack
    \/ \E n \in 0 .. Len(queue) : GiveUp(n)

AbsSpec == AbsInit /\ [][AbsNext]_abs_vars

=============================================================================
