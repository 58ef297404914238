-------------------------- MODULE ExecutionContext --------------------------
(***************************************************************************)
(* execution_context: the services a context owns, the threads that look   *)
(* them up and create them, and the destruction of the context by its      *)
(* owner.                                                                  *)
(*                                                                         *)
(* A service is an instance, numbered as it is constructed.  Its           *)
(* constructor runs outside the context's mutex and may use another        *)
(* service; so may its shutdown() and its destructor.  A thread is         *)
(* therefore a stack of calls, newest first, and one action is what a      *)
(* thread does under one hold of the mutex, or between two.  The exception *)
(* is the deletion of a service that lost a race, which happens under the  *)
(* mutex: if its destructor uses a service, the hold goes on.              *)
(***************************************************************************)
EXTENDS Naturals, Sequences, FiniteSets

CONSTANTS
    Callers,     \* threads
    Owner,       \* the one that destroys the context
    Types,       \* the types of services
    Key,         \* T::key_type, or T itself
    Needs,       \* the service that the constructor of T uses, or None
    Hook,        \* the one that its shutdown() uses, or None
    Last,        \* the one that its destructor uses, or None
    Made,        \* the numbers of instances: 1 .. MaxMade
    MaxCalls,    \* bound: calls made from outside
    None

ASSUME ContextAssumption ==
    /\ Owner \in Callers /\ Made \subseteq Nat \ {0} /\ None \notin Types
    /\ Key \in [Types -> Types] /\ MaxCalls \in Nat
    /\ Needs \in [Types -> Types \cup {None}]
    /\ Hook \in [Types -> Types \cup {None}] /\ Last \in [Types -> Types \cup {None}]

VARIABLES
    head,        \* the list of services from head_: the newest first
    shutdown_, destroyed_,
    typ,         \* t0_ of each instance, None before it is constructed
    dep,         \* the service that its constructor was given, or 0
    shuts,       \* how often its shutdown() was called
    late,        \* the instances linked after the context was shut down
    dead,        \* those deleted, or never completely constructed
    stack,       \* the calls of each thread
    returned,    \* the services whose references went to callers
    calls

inst_vars == <<typ, dep, shuts, late, dead>>
context_vars == <<head, shutdown_, destroyed_, inst_vars, stack, returned, calls>>

ContextInit ==
    /\ head = <<>> /\ shutdown_ = "no" /\ destroyed_ = "no"
    /\ typ = [i \in Made |-> None] /\ dep = [i \in Made |-> 0]
    /\ shuts = [i \in Made |-> 0] /\ late = {} /\ dead = {}
    /\ stack = [t \in Callers |-> <<>>] /\ returned = {} /\ calls = 0

-----------------------------------------------------------------------------
Top(t) == Head(stack[t])
At(t, op, pc) == stack[t] # <<>> /\ Top(t).op = op /\ Top(t).pc = pc

Call(op, ty) == <<[op |-> op, ty |-> ty, pc |-> "find", id |-> 0]>>

\* The call on top goes on at pc with instance i, after a call of use_service<u>()
\* unless u is None.
Goto(t, pc, i, u) ==
    stack' = [stack EXCEPT ![t] =
        (IF u = None THEN <<>> ELSE Call("use", u))
        \o <<[@[1] EXCEPT !.pc = pc, !.id = i]>> \o Tail(@)]

\* The call on top returns service i: to the constructor that made it, which
\* keeps it, to a hook, or to a caller outside.
Return(t, i) ==
    /\ stack' = [stack EXCEPT ![t] = Tail(@)]
    /\ IF Len(stack[t]) = 1
       THEN returned' = returned \cup {i} /\ UNCHANGED dep
       ELSE /\ dep' = IF stack[t][2].pc = "link" THEN [dep EXCEPT ![stack[t][2].id] = i] ELSE dep
            /\ UNCHANGED returned

\* An exception leaves all calls of the thread, and what they were constructing.
Throw(t) ==
    /\ stack' = [stack EXCEPT ![t] = SelectSeq(@, LAMBDA r : r.op = "context")]
    /\ dead' = dead \cup ({stack[t][k].id : k \in DOMAIN stack[t]} \ {0})

Answers(i, ty) == typ[i] = ty \/ Key[typ[i]] = ty

\* The newest service that answers to ty, or 0.
find_impl(ty) ==
    IF \E k \in DOMAIN head : Answers(head[k], ty)
    THEN head[CHOOSE k \in DOMAIN head :
                  Answers(head[k], ty) /\ \A j \in 1 .. k - 1 : ~Answers(head[j], ty)]
    ELSE 0

\* make_service() refuses a type or a key that is taken.
Taken(ty) == find_impl(ty) # 0 \/ find_impl(Key[ty]) # 0

-----------------------------------------------------------------------------
(* use_service() and make_service(), from any thread.                      *)

\* mutex_ is held from one step to the next: by a call whose service lost a race, and
\* is being deleted.
Locked == \E t \in Callers : \E k \in DOMAIN stack[t] : stack[t][k].pc = "lost"

\* The service of the call on top is deleted under the mutex, and its destructor uses
\* another service.  That lookup waits for the mutex of its own thread.
lose(t) ==
    /\ dead' = dead \cup {Top(t).id}
    /\ Goto(t, "lost", Top(t).id, Last[Top(t).ty]) /\ UNCHANGED <<dep, returned>>

\* A caller outside: any thread while the context lives, and the chains that the
\* owner unwinds between shutdown() and destroy().
call(t, op, ty) ==
    /\ calls < MaxCalls /\ calls' = calls + 1
    /\ (stack[t] = <<>> /\ shutdown_ = "no") \/ At(t, "context", "drain")
    /\ stack' = [stack EXCEPT ![t] = Call(op, ty) \o @]
    /\ UNCHANGED <<head, shutdown_, destroyed_, inst_vars, returned>>

\* Mutant: the mutex is held while the service is constructed, and the calls of its
\* constructor wait for it.
use_find_locked(t) ==
    /\ At(t, "use", "find") /\ ~Locked /\ \A k \in 2 .. Len(stack[t]) : stack[t][k].pc # "link"
    /\ LET r == find_impl(Top(t).ty) IN
       IF r # 0 THEN Return(t, r)
       ELSE Goto(t, "create", 0, None) /\ UNCHANGED <<dep, returned>>
    /\ UNCHANGED <<head, shutdown_, destroyed_, typ, shuts, late, dead, calls>>

\* use_service_impl: the lookup.
use_find(t) ==
    /\ At(t, "use", "find") /\ ~Locked
    /\ LET r == find_impl(Top(t).ty) IN
       IF r # 0 THEN Return(t, r)
       ELSE Goto(t, "create", 0, None) /\ UNCHANGED <<dep, returned>>
    /\ UNCHANGED <<head, shutdown_, destroyed_, typ, shuts, late, dead, calls>>

\* make_service_impl: the check, which throws.
make_find(t) ==
    /\ At(t, "make", "find") /\ ~Locked
    /\ IF Taken(Top(t).ty) THEN Throw(t)
       ELSE Goto(t, "create", 0, None) /\ UNCHANGED dead
    /\ UNCHANGED <<head, shutdown_, destroyed_, typ, dep, shuts, late, returned, calls>>

\* create(): the constructor, outside the mutex.
create(t) ==
    /\ stack[t] # <<>> /\ Top(t).pc = "create"
    /\ \E i \in Made :
           /\ typ[i] = None /\ \A j \in Made : j < i => typ[j] # None
           /\ typ' = [typ EXCEPT ![i] = Top(t).ty]
           /\ Goto(t, "link", i, Needs[Top(t).ty])
    /\ UNCHANGED <<head, shutdown_, destroyed_, dep, shuts, late, dead, returned, calls>>

\* The constructor throws, and so does every constructor that is waiting for it, up to
\* a caller outside.  shutdown() hooks and destructors of services let nothing through.
create_throws(t) ==
    /\ stack[t] # <<>> /\ Top(t).pc = "create"
    /\ \A k \in DOMAIN stack[t] : stack[t][k].pc \in {"create", "link", "drain"}
    /\ Throw(t)
    /\ UNCHANGED <<head, shutdown_, destroyed_, typ, dep, shuts, late, returned, calls>>

\* Mutant: a service that is created after the shutdown is only linked.
Link_only(t) ==
    head' = <<Top(t).id>> \o head /\ Return(t, Top(t).id) /\ UNCHANGED late

\* The new service is linked; after a shutdown of the context it is shut down.
Link(t) ==
    LET i == Top(t).id IN
    /\ head' = <<i>> \o head
    /\ IF shutdown_ = "yes"
       THEN /\ late' = late \cup {i} /\ Goto(t, "down", i, None)
            /\ UNCHANGED <<dep, returned>>
       ELSE Return(t, i) /\ UNCHANGED late

\* Mutant: the lookup is not repeated after the construction.
use_link_blind(t) ==
    /\ At(t, "use", "link") /\ ~Locked /\ Link(t)
    /\ UNCHANGED <<shutdown_, destroyed_, typ, shuts, dead, calls>>

\* use_service_impl: the second lookup, and the loser's deletion or the link.
use_link(t) ==
    /\ At(t, "use", "link") /\ ~Locked
    /\ LET r == find_impl(Top(t).ty) IN
       \/ r = 0 /\ Link(t) /\ UNCHANGED dead
       \/ /\ r # 0 /\ UNCHANGED <<head, late>>
          /\ IF Last[Top(t).ty] = None THEN dead' = dead \cup {Top(t).id} /\ Return(t, r)
             ELSE lose(t)
    /\ UNCHANGED <<shutdown_, destroyed_, typ, shuts, calls>>

\* make_service_impl: the second check, which deletes and throws, or the link.
make_link(t) ==
    /\ At(t, "make", "link") /\ ~Locked
    /\ \/ ~Taken(Top(t).ty) /\ Link(t) /\ UNCHANGED dead
       \/ /\ Taken(Top(t).ty) /\ UNCHANGED <<head, late>>
          /\ IF Last[Top(t).ty] = None THEN Throw(t) /\ UNCHANGED <<dep, returned>>
             ELSE lose(t)
    /\ UNCHANGED <<shutdown_, destroyed_, typ, shuts, calls>>

\* sp->shutdown() of a service created after the shutdown of the context.
late_shutdown(t) ==
    /\ stack[t] # <<>> /\ Top(t).pc = "down"
    /\ shuts' = [shuts EXCEPT ![Top(t).id] = @ + 1]
    /\ Goto(t, "return", Top(t).id, Hook[Top(t).ty])
    /\ UNCHANGED <<head, shutdown_, destroyed_, typ, dep, late, dead, returned, calls>>

late_return(t) ==
    /\ stack[t] # <<>> /\ Top(t).pc = "return" /\ Return(t, Top(t).id)
    /\ UNCHANGED <<head, shutdown_, destroyed_, typ, shuts, late, dead, calls>>

-----------------------------------------------------------------------------
(* The destructor of the context, when no thread uses it any more.         *)

next_(i) ==
    LET k == CHOOSE k \in DOMAIN head : head[k] = i IN
    IF k < Len(head) THEN head[k + 1] ELSE 0

\* shutdown() begins.
shutdown ==
    /\ shutdown_ = "no" /\ \A t \in Callers : stack[t] = <<>>
    /\ shutdown_' = "yes"
    /\ stack' = [stack EXCEPT ![Owner] =
           <<[op |-> "context", ty |-> None, pc |-> "walk",
              id |-> IF head = <<>> THEN 0 ELSE Head(head)]>>]
    /\ UNCHANGED <<head, destroyed_, inst_vars, returned, calls>>

\* shutdown() goes along the list; then the derived context drains its queue.
walk ==
    /\ At(Owner, "context", "walk")
    /\ LET i == Top(Owner).id IN
       IF i = 0 THEN Goto(Owner, "drain", 0, None) /\ UNCHANGED shuts
       ELSE shuts' = [shuts EXCEPT ![i] = @ + 1] /\ Goto(Owner, "walk", next_(i), Hook[typ[i]])
    /\ UNCHANGED <<head, shutdown_, destroyed_, typ, dep, late, dead, returned, calls>>

drained ==
    /\ At(Owner, "context", "drain") /\ Goto(Owner, "destroy", 0, None)
    /\ UNCHANGED <<head, shutdown_, destroyed_, inst_vars, returned, calls>>

\* destroy() requires of a destructor that it creates no service of a type that was
\* destroyed already.
MayUse(ty) ==
    ty = None \/ find_impl(ty) # 0
    \/ \A i \in dead : typ[i] = ty => shuts[i] = 0

\* destroy(): one service is unlinked and deleted, and its destructor may use
\* another one; the context is gone when none is left.
destroy ==
    /\ At(Owner, "context", "destroy")
    /\ IF head = <<>>
       THEN /\ destroyed_' = "yes" /\ stack' = [stack EXCEPT ![Owner] = <<>>]
            /\ UNCHANGED <<head, dead>>
       ELSE /\ head' = Tail(head) /\ dead' = dead \cup {Head(head)}
            /\ LET u == Last[typ[Head(head)]] IN
               Goto(Owner, "destroy", 0, IF MayUse(u) THEN u ELSE None)
            /\ UNCHANGED destroyed_
    /\ UNCHANGED <<shutdown_, typ, dep, shuts, late, returned, calls>>

-----------------------------------------------------------------------------
Step(t) ==
    \/ use_find(t) \/ make_find(t) \/ create(t) \/ create_throws(t)
    \/ use_link(t) \/ make_link(t) \/ late_shutdown(t) \/ late_return(t)

Destruction == shutdown \/ walk \/ drained \/ destroy

ContextNext ==
    \/ Destruction
    \/ \E t \in Callers :
           Step(t) \/ \E op \in {"use", "make"}, ty \in Types : call(t, op, ty)

-----------------------------------------------------------------------------
(* Properties.                                                             *)

Linked == {head[k] : k \in DOMAIN head}

\* However the calls of several threads and of nested constructors interleave, at
\* most one service of a type is registered, and a reference that was returned is to
\* a registered service, until the context destroys it; a loser of the race is not
\* registered.
OneServicePerType ==
    /\ \A j, k \in DOMAIN head : typ[head[j]] = typ[head[k]] => j = k
    /\ Linked \cap dead = {}
    /\ \A i \in returned : i \in Linked \/ shuts[i] > 0

\* Every service that was registered is shut down exactly once before it is deleted,
\* also one that a shutdown() hook, an unwound chain or a destructor creates while
\* the context is being destroyed; and all this in reverse order of creation: a
\* service that another one was given by its constructor is deleted after it, and shut
\* down after it unless the context was shut down before it was created.
ShutDownInOrder ==
    /\ \A i \in Made : shuts[i] <= 1
    /\ \A i \in Linked :
           shuts[i] = 0 =>
               shutdown_ = "no" \/ \E k \in DOMAIN stack[Owner] :
                   \/ stack[Owner][k].pc = "walk"
                   \/ stack[Owner][k].pc = "down" /\ stack[Owner][k].id = i
    /\ destroyed_ = "yes" =>
           head = <<>> /\ \A i \in Made : typ[i] # None => i \in dead
    /\ \A i \in Made \ dead :
           dep[i] # 0 =>
               /\ dep[i] \notin dead
               /\ (shuts[dep[i]] > 0 /\ i \in Linked) => (shuts[i] > 0 \/ i \in late)
=============================================================================
