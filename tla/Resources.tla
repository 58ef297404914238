----------------------------- MODULE Resources ------------------------------
(***************************************************************************)
(* What an execution context has for its coroutines, each by itself: the   *)
(* services that they look up, and the memory resource that their frames   *)
(* come from.                                                              *)
(***************************************************************************)
EXTENDS ExecutionContext, Recycling

VARIABLE part \* "services" or "memory"

all_vars == <<part, context_vars, vars>>

AllInit == part \in {"services", "memory"} /\ ContextInit /\ Init

InServices == part = "services" /\ UNCHANGED <<part, vars>>
InMemory == part = "memory" /\ UNCHANGED <<part, context_vars>>

AllNext == \/ InServices /\ ContextNext
           \/ InMemory /\ Next

\* Threads run, and the owner comes to destroy the context.
FairSpec ==
    /\ AllInit /\ [][AllNext]_all_vars
    /\ WF_all_vars(InServices /\ Destruction)
    /\ \A t \in Callers : WF_all_vars(InServices /\ Step(t))

\* No call of use_service() or make_service() waits for ever, and the context is
\* destroyed: constructors, hooks and destructors that use services do not keep it from
\* ending, but for one case.  A service that loses the race of two calls is deleted
\* with mutex_ held, and if its destructor uses a service the thread waits for itself.
ContextIsDestroyed == part = "services" => <>(destroyed_ = "yes" \/ Locked)
=============================================================================
