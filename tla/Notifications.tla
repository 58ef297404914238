--------------------------- MODULE Notifications ----------------------------
(***************************************************************************)
(* What notifies waiting coroutines, each by itself: an async_waker, an    *)
(* async_event, or a bridge to work outside the library.                   *)
(***************************************************************************)
EXTENDS AsyncWaker

CONSTANTS
    Waiters, Stoppable, \* of the event
    Bridged             \* the coroutines that wait through a bridge

ASSUME StoppableAssumption == Stoppable \subseteq Waiters

VARIABLES
    primitive,   \* "waker", "event" or "bridge"
    event_alive, set_, waiters_, setting, claimed_by_set, claimed, canceled, active,
    list_, st, queue, stopped, fired, firing, got, refused,
    bridge, has_ec, aw, op, sent, result_, done_, error_, bridge_co, hands, bridge_got,
    list, at, ready_, worker, stop_

Event == INSTANCE AsyncEvent WITH alive <- event_alive
Bridge == INSTANCE Bridges WITH Waiters <- Bridged, co <- bridge_co, got <- bridge_got

event_vars == <<event_alive, set_, waiters_, setting, claimed_by_set, claimed, canceled,
                active, list_, st, queue, stopped, fired, firing, got, refused>>
bridge_vars == <<bridge, has_ec, aw, op, sent, result_, done_, error_, bridge_co, hands,
                 bridge_got, list, at, ready_, worker, stop_>>
all_vars == <<primitive, vars, event_vars, bridge_vars>>

\* The bridges differ in their initial states; only one is there with the others.
AllInit ==
    /\ Init /\ Event!Init /\ Bridge!Init
    /\ \/ primitive = "bridge"
       \/ primitive \in {"waker", "event"} /\ bridge = "beman" /\ has_ec = "yes"

IsWaker == primitive = "waker" /\ UNCHANGED <<primitive, event_vars, bridge_vars>>
IsEvent == primitive = "event" /\ UNCHANGED <<primitive, vars, bridge_vars>>
IsBridge == primitive = "bridge" /\ UNCHANGED <<primitive, vars, event_vars>>

AllNext == \/ IsWaker /\ Next
           \/ IsEvent /\ Event!Next
           \/ IsBridge /\ Bridge!Next

\* Every thread that is inside the code of the waker, of the event or of a bridge keeps
\* running, work outside ends, and the executor resumes what it was given: no coroutine
\* keeps it from its queue by calling set() without end.
AllFair ==
    /\ AllInit /\ [][AllNext]_all_vars
    /\ WF_all_vars(IsWaker /\ CoroutineStep) /\ WF_all_vars(IsWaker /\ CallbackStep)
    /\ WF_all_vars(IsWaker /\ destroy_waker_post)
    /\ \A t \in Threads : WF_all_vars(IsWaker /\ WakeStep(t))
    /\ WF_all_vars(IsEvent /\ Event!LoopStep)
    /\ SF_all_vars(IsEvent /\ \E w \in Waiters : Event!await_resume(w))
    /\ \A w \in Waiters : WF_all_vars(IsEvent /\ Event!CancelStep(w))
    /\ WF_all_vars(IsBridge /\ Bridge!ServiceStep)
    /\ \A w \in Bridged : WF_all_vars(IsBridge /\ Bridge!WaitStep(w))

\* A waiter of an async_event is resumed once, by whoever claimed it, is linked in
\* the list that it says, and is claimed when the event is set.
EventWaiterInOnePlace == Event!WaiterInOnePlace

\* Nobody waits for ever.  On a waker: a stop request ends the wait, even one made while
\* the callback is being registered or the waiter is being published, and every wake()
\* returns.  On an event: a wait under way when it is set comes to an end.
WaitsEnd == NobodyStuck /\ Event!SetIsNoticed

\* A coroutine that waits for work outside through a bridge is resumed or given up,
\* once, with what the work ended with, and nobody uses its awaitable afterwards.
HandedOnce == Bridge!HandedOnce

\* A wait through a bridge ends when its work does or is dropped, also when the service
\* that it uses is destroyed meanwhile (sync_service).
OutsideWaitEnds == Bridge!OutsideWaitEnds
=============================================================================
