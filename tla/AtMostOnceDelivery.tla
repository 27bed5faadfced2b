-------------------------- MODULE AtMostOnceDelivery --------------------------
(***************************************************************************)
(* What the bus and the listener promise of an event together ("fire and   *)
(* forget", redis_event_bus.py): once it has been published it is handed   *)
(* to the orchestrator's handler at most once, or not at all; what was     *)
(* missed stays missed, and what was handled is not handled again.         *)
(***************************************************************************)
CONSTANTS Events

VARIABLES fate

Fates == {"unsent", "pending", "missed", "begun", "done"}

\* A fate an event may have after another.
Follows == {<<"unsent", "pending">>, <<"unsent", "missed">>, <<"pending", "missed">>,
            <<"pending", "begun">>, <<"begun", "done">>}

Init == fate = [e \in Events |-> "unsent"]

\* One event is sent, begun or done, or any number of them is missed.
Advance(e) == \E f \in Fates : <<fate[e], f>> \in Follows /\ fate' = [fate EXCEPT ![e] = f]

MissAll(S) ==
    /\ \A e \in S : fate[e] = "pending"
    /\ fate' = [e \in Events |-> IF e \in S THEN "missed" ELSE fate[e]]

Next == (\E e \in Events : Advance(e)) \/ (\E S \in SUBSET Events : MissAll(S))

Spec == Init /\ [][Next]_fate
=============================================================================
