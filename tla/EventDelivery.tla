---------------------------- MODULE EventDelivery ----------------------------
(***************************************************************************)
(* From the bus to an action: publish (context_engine/event_bus.py,        *)
(* redis_event_bus.py), the listener's life (orchestrator/event_listener.py *)
(* started and stopped by orchestrator/api.py) and the planning handler    *)
(* (orchestrator/planner.py).                                              *)
(*                                                                         *)
(* In memory an API thread that publishes an event takes a copy of the     *)
(* subscribers and then calls each of them; attach_in_memory_bus makes a   *)
(* new listener object every time.  With Redis the broker puts the message *)
(* in the inbox of every subscription there is, and a pump thread per      *)
(* start takes it from there; the one listener object and its stop event   *)
(* are used again by the next start.  In both cases a "listener" here is   *)
(* one start: the subscription it makes and the thread or adapter behind   *)
(* it.  One thread starts and stops listeners (the application's lifespan, *)
(* or whoever attaches a bus).                                             *)
(***************************************************************************)
EXTENDS Integers, FiniteSets, SequencesExt

CONSTANTS
    Events,       \* each is published once (PublishedOnce in EventIngestion)
    Listeners,    \* one per start
    NoListener

ASSUME DeliveryAssumption == NoListener \notin Listeners

VARIABLES
    mode,        \* the bus the process was started with
    sent,        \* events published
    subscribed,  \* the bus' subscribers
    inbox,       \* deliveries not begun, oldest first
    run,         \* how far a listener's handling of an event has come
    started,     \* the starts so far
    current,     \* the listener started last and not stopped (_listener, _thread)
    ctl,         \* where the thread that stops listeners is
    armed,       \* memory: listeners whose _handler is set
    stopEvent,   \* Redis: _stop_event, one for all starts
    pump         \* Redis: each start's pump thread

vars == <<mode, sent, subscribed, inbox, run, started, current, ctl, armed, stopEvent,
          pump>>
busVars == <<mode, sent, subscribed, inbox>>
lifeVars == <<started, current, ctl, armed, stopEvent>>

\* "acted": handle_proposal returned; "dropped": the planner or the pipeline
\* raised, and the exception was swallowed; "missed": the delivery was never made.
Runs == {"none", "waiting", "handling", "planned", "acted", "dropped", "missed"}
Begun == {"handling", "planned", "acted", "dropped"}
Pumps == {"none", "loop", "get", "busy", "ended"}

DeliveryTypeOK ==
    /\ mode \in {"memory", "redis"}
    /\ sent \subseteq Events
    /\ subscribed \subseteq Listeners
    /\ inbox \in [Listeners -> Seq(Events)]
    /\ run \in [Listeners -> [Events -> Runs]]
    /\ started \subseteq Listeners
    /\ current \in started \cup {NoListener}
    /\ ctl \in {"idle", "clear", "join", "release"}
    /\ ctl # "idle" => current # NoListener
    /\ armed \subseteq Listeners
    /\ stopEvent \in BOOLEAN
    /\ pump \in [Listeners -> Pumps]

DeliveryInit ==
    /\ mode \in {"memory", "redis"}
    /\ sent = {} /\ subscribed = {} /\ started = {} /\ armed = {}
    /\ inbox = [g \in Listeners |-> <<>>]
    /\ run = [g \in Listeners |-> [e \in Events |-> "none"]]
    /\ current = NoListener /\ ctl = "idle"
    /\ stopEvent = FALSE
    /\ pump = [g \in Listeners |-> "none"]

-----------------------------------------------------------------------------
(* The bus.                                                                *)

\* publish: the event goes to those who are subscribed at this moment.
Publish(e) ==
    /\ e \notin sent
    /\ sent' = sent \cup {e}
    /\ inbox' = [g \in Listeners |-> IF g \in subscribed THEN Append(inbox[g], e)
                                     ELSE inbox[g]]
    /\ run' = [g \in Listeners |-> IF g \in subscribed
                                   THEN [run[g] EXCEPT ![e] = "waiting"] ELSE run[g]]
    /\ UNCHANGED <<mode, subscribed, lifeVars, pump>>

\* Delivery e of listener g leaves the inbox for a new state.
Leaves(g, e, state) ==
    /\ inbox' = [inbox EXCEPT ![g] = RemoveFirst(@, e)]
    /\ run' = [run EXCEPT ![g][e] = state]

-----------------------------------------------------------------------------
(* The listener in memory.                                                 *)

\* Nothing is in place and nothing is being stopped: a start may be made.
Start(g) ==
    /\ ctl = "idle" /\ current = NoListener /\ g \notin started
    /\ started' = started \cup {g}
    /\ current' = g
    /\ subscribed' = subscribed \cup {g}

\* Mutant of MemoryStart: the old listener is not stopped.
MemoryStartBeside(g) ==
    /\ mode = "memory" /\ ctl = "idle" /\ g \notin started
    /\ started' = started \cup {g} /\ current' = g
    /\ subscribed' = subscribed \cup {g} /\ armed' = armed \cup {g}
    /\ UNCHANGED <<mode, sent, inbox, run, ctl, stopEvent, pump>>

\* attach_in_memory_bus, once the old listener is stopped.
MemoryStart(g) ==
    /\ mode = "memory"
    /\ Start(g)
    /\ armed' = armed \cup {g}
    /\ UNCHANGED <<mode, sent, inbox, run, ctl, stopEvent, pump>>

\* stop first takes the adapter off the bus ...
MemoryUnsubscribe ==
    /\ mode = "memory" /\ ctl = "idle" /\ current # NoListener
    /\ ctl' = "clear"
    /\ subscribed' = subscribed \ {current}
    /\ UNCHANGED <<mode, sent, inbox, run, started, current, armed, stopEvent, pump>>

\* Mutant of MemoryClear: the handler is left to the adapter.
MemoryClearNot ==
    /\ ctl = "clear"
    /\ ctl' = "idle" /\ current' = NoListener
    /\ UNCHANGED <<busVars, run, started, armed, stopEvent, pump>>

\* ... and then forgets the handler.
MemoryClear ==
    /\ ctl = "clear"
    /\ ctl' = "idle" /\ current' = NoListener
    /\ armed' = armed \ {current}
    /\ UNCHANGED <<busVars, run, started, stopEvent, pump>>

\* The publishing thread gets to the adapter, which calls the handler, or finds
\* none; the assertion that fails there is swallowed by publish.
Adapter(g, e) ==
    /\ mode = "memory" /\ run[g][e] = "waiting"
    /\ Leaves(g, e, IF g \in armed THEN "handling" ELSE "missed")
    /\ UNCHANGED <<mode, sent, subscribed, lifeVars, pump>>

-----------------------------------------------------------------------------
(* The listener on Redis.                                                  *)

RedisStart(g) ==
    /\ mode = "redis"
    /\ Start(g)
    /\ stopEvent' = FALSE
    /\ pump' = [pump EXCEPT ![g] = "loop"]
    /\ UNCHANGED <<mode, sent, inbox, run, ctl, armed>>

\* Mutant of RedisStop: a stop with no thread to join.
RedisStopUnstarted ==
    /\ mode = "redis" /\ ctl = "idle"
    /\ stopEvent' = TRUE /\ ctl' = "join"
    /\ UNCHANGED <<busVars, run, started, current, armed, pump>>

RedisStop ==
    /\ mode = "redis" /\ ctl = "idle" /\ current # NoListener
    /\ stopEvent' = TRUE /\ ctl' = "join"
    /\ UNCHANGED <<busVars, run, started, current, armed, pump>>

\* Mutant of Join: the join has no timeout.
JoinForever ==
    /\ ctl = "join" /\ pump[current] = "ended"
    /\ ctl' = "release"
    /\ UNCHANGED <<busVars, run, started, current, armed, stopEvent, pump>>

\* join returns when the pump has ended, or after four poll timeouts: by then a
\* pump that is not in the handler has seen the stop event.
Join ==
    /\ ctl = "join" /\ pump[current] \in {"ended", "busy"}
    /\ ctl' = "release"
    /\ UNCHANGED <<busVars, run, started, current, armed, stopEvent, pump>>

\* The subscription is closed, with what is in its inbox.
Release ==
    /\ ctl = "release"
    /\ ctl' = "idle" /\ current' = NoListener
    /\ subscribed' = subscribed \ {current}
    /\ inbox' = [inbox EXCEPT ![current] = <<>>]
    /\ run' = [run EXCEPT ![current] = [e \in Events |-> IF @[e] = "waiting" THEN "missed"
                                                         ELSE @[e]]]
    /\ UNCHANGED <<mode, sent, started, armed, stopEvent, pump>>

PumpGoes(g, from, to) == pump[g] = from /\ pump' = [pump EXCEPT ![g] = to]

\* The loop's condition.
PumpChecks(g) ==
    /\ PumpGoes(g, "loop", IF stopEvent THEN "ended" ELSE "get")
    /\ UNCHANGED <<busVars, run, lifeVars>>

\* get_message times out, or finds its subscription closed.
PumpGetsNothing(g) ==
    /\ inbox[g] = <<>>
    /\ PumpGoes(g, "get", "loop")
    /\ UNCHANGED <<busVars, run, lifeVars>>

PumpTakes(g) ==
    /\ inbox[g] # <<>>
    /\ PumpGoes(g, "get", "busy")
    /\ Leaves(g, Head(inbox[g]), "handling")
    /\ UNCHANGED <<mode, sent, subscribed, lifeVars>>

-----------------------------------------------------------------------------
(* The planning handler, on the publisher's thread or the pump.            *)

Handler(g, e, from, to) ==
    /\ run[g][e] = from
    /\ run' = [run EXCEPT ![g][e] = to]
    /\ UNCHANGED <<busVars, lifeVars>>

\* The handler has returned to the pump's loop.
PumpGoesOn(g) == pump' = IF mode = "redis" THEN [pump EXCEPT ![g] = "loop"] ELSE pump

\* propose_action returns a proposal, the model's or the rule table's, and it is
\* appended to the buffer.
Plan(g, e) == Handler(g, e, "handling", "planned") /\ UNCHANGED pump

\* No client can be made: the event is dropped.
PlanRaises(g, e) == Handler(g, e, "handling", "dropped") /\ PumpGoesOn(g)

\* handle_proposal returns ...
Propose(g, e) == Handler(g, e, "planned", "acted") /\ PumpGoesOn(g)

\* ... or raises, which the handler swallows.
ProposeRaises(g, e) == Handler(g, e, "planned", "dropped") /\ PumpGoesOn(g)

Handles(g, e) == Plan(g, e) \/ PlanRaises(g, e) \/ Propose(g, e) \/ ProposeRaises(g, e)

-----------------------------------------------------------------------------

PumpLoop(g) == PumpChecks(g) \/ PumpGetsNothing(g) \/ PumpTakes(g)
StopGoesOn == MemoryClear \/ Join \/ Release

DeliveryNext ==
    \/ \E e \in Events : Publish(e)
    \/ \E g \in Listeners : MemoryStart(g) \/ RedisStart(g)
    \/ MemoryUnsubscribe \/ RedisStop \/ StopGoesOn
    \/ \E g \in Listeners, e \in Events : Adapter(g, e) \/ Handles(g, e)
    \/ \E g \in Listeners : PumpLoop(g)

DeliverySpec == DeliveryInit /\ [][DeliveryNext]_vars

\* The threads of the listener and of whoever stops it go on; a handler, which
\* calls a language model, may never return.
FairDeliverySpec ==
    /\ DeliverySpec
    /\ WF_vars(StopGoesOn)
    /\ \A g \in Listeners : WF_vars(PumpLoop(g))
    /\ \A g \in Listeners, e \in Events : WF_vars(Adapter(g, e))

-----------------------------------------------------------------------------
(* What delivery promises.                                                 *)

\* The listeners that have called the handler with the event.
Handlers(e) == {g \in Listeners : run[g][e] \in Begun}

Reached(e, states) == \E g \in Listeners : run[g][e] \in states

Fate(e) ==
    IF \E g, h \in Handlers(e) : g # h THEN "twice"
    ELSE IF Reached(e, {"acted", "dropped"}) THEN "done"
    ELSE IF Reached(e, {"handling", "planned"}) THEN "begun"
    ELSE IF Reached(e, {"waiting"}) THEN "pending"
    ELSE IF e \in sent THEN "missed" ELSE "unsent"

\* Whatever is started, stopped and attached anew while events are published, an
\* event is handled at most once: "fire-and-forget delivery" (redis_event_bus.py).
Promise == INSTANCE AtMostOnceDelivery WITH fate <- [e \in Events |-> Fate(e)]
DeliversAtMostOnce == Promise!Spec

\* A handler is called only for the listener in place: when stop has returned, no
\* late delivery to what was stopped (a publisher's copy of the subscribers, a
\* message in a closed inbox) reaches the pipeline.
BegunInPlace ==
    \A g \in Listeners, e \in Events :
        run[g][e] = "waiting" /\ run'[g][e] = "handling" => g = current

NothingAfterStop == [][BegunInPlace]_vars

\* stop returns, though the handler it waits for may not.
StopReturns == ctl # "idle" ~> ctl = "idle"

HandlersReturn ==
    \A g \in Listeners, e \in Events : []<>(run[g][e] \notin {"handling", "planned"})

\* "Handler bugs must not stop the listener - stay up so the next message has a
\* chance to land": if every handler returns, no delivery waits for ever, whatever
\* the handlers raised.
DeliveriesEnd ==
    HandlersReturn =>
        \A g \in Listeners, e \in Events : run[g][e] = "waiting" ~> run[g][e] # "waiting"

\* Neither who stops a listener nor an event waits for ever.
DeliveryGoesOn == StopReturns /\ DeliveriesEnd

\* stop "can interrupt the loop within <= timeout seconds" and "releases all
\* resources (threads, ...)" (event_listener.py): a pump that was stopped ends, if
\* only its handler returns.
StoppedPumpsEnd ==
    HandlersReturn =>
        \A g \in Listeners : (pump[g] # "none" /\ g # current) ~> pump[g] = "ended"

-----------------------------------------------------------------------------
(* What makes the safety of delivery inductive.                            *)

\* Only the listener in place is on the bus or has a handler.
OnlyCurrentListens == subscribed \cup armed \subseteq {current}

\* Each kind of listener is stopped in its own way, and one in memory is off the
\* bus before it is cleared.
StopsInOrder ==
    /\ ctl = "clear" => mode = "memory" /\ subscribed = {}
    /\ ctl \in {"join", "release"} => mode = "redis"
    /\ mode = "redis" => armed = {}

\* An event is delivered to one listener at most, and only after it was sent.
OneDelivery ==
    /\ \A g \in Listeners, e \in Events : run[g][e] # "none" => e \in sent
    /\ \A g, h \in Listeners, e \in Events :
           run[g][e] # "none" /\ run[h][e] # "none" => g = h

\* An inbox holds deliveries that wait, and each of them once; on Redis only the
\* subscription in place has one.
InboxesWait ==
    /\ \A g \in Listeners :
           /\ IsInjective(inbox[g])
           /\ \A e \in Events : e \in Range(inbox[g]) <=> run[g][e] = "waiting"
           /\ mode = "redis" /\ inbox[g] # <<>> => g = current
    /\ mode = "memory" => \A g \in Listeners : pump[g] = "none"

DeliveryInv ==
    DeliveryTypeOK /\ OnlyCurrentListens /\ StopsInOrder /\ OneDelivery /\ InboxesWait
=============================================================================
