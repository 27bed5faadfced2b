-------------------------- MODULE WaitingPartsProofs --------------------------
(***************************************************************************)
(* Two of the parts of WaitingParts.  Delivery is at most once, and never to *)
(* a listener that was stopped, for any number of events and starts and with *)
(* either bus.  A call is tried again only if the first attempt failed or  *)
(* missed its deadline, for any number of calls, tenants and workers and any *)
(* limit.                                                                  *)
(***************************************************************************)
EXTENDS EventDelivery, SlowCalls, ListLemmas

-----------------------------------------------------------------------------
(* Inboxes.                                                                *)

\* Removing one keeps the others, once each.
LEMMA RemoveOne ==
    ASSUME NEW S, NEW s \in Seq(S), IsInjective(s), NEW x
    PROVE  /\ RemoveFirst(s, x) \in Seq(S)
           /\ IsInjective(RemoveFirst(s, x))
           /\ Range(RemoveFirst(s, x)) = Range(s) \ {x}
BY RemovalKeepsOrder, RemovalRange

\* An empty inbox is a list without repeats.
LEMMA EmptyInbox ==
    ASSUME NEW S
    PROVE  <<>> \in Seq(S) /\ IsInjective(<<>>) /\ Range(<<>>) = {}
BY EmptyRange DEF IsInjective

-----------------------------------------------------------------------------
(* The invariant.                                                          *)

\* Before the first start nothing is on the bus.
THEOREM DeliveryInvInit == DeliveryInit => DeliveryInv
<1> SUFFICES ASSUME DeliveryInit
             PROVE  DeliveryInv
  OBVIOUS
<1>1. \A g \in Listeners : inbox[g] = <<>>
  BY DEF DeliveryInit
<1>2. \A g \in Listeners, e \in Events : run[g][e] = "none"
  BY DEF DeliveryInit
<1>3. DeliveryTypeOK
  <2>1. inbox \in [Listeners -> Seq(Events)]
    BY EmptyInbox DEF DeliveryInit
  <2>2. QED BY <2>1 DEF DeliveryInit, DeliveryTypeOK, Runs, Pumps
<1>4. OnlyCurrentListens /\ StopsInOrder
  BY DEF DeliveryInit, OnlyCurrentListens, StopsInOrder
<1>5. OneDelivery
  BY <1>2 DEF OneDelivery
<1>6. InboxesWait
  <2>1. \A g \in Listeners : IsInjective(inbox[g]) /\ Range(inbox[g]) = {}
    BY <1>1, EmptyInbox
  <2>2. QED BY <1>1, <1>2, <2>1 DEF InboxesWait, DeliveryInit
<1>7. QED BY <1>3, <1>4, <1>5, <1>6 DEF DeliveryInv

\* One entry of a table of tables.
LEMMA OneRun ==
    ASSUME NEW A, NEW B, NEW C, NEW t \in [A -> [B -> C]], NEW a \in A, NEW b \in B, NEW c \in C
    PROVE  /\ [t EXCEPT ![a][b] = c] \in [A -> [B -> C]]
           /\ [t EXCEPT ![a][b] = c][a][b] = c
           /\ \A x \in A, y \in B :
                 x # a \/ y # b => [t EXCEPT ![a][b] = c][x][y] = t[x][y]
OBVIOUS

\* What DeliveryInv says of events, inboxes and runs, left alone by an action that
\* touches none of them.
LEMMA QuietSteps ==
    ASSUME DeliveryInv, UNCHANGED <<mode, sent, inbox, run>>, DeliveryTypeOK',
           OnlyCurrentListens', StopsInOrder',
           mode = "redis" => \A g \in Listeners : inbox[g] # <<>> => g = current',
           mode = "memory" => pump' = pump
    PROVE  DeliveryInv'
<1>1. OneDelivery'
  BY DEF DeliveryInv, OneDelivery
<1>2. InboxesWait'
  BY DEF DeliveryInv, InboxesWait
<1>3. QED BY <1>1, <1>2 DEF DeliveryInv

\* A start takes the place nobody has.
LEMMA MemoryStartKeeps ==
    ASSUME DeliveryInv, NEW h \in Listeners, MemoryStart(h)
    PROVE  DeliveryInv'
<1>1. DeliveryTypeOK'
  BY DEF DeliveryInv, DeliveryTypeOK, Pumps, MemoryStart, Start
<1>2. OnlyCurrentListens' /\ StopsInOrder'
  BY DeliveryAssumption DEF DeliveryInv, DeliveryTypeOK, OnlyCurrentListens, StopsInOrder, MemoryStart, Start
<1>3. /\ UNCHANGED <<mode, sent, inbox, run>>
      /\ mode = "redis" => \A g \in Listeners : inbox[g] # <<>> => g = current'
      /\ mode = "memory" => pump' = pump
  BY DeliveryAssumption DEF DeliveryInv, DeliveryTypeOK, InboxesWait, MemoryStart, Start
<1>4. QED BY <1>1, <1>2, <1>3, QuietSteps

\* A start on Redis, with nobody's inbox left.
LEMMA RedisStartKeeps ==
    ASSUME DeliveryInv, NEW h \in Listeners, RedisStart(h)
    PROVE  DeliveryInv'
<1>1. DeliveryTypeOK'
  BY DEF DeliveryInv, DeliveryTypeOK, Pumps, RedisStart, Start
<1>2. OnlyCurrentListens' /\ StopsInOrder'
  BY DeliveryAssumption DEF DeliveryInv, DeliveryTypeOK, OnlyCurrentListens, StopsInOrder, RedisStart, Start
<1>3. /\ UNCHANGED <<mode, sent, inbox, run>>
      /\ mode = "redis" => \A g \in Listeners : inbox[g] # <<>> => g = current'
      /\ mode = "memory" => pump' = pump
  BY DeliveryAssumption DEF DeliveryInv, DeliveryTypeOK, InboxesWait, RedisStart, Start
<1>4. QED BY <1>1, <1>2, <1>3, QuietSteps

\* Whoever is taken off the bus was the only one on it.
LEMMA MemoryUnsubscribeKeeps ==
    ASSUME DeliveryInv, MemoryUnsubscribe
    PROVE  DeliveryInv'
<1>1. DeliveryTypeOK'
  BY DEF DeliveryInv, DeliveryTypeOK, Pumps, MemoryUnsubscribe
<1>2. OnlyCurrentListens' /\ StopsInOrder'
  BY DEF DeliveryInv, DeliveryTypeOK, OnlyCurrentListens, StopsInOrder, MemoryUnsubscribe
<1>3. /\ UNCHANGED <<mode, sent, inbox, run>>
      /\ mode = "redis" => \A g \in Listeners : inbox[g] # <<>> => g = current'
      /\ mode = "memory" => pump' = pump
  BY DEF DeliveryInv, DeliveryTypeOK, InboxesWait, MemoryUnsubscribe
<1>4. QED BY <1>1, <1>2, <1>3, QuietSteps

\* Whoever is cleared was the only one with a handler.
LEMMA MemoryClearKeeps ==
    ASSUME DeliveryInv, MemoryClear
    PROVE  DeliveryInv'
<1>1. DeliveryTypeOK'
  BY DEF DeliveryInv, DeliveryTypeOK, Pumps, MemoryClear, busVars
<1>2. OnlyCurrentListens' /\ StopsInOrder'
  BY DEF DeliveryInv, DeliveryTypeOK, OnlyCurrentListens, StopsInOrder, MemoryClear, busVars
<1>3. /\ UNCHANGED <<mode, sent, inbox, run>>
      /\ mode = "redis" => \A g \in Listeners : inbox[g] # <<>> => g = current'
      /\ mode = "memory" => pump' = pump
  BY DEF DeliveryInv, DeliveryTypeOK, StopsInOrder, InboxesWait, MemoryClear, busVars
<1>4. QED BY <1>1, <1>2, <1>3, QuietSteps

\* A stop on Redis begins.
LEMMA RedisStopKeeps ==
    ASSUME DeliveryInv, RedisStop
    PROVE  DeliveryInv'
<1>1. DeliveryTypeOK'
  BY DEF DeliveryInv, DeliveryTypeOK, Pumps, RedisStop, busVars
<1>2. OnlyCurrentListens' /\ StopsInOrder'
  BY DEF DeliveryInv, DeliveryTypeOK, OnlyCurrentListens, StopsInOrder, RedisStop, busVars
<1>3. /\ UNCHANGED <<mode, sent, inbox, run>>
      /\ mode = "redis" => \A g \in Listeners : inbox[g] # <<>> => g = current'
      /\ mode = "memory" => pump' = pump
  BY DEF DeliveryInv, DeliveryTypeOK, InboxesWait, RedisStop, busVars
<1>4. QED BY <1>1, <1>2, <1>3, QuietSteps

\* The join returns.
LEMMA JoinKeeps ==
    ASSUME DeliveryInv, Join
    PROVE  DeliveryInv'
<1>1. DeliveryTypeOK'
  BY DEF DeliveryInv, DeliveryTypeOK, Pumps, Join, busVars
<1>2. OnlyCurrentListens' /\ StopsInOrder'
  BY DEF DeliveryInv, DeliveryTypeOK, OnlyCurrentListens, StopsInOrder, Join, busVars
<1>3. /\ UNCHANGED <<mode, sent, inbox, run>>
      /\ mode = "redis" => \A g \in Listeners : inbox[g] # <<>> => g = current'
      /\ mode = "memory" => pump' = pump
  BY DEF DeliveryInv, DeliveryTypeOK, InboxesWait, Join, busVars
<1>4. QED BY <1>1, <1>2, <1>3, QuietSteps

\* A pump looks at the stop event.
LEMMA PumpChecksKeeps ==
    ASSUME DeliveryInv, NEW h \in Listeners, PumpChecks(h)
    PROVE  DeliveryInv'
<1>1. DeliveryTypeOK'
  BY DEF DeliveryInv, DeliveryTypeOK, Pumps, PumpChecks, PumpGoes, busVars, lifeVars
<1>2. OnlyCurrentListens' /\ StopsInOrder'
  BY DEF DeliveryInv, DeliveryTypeOK, OnlyCurrentListens, StopsInOrder, PumpChecks, PumpGoes, busVars, lifeVars
<1>3. /\ UNCHANGED <<mode, sent, inbox, run>>
      /\ mode = "redis" => \A g \in Listeners : inbox[g] # <<>> => g = current'
      /\ mode = "memory" => pump' = pump
  BY DEF DeliveryInv, DeliveryTypeOK, InboxesWait, PumpChecks, PumpGoes, busVars, lifeVars
<1>4. QED BY <1>1, <1>2, <1>3, QuietSteps

\* A pump finds nothing in its inbox.
LEMMA PumpGetsNothingKeeps ==
    ASSUME DeliveryInv, NEW h \in Listeners, PumpGetsNothing(h)
    PROVE  DeliveryInv'
<1>1. DeliveryTypeOK'
  BY DEF DeliveryInv, DeliveryTypeOK, Pumps, PumpGetsNothing, PumpGoes, busVars, lifeVars
<1>2. OnlyCurrentListens' /\ StopsInOrder'
  BY DEF DeliveryInv, DeliveryTypeOK, OnlyCurrentListens, StopsInOrder, PumpGetsNothing, PumpGoes, busVars, lifeVars
<1>3. /\ UNCHANGED <<mode, sent, inbox, run>>
      /\ mode = "redis" => \A g \in Listeners : inbox[g] # <<>> => g = current'
      /\ mode = "memory" => pump' = pump
  BY DEF DeliveryInv, DeliveryTypeOK, InboxesWait, PumpGetsNothing, PumpGoes, busVars, lifeVars
<1>4. QED BY <1>1, <1>2, <1>3, QuietSteps

\* A new event is in no inbox; it goes to the listener in place, if there is one.
LEMMA PublishKeeps ==
    ASSUME DeliveryInv, NEW e \in Events, Publish(e)
    PROVE  DeliveryInv'
<1>1. /\ run \in [Listeners -> [Events -> Runs]] /\ inbox \in [Listeners -> Seq(Events)]
      /\ subscribed \subseteq {current}
      /\ \A h \in Listeners : run[h][e] = "none" /\ e \notin Range(inbox[h])
  BY DEF DeliveryInv, DeliveryTypeOK, OnlyCurrentListens, OneDelivery, InboxesWait, Publish
<1>2. ASSUME NEW h \in Listeners
      PROVE  /\ inbox'[h] \in Seq(Events) /\ IsInjective(inbox'[h])
             /\ \A f \in Events : f \in Range(inbox'[h]) <=> run'[h][f] = "waiting"
             /\ run'[h] \in [Events -> Runs]
             /\ \A f \in Events : f # e => run'[h][f] = run[h][f]
             /\ run'[h][e] # "none" => h \in subscribed
             /\ inbox'[h] # <<>> => inbox[h] # <<>> \/ h = current
  <2>1. /\ inbox[h] \in Seq(Events) /\ IsInjective(inbox[h])
        /\ \A f \in Events : f \in Range(inbox[h]) <=> run[h][f] = "waiting"
    BY <1>1 DEF DeliveryInv, InboxesWait
  <2>2. CASE h \in subscribed
    <3>1. inbox'[h] = Append(inbox[h], e) /\ run'[h] = [run[h] EXCEPT ![e] = "waiting"]
      BY <2>2 DEF Publish
    <3>2. /\ inbox'[h] \in Seq(Events) /\ IsInjective(inbox'[h])
          /\ Range(inbox'[h]) = Range(inbox[h]) \cup {e}
      BY <1>1, <2>1, <3>1, AppendNew
    <3>3. /\ run'[h] \in [Events -> Runs] /\ run'[h][e] = "waiting"
          /\ \A f \in Events : f # e => run'[h][f] = run[h][f]
      BY <1>1, <3>1 DEF Runs
    <3>4. QED BY <1>1, <2>1, <2>2, <3>2, <3>3
  <2>3. CASE h \notin subscribed
    <3>1. inbox'[h] = inbox[h] /\ run'[h] = run[h]
      BY <2>3 DEF Publish
    <3>2. QED BY <1>1, <2>1, <3>1
  <2>4. QED BY <2>2, <2>3
<1>3. DeliveryTypeOK'
  <2>1. inbox' \in [Listeners -> Seq(Events)] /\ run' \in [Listeners -> [Events -> Runs]]
    <3>1. /\ inbox' = [h \in Listeners |-> inbox'[h]]
          /\ run' = [h \in Listeners |-> run'[h]]
      BY DEF Publish
    <3>2. QED BY <1>2, <3>1
  <2>2. QED BY <2>1 DEF DeliveryInv, DeliveryTypeOK, Publish, lifeVars
<1>4. OnlyCurrentListens' /\ StopsInOrder'
  BY DEF DeliveryInv, OnlyCurrentListens, StopsInOrder, Publish, lifeVars
<1>5. OneDelivery'
  BY <1>1, <1>2 DEF DeliveryInv, OneDelivery, Publish
<1>6. InboxesWait'
  BY <1>2 DEF DeliveryInv, InboxesWait, Publish, lifeVars
<1>7. QED BY <1>3, <1>4, <1>5, <1>6 DEF DeliveryInv

\* A delivery that leaves its inbox, on whichever thread.
LEMMA LeavesKeeps ==
    ASSUME DeliveryInv, NEW g \in Listeners, NEW e \in Events, run[g][e] = "waiting",
           NEW state \in Runs \ {"none", "waiting"}, Leaves(g, e, state),
           UNCHANGED <<mode, sent, subscribed, lifeVars>>,
           pump' \in [Listeners -> Pumps], mode = "memory" => pump' = pump
    PROVE  DeliveryInv'
<1>1. run \in [Listeners -> [Events -> Runs]] /\ inbox \in [Listeners -> Seq(Events)]
  BY DEF DeliveryInv, DeliveryTypeOK
<1>2. /\ run' \in [Listeners -> [Events -> Runs]] /\ run'[g][e] = state
      /\ \A h \in Listeners, f \in Events : h # g \/ f # e => run'[h][f] = run[h][f]
  BY <1>1, OneRun DEF Leaves
<1>3. /\ inbox' \in [Listeners -> Seq(Events)]
      /\ IsInjective(inbox'[g]) /\ Range(inbox'[g]) = Range(inbox[g]) \ {e}
      /\ \A h \in Listeners \ {g} : inbox'[h] = inbox[h]
  <2>1. inbox' = [inbox EXCEPT ![g] = RemoveFirst(inbox[g], e)]
    BY DEF Leaves
  <2>2. inbox[g] \in Seq(Events) /\ IsInjective(inbox[g])
    BY <1>1 DEF DeliveryInv, InboxesWait
  <2>3. /\ RemoveFirst(inbox[g], e) \in Seq(Events)
        /\ IsInjective(RemoveFirst(inbox[g], e))
        /\ Range(RemoveFirst(inbox[g], e)) = Range(inbox[g]) \ {e}
    BY <2>2, RemoveOne
  <2>4. QED BY <1>1, <2>1, <2>3
<1>4. DeliveryTypeOK'
  BY <1>2, <1>3 DEF DeliveryInv, DeliveryTypeOK, lifeVars
<1>5. OnlyCurrentListens' /\ StopsInOrder'
  BY DEF DeliveryInv, OnlyCurrentListens, StopsInOrder, lifeVars
<1>6. OneDelivery'
  <2>1. \A h \in Listeners, f \in Events : run'[h][f] # "none" => run[h][f] # "none"
    BY <1>2
  <2>2. QED BY <2>1 DEF DeliveryInv, OneDelivery
<1>7. InboxesWait'
  <2>1. ASSUME NEW h \in Listeners
        PROVE  /\ IsInjective(inbox'[h])
               /\ \A f \in Events : f \in Range(inbox'[h]) <=> run'[h][f] = "waiting"
    <3>1. /\ IsInjective(inbox[h])
          /\ \A f \in Events : f \in Range(inbox[h]) <=> run[h][f] = "waiting"
      BY DEF DeliveryInv, InboxesWait
    <3>2. CASE h = g
      <4>1. ASSUME NEW f \in Events
            PROVE  f \in Range(inbox'[g]) <=> run'[g][f] = "waiting"
        <5>1. CASE f = e
          BY <1>2, <1>3, <5>1
        <5>2. CASE f # e
          BY <1>2, <1>3, <3>1, <3>2, <5>2
        <5>3. QED BY <5>1, <5>2
      <4>2. QED BY <1>3, <3>2, <4>1
    <3>3. CASE h # g
      BY <1>2, <1>3, <3>1, <3>3
    <3>4. QED BY <3>2, <3>3
  <2>2. ASSUME NEW h \in Listeners, inbox'[h] # <<>>
        PROVE  inbox[h] # <<>>
    <3>1. CASE h = g
      <4>1. e \in Range(inbox[g])
        BY DEF DeliveryInv, InboxesWait
      <4>2. QED BY <3>1, <4>1, EmptyRange
    <3>2. CASE h # g
      BY <1>3, <2>2, <3>2
    <3>3. QED BY <3>1, <3>2
  <2>3. QED BY <2>1, <2>2 DEF DeliveryInv, InboxesWait, lifeVars
<1>8. QED BY <1>4, <1>5, <1>6, <1>7 DEF DeliveryInv

\* The delivery a publisher's thread gets to.
LEMMA AdapterKeeps ==
    ASSUME DeliveryInv, NEW g \in Listeners, NEW e \in Events, Adapter(g, e)
    PROVE  DeliveryInv'
<1>1. (IF g \in armed THEN "handling" ELSE "missed") \in Runs \ {"none", "waiting"}
  BY DEF Runs
<1>2. /\ UNCHANGED <<mode, sent, subscribed, lifeVars>>
      /\ pump' \in [Listeners -> Pumps] /\ (mode = "memory" => pump' = pump)
  BY DEF Adapter, DeliveryInv, DeliveryTypeOK
<1>3. QED BY <1>1, <1>2, LeavesKeeps DEF Adapter

\* The head of a pump's inbox waits.
LEMMA PumpTakesTheHead ==
    ASSUME DeliveryInv, NEW g \in Listeners, PumpTakes(g)
    PROVE  /\ mode = "redis" /\ g = current
           /\ Head(inbox[g]) \in Events /\ run[g][Head(inbox[g])] = "waiting"
<1>1. inbox[g] \in Seq(Events) /\ inbox[g] # <<>>
  BY DEF DeliveryInv, DeliveryTypeOK, PumpTakes
<1>2. Head(inbox[g]) \in Events /\ Head(inbox[g]) \in Range(inbox[g])
  BY <1>1, HeadTailRange
<1>3. mode = "redis"
  BY DEF DeliveryInv, DeliveryTypeOK, InboxesWait, PumpTakes, PumpGoes
<1>4. QED BY <1>1, <1>2, <1>3 DEF DeliveryInv, InboxesWait

\* The delivery a pump takes.
LEMMA PumpTakesKeeps ==
    ASSUME DeliveryInv, NEW g \in Listeners, PumpTakes(g)
    PROVE  DeliveryInv'
<1>1. mode = "redis" /\ Head(inbox[g]) \in Events /\ run[g][Head(inbox[g])] = "waiting"
  BY PumpTakesTheHead
<1>2. "handling" \in Runs \ {"none", "waiting"}
  BY DEF Runs
<1>3. Leaves(g, Head(inbox[g]), "handling") /\ UNCHANGED <<mode, sent, subscribed, lifeVars>>
  BY DEF PumpTakes
<1>4. pump' \in [Listeners -> Pumps]
  BY DEF DeliveryInv, DeliveryTypeOK, Pumps, PumpTakes, PumpGoes
<1>5. QED BY <1>1, <1>2, <1>3, <1>4, LeavesKeeps

\* What a closed subscription had in its inbox waits no more.
LEMMA ReleaseKeeps ==
    ASSUME DeliveryInv, Release
    PROVE  DeliveryInv'
<1>1. /\ mode = "redis" /\ current \in Listeners /\ ctl' = "idle" /\ current' = NoListener
      /\ run \in [Listeners -> [Events -> Runs]] /\ inbox \in [Listeners -> Seq(Events)]
      /\ UNCHANGED <<mode, sent, started, armed, stopEvent, pump>>
  BY DEF DeliveryInv, DeliveryTypeOK, StopsInOrder, Release
<1>2. /\ \A h \in Listeners \ {current} : run'[h] = run[h] /\ inbox'[h] = inbox[h]
      /\ inbox'[current] = <<>>
      /\ run'[current] = [e \in Events |-> IF run[current][e] = "waiting" THEN "missed"
                                           ELSE run[current][e]]
  BY <1>1 DEF Release
<1>3. /\ run' \in [Listeners -> [Events -> Runs]] /\ inbox' \in [Listeners -> Seq(Events)]
      /\ inbox'[current] = <<>>
  <2>1. run'[current] \in [Events -> Runs]
    BY <1>1, <1>2 DEF Runs
  <2>2. <<>> \in Seq(Events)
    BY EmptyInbox
  <2>3. QED BY <1>1, <1>2, <2>1, <2>2 DEF Release
<1>4. DeliveryTypeOK'
  BY <1>1, <1>3 DEF DeliveryInv, DeliveryTypeOK, Release
<1>5. OnlyCurrentListens' /\ StopsInOrder'
  BY <1>1 DEF DeliveryInv, OnlyCurrentListens, StopsInOrder, Release
<1>6. OneDelivery'
  <2>1. \A h \in Listeners, f \in Events : run'[h][f] # "none" => run[h][f] # "none"
    BY <1>1, <1>2
  <2>2. QED BY <1>1, <2>1 DEF DeliveryInv, OneDelivery
<1>7. \A h \in Listeners : inbox'[h] = <<>>
  BY <1>1, <1>2 DEF DeliveryInv, InboxesWait
<1>8. \A h \in Listeners, f \in Events : run'[h][f] # "waiting"
  <2>1. \A h \in Listeners \ {current}, f \in Events : run[h][f] # "waiting"
    <3>1. \A h \in Listeners \ {current} : Range(inbox[h]) = {}
      BY <1>1, EmptyRange DEF DeliveryInv, InboxesWait
    <3>2. QED BY <3>1 DEF DeliveryInv, InboxesWait
  <2>2. \A h \in Listeners \ {current}, f \in Events : run'[h][f] # "waiting"
    BY <1>2, <2>1
  <2>3. \A f \in Events : run'[current][f] # "waiting"
    BY <1>2
  <2>4. QED BY <2>2, <2>3
<1>9. InboxesWait'
  <2>1. \A h \in Listeners : IsInjective(inbox'[h]) /\ Range(inbox'[h]) = {}
    BY <1>7, EmptyInbox
  <2>2. QED BY <1>1, <1>7, <1>8, <2>1 DEF InboxesWait
<1>10. QED BY <1>4, <1>5, <1>6, <1>9 DEF DeliveryInv

\* What the handler makes of an event concerns no inbox.
LEMMA HandlerKeeps ==
    ASSUME DeliveryInv, NEW g \in Listeners, NEW e \in Events,
           NEW from \in {"handling", "planned"}, NEW to \in Begun, Handler(g, e, from, to),
           PumpGoesOn(g) \/ UNCHANGED pump
    PROVE  DeliveryInv'
<1>1. run \in [Listeners -> [Events -> Runs]] /\ to \in Runs /\ to \notin {"none", "waiting"}
  BY DEF DeliveryInv, DeliveryTypeOK, Begun, Runs
<1>2. /\ run' \in [Listeners -> [Events -> Runs]] /\ run'[g][e] = to
      /\ \A h \in Listeners, f \in Events : h # g \/ f # e => run'[h][f] = run[h][f]
  BY <1>1, OneRun DEF Handler
<1>3. pump' \in [Listeners -> Pumps] /\ (mode = "memory" => pump' = pump)
  BY DEF DeliveryInv, DeliveryTypeOK, Pumps, PumpGoesOn
<1>4. DeliveryTypeOK'
  BY <1>2, <1>3 DEF DeliveryInv, DeliveryTypeOK, Handler, busVars, lifeVars
<1>5. OnlyCurrentListens' /\ StopsInOrder'
  BY DEF DeliveryInv, OnlyCurrentListens, StopsInOrder, Handler, busVars, lifeVars
<1>6. OneDelivery'
  <2>1. \A h \in Listeners, f \in Events : run'[h][f] # "none" => run[h][f] # "none"
    BY <1>2 DEF Handler
  <2>2. QED BY <2>1 DEF DeliveryInv, OneDelivery, Handler, busVars
<1>7. InboxesWait'
  <2>1. \A h \in Listeners, f \in Events : run'[h][f] = "waiting" <=> run[h][f] = "waiting"
    BY <1>1, <1>2 DEF Handler
  <2>2. QED BY <1>3, <2>1 DEF DeliveryInv, InboxesWait, Handler, busVars, lifeVars
<1>8. QED BY <1>4, <1>5, <1>6, <1>7 DEF DeliveryInv

\* Every step of the bus, of a listener and of a pump keeps the invariant.
THEOREM DeliveryInvStep == DeliveryInv /\ [DeliveryNext]_vars => DeliveryInv'
<1> SUFFICES ASSUME DeliveryInv, [DeliveryNext]_vars
             PROVE  DeliveryInv'
  OBVIOUS
<1>1. ASSUME NEW e \in Events, Publish(e)
      PROVE  DeliveryInv'
  BY <1>1, PublishKeeps
<1>2. ASSUME NEW g \in Listeners, MemoryStart(g) \/ RedisStart(g)
      PROVE  DeliveryInv'
  BY <1>2, MemoryStartKeeps, RedisStartKeeps
<1>3. CASE MemoryUnsubscribe \/ RedisStop \/ StopGoesOn
  BY <1>3, MemoryUnsubscribeKeeps, RedisStopKeeps, MemoryClearKeeps, JoinKeeps, ReleaseKeeps
  DEF StopGoesOn
<1>4. ASSUME NEW g \in Listeners, NEW e \in Events, Adapter(g, e) \/ Handles(g, e)
      PROVE  DeliveryInv'
  <2>1. CASE Adapter(g, e)
    BY <2>1, AdapterKeeps
  <2>2. CASE Handles(g, e)
    BY <2>2, HandlerKeeps DEF Handles, Plan, PlanRaises, Propose, ProposeRaises, Begun
  <2>3. QED BY <1>4, <2>1, <2>2
<1>5. ASSUME NEW g \in Listeners, PumpLoop(g)
      PROVE  DeliveryInv'
  BY <1>5, PumpChecksKeeps, PumpGetsNothingKeeps, PumpTakesKeeps DEF PumpLoop
<1>6. CASE UNCHANGED vars
  BY <1>6 DEF vars, DeliveryInv, DeliveryTypeOK, OnlyCurrentListens, StopsInOrder,
              OneDelivery, InboxesWait
<1>7. QED BY <1>1, <1>2, <1>3, <1>4, <1>5, <1>6 DEF DeliveryNext

\* So it always holds.
THEOREM DeliveryInvHolds == DeliverySpec => []DeliveryInv
BY DeliveryInvInit, DeliveryInvStep, PTL DEF DeliverySpec

\* The type invariant, for any number of events and of starts.
THEOREM DeliveryTyped == DeliverySpec => []DeliveryTypeOK
<1>1. DeliveryInv => DeliveryTypeOK
  BY DEF DeliveryInv
<1>2. QED BY <1>1, DeliveryInvHolds, PTL

-----------------------------------------------------------------------------
(* What a step does to the deliveries.                                     *)

Moves == {<<"waiting", "handling">>, <<"waiting", "missed">>, <<"handling", "planned">>,
          <<"handling", "dropped">>, <<"planned", "acted">>, <<"planned", "dropped">>}

\* One delivery goes on, and is begun only by the listener in place.
OneGoesOn(g, e, from, to) ==
    /\ <<from, to>> \in Moves
    /\ run[g][e] = from
    /\ run' = [run EXCEPT ![g][e] = to]
    /\ sent' = sent
    /\ to = "handling" => g = current

\* A step leaves the deliveries alone, publishes, lets one go on, or closes a
\* subscription.
LEMMA StepsOfDelivery ==
    ASSUME DeliveryInv, [DeliveryNext]_vars
    PROVE  \/ UNCHANGED <<run, sent>>
           \/ \E e \in Events : Publish(e)
           \/ \E g \in Listeners, e \in Events, from, to \in Runs : OneGoesOn(g, e, from, to)
           \/ Release
<1>1. ASSUME NEW g \in Listeners, MemoryStart(g) \/ RedisStart(g)
      PROVE  UNCHANGED <<run, sent>>
  BY <1>1 DEF MemoryStart, RedisStart
<1>2. CASE MemoryUnsubscribe \/ RedisStop \/ StopGoesOn
  BY <1>2 DEF MemoryUnsubscribe, RedisStop, StopGoesOn, MemoryClear, Join, busVars
<1>3. ASSUME NEW g \in Listeners, NEW e \in Events, Adapter(g, e)
      PROVE  \E from, to \in Runs : OneGoesOn(g, e, from, to)
  <2>1. OneGoesOn(g, e, "waiting", IF g \in armed THEN "handling" ELSE "missed")
    BY <1>3 DEF Adapter, Leaves, OneGoesOn, Moves, DeliveryInv, OnlyCurrentListens
  <2>2. QED BY <2>1 DEF Runs
<1>4. ASSUME NEW g \in Listeners, NEW e \in Events, Handles(g, e)
      PROVE  \E from, to \in Runs : OneGoesOn(g, e, from, to)
  <2>1. \/ Handler(g, e, "handling", "planned") \/ Handler(g, e, "handling", "dropped")
        \/ Handler(g, e, "planned", "acted") \/ Handler(g, e, "planned", "dropped")
    BY <1>4 DEF Handles, Plan, PlanRaises, Propose, ProposeRaises
  <2>2. ASSUME NEW from, NEW to, <<from, to>> \in Moves, to # "handling",
               Handler(g, e, from, to)
        PROVE  OneGoesOn(g, e, from, to)
    BY <2>2 DEF Handler, OneGoesOn, busVars
  <2>3. QED BY <2>1, <2>2 DEF Moves, Runs
<1>5. ASSUME NEW g \in Listeners, PumpLoop(g)
      PROVE  \/ UNCHANGED <<run, sent>>
             \/ \E e \in Events, from, to \in Runs : OneGoesOn(g, e, from, to)
  <2>1. CASE PumpChecks(g) \/ PumpGetsNothing(g)
    BY <2>1 DEF PumpChecks, PumpGetsNothing, busVars
  <2>2. CASE PumpTakes(g)
    <3>1. g = current /\ Head(inbox[g]) \in Events /\ run[g][Head(inbox[g])] = "waiting"
      BY <2>2, PumpTakesTheHead
    <3>2. OneGoesOn(g, Head(inbox[g]), "waiting", "handling")
      BY <2>2, <3>1 DEF PumpTakes, Leaves, OneGoesOn, Moves
    <3>3. QED BY <3>1, <3>2 DEF Runs
  <2>3. QED BY <1>5, <2>1, <2>2 DEF PumpLoop
<1>6. CASE UNCHANGED vars
  BY <1>6 DEF vars
<1>7. QED BY <1>1, <1>2, <1>3, <1>4, <1>5, <1>6 DEF DeliveryNext

\* After stop has returned nothing reaches the pipeline from the stopped listener,
\* however many starts there have been: whoever has a handler, or on Redis an inbox,
\* is the listener in place.
THEOREM NothingAfterStopHolds == DeliverySpec => NothingAfterStop
<1>1. DeliveryInv /\ [DeliveryNext]_vars => BegunInPlace
  <2> SUFFICES ASSUME DeliveryInv, [DeliveryNext]_vars, NEW g \in Listeners,
                      NEW e \in Events, run[g][e] = "waiting", run'[g][e] = "handling"
               PROVE  g = current
    BY DEF BegunInPlace
  <2>1. run \in [Listeners -> [Events -> Runs]]
    BY DEF DeliveryInv, DeliveryTypeOK
  <2>2. ASSUME NEW f \in Events, Publish(f)
        PROVE  FALSE
    BY <2>1, <2>2 DEF Publish
  <2>3. ASSUME NEW h \in Listeners, NEW f \in Events, NEW from \in Runs, NEW to \in Runs,
               OneGoesOn(h, f, from, to)
        PROVE  g = current
    <3>1. run'[h][f] = to /\ (h # g \/ f # e => run'[g][e] = run[g][e])
      BY <2>1, <2>3, OneRun DEF OneGoesOn
    <3>2. QED BY <2>3, <3>1 DEF OneGoesOn
  <2>4. CASE Release
    BY <2>1, <2>4 DEF Release
  <2>5. QED BY <2>2, <2>3, <2>4, StepsOfDelivery
<1>2. QED BY <1>1, DeliveryInvHolds, PTL DEF DeliverySpec, NothingAfterStop

-----------------------------------------------------------------------------
(* The fates of events.                                                    *)

\* Fate of the deliveries r when the events s have been sent.
FateIn(r, s, e) ==
    IF \E g, h \in Listeners : g # h /\ r[g][e] \in Begun /\ r[h][e] \in Begun THEN "twice"
    ELSE IF \E g \in Listeners : r[g][e] \in {"acted", "dropped"} THEN "done"
    ELSE IF \E g \in Listeners : r[g][e] \in {"handling", "planned"} THEN "begun"
    ELSE IF \E g \in Listeners : r[g][e] = "waiting" THEN "pending"
    ELSE IF e \in s THEN "missed" ELSE "unsent"

\* Fate of an event with the one delivery d.
FateOf(d) ==
    IF d \in {"acted", "dropped"} THEN "done"
    ELSE IF d \in {"handling", "planned"} THEN "begun"
    ELSE IF d = "waiting" THEN "pending" ELSE "missed"

\* The fate of an event, before and after a step, from the two variables it is read
\* from.
LEMMA FateNow ==
    ASSUME NEW e
    PROVE  Fate(e) = FateIn(run, sent, e) /\ Fate(e)' = FateIn(run', sent', e)
<1>1. (\E g, h \in Handlers(e) : g # h)
      <=> \E g, h \in Listeners : g # h /\ run[g][e] \in Begun /\ run[h][e] \in Begun
  BY DEF Handlers
<1>2. (\E g, h \in Handlers(e)' : g # h)
      <=> \E g, h \in Listeners : g # h /\ run'[g][e] \in Begun /\ run'[h][e] \in Begun
  BY DEF Handlers
<1>3. Fate(e) = FateIn(run, sent, e)
  BY <1>1 DEF Fate, FateIn, Reached
<1>4. Fate(e)' = FateIn(run', sent', e)
  BY <1>2 DEF Fate, FateIn, Reached
<1>5. QED BY <1>3, <1>4

\* With one delivery, its fate.
LEMMA FateOfOne ==
    ASSUME NEW r, NEW s, NEW e \in s, NEW g \in Listeners,
           r[g][e] \in Runs, r[g][e] # "none",
           \A h \in Listeners : r[h][e] # "none" => h = g
    PROVE  FateIn(r, s, e) = FateOf(r[g][e])
<1>1. \A h \in Listeners : h # g => r[h][e] = "none"
  OBVIOUS
<1>2. ~ \E h, k \in Listeners : h # k /\ r[h][e] \in Begun /\ r[k][e] \in Begun
  BY <1>1 DEF Begun
<1>3. QED BY <1>1, <1>2 DEF FateIn, FateOf, Runs

\* With no delivery, it is missed if it was sent.
LEMMA FateOfNone ==
    ASSUME NEW r, NEW s, NEW e, \A h \in Listeners : r[h][e] = "none"
    PROVE  FateIn(r, s, e) = IF e \in s THEN "missed" ELSE "unsent"
BY DEF FateIn, Begun

\* A fate depends on the event's own deliveries and on whether it was sent.
LEMMA FateAlone ==
    ASSUME NEW r, NEW s, NEW q, NEW u, NEW e,
           \A g \in Listeners : r[g][e] = q[g][e], e \in s <=> e \in u
    PROVE  FateIn(r, s, e) = FateIn(q, u, e)
BY DEF FateIn

\* An event's only delivery, when it has one.
LEMMA FateOfDelivery ==
    ASSUME DeliveryInv, NEW g \in Listeners, NEW e \in Events, run[g][e] # "none"
    PROVE  /\ e \in sent
           /\ \A h \in Listeners : h # g => run[h][e] = "none"
           /\ FateIn(run, sent, e) = FateOf(run[g][e])
<1>1. /\ run[g][e] \in Runs /\ e \in sent
      /\ \A h \in Listeners : run[h][e] # "none" => h = g
  BY DEF DeliveryInv, DeliveryTypeOK, OneDelivery
<1>2. QED BY <1>1, FateOfOne

\* Publishing: an event nobody has heard of is pending at the listener in place, or
\* missed.
LEMMA PublishAdvances ==
    ASSUME DeliveryInv, NEW e \in Events, Publish(e)
    PROVE  Promise!Advance(e)
<1>1. /\ run \in [Listeners -> [Events -> Runs]] /\ subscribed \subseteq {current}
      /\ e \notin sent /\ sent' = sent \cup {e}
      /\ \A g \in Listeners : run[g][e] = "none"
  BY DEF DeliveryInv, DeliveryTypeOK, OnlyCurrentListens, OneDelivery, Publish
<1>2. /\ \A g \in Listeners : run'[g][e] = IF g \in subscribed THEN "waiting" ELSE "none"
      /\ \A g \in Listeners, f \in Events : f # e => run'[g][f] = run[g][f]
  BY <1>1 DEF Publish
<1>3. FateIn(run, sent, e) = "unsent"
  BY <1>1, FateOfNone
<1>4. FateIn(run', sent', e) \in {"pending", "missed"}
  <2>1. CASE \E g \in Listeners : g \in subscribed
    <3>1. PICK g \in Listeners : g \in subscribed
      BY <2>1
    <3>2. /\ run'[g][e] = "waiting" /\ e \in sent'
          /\ \A h \in Listeners : run'[h][e] # "none" => h = g
      BY <1>1, <1>2, <3>1
    <3>3. FateIn(run', sent', e) = FateOf("waiting")
      BY <3>2, FateOfOne DEF Runs
    <3>4. QED BY <3>3 DEF FateOf
  <2>2. CASE \A g \in Listeners : g \notin subscribed
    <3>1. \A g \in Listeners : run'[g][e] = "none"
      BY <1>2, <2>2
    <3>2. QED BY <1>1, <3>1, FateOfNone
  <2>3. QED BY <2>1, <2>2
<1>5. \A f \in Events : f # e => FateIn(run', sent', f) = FateIn(run, sent, f)
  BY <1>1, <1>2, FateAlone
<1>6. /\ \A f \in Events : f # e => Fate(f)' = Fate(f)
      /\ Fate(e) = "unsent" /\ Fate(e)' \in {"pending", "missed"}
  BY <1>3, <1>4, <1>5, FateNow
<1>7. QED BY <1>6 DEF Promise!Advance, Promise!Fates, Promise!Follows

\* A delivery that goes on: its event is missed, begun or done, or stays begun.
LEMMA GoingOnAdvances ==
    ASSUME DeliveryInv, NEW g \in Listeners, NEW e \in Events, NEW from \in Runs,
           NEW to \in Runs, OneGoesOn(g, e, from, to)
    PROVE  Promise!Advance(e) \/ UNCHANGED [f \in Events |-> Fate(f)]
<1>1. run \in [Listeners -> [Events -> Runs]] /\ run[g][e] = from /\ from # "none" /\ to # "none"
  BY DEF DeliveryInv, DeliveryTypeOK, OneGoesOn, Moves
<1>2. /\ run'[g][e] = to /\ sent' = sent
      /\ \A h \in Listeners, f \in Events : h # g \/ f # e => run'[h][f] = run[h][f]
  BY <1>1, OneRun DEF OneGoesOn
<1>3. /\ e \in sent /\ FateIn(run, sent, e) = FateOf(from)
      /\ \A h \in Listeners : h # g => run[h][e] = "none"
  BY <1>1, FateOfDelivery
<1>4. FateIn(run', sent', e) = FateOf(to)
  <2>1. \A h \in Listeners : run'[h][e] # "none" => h = g
    BY <1>2, <1>3
  <2>2. QED BY <1>1, <1>2, <1>3, <2>1, FateOfOne
<1>5. \A f \in Events : f # e => FateIn(run', sent', f) = FateIn(run, sent, f)
  BY <1>2, FateAlone
<1>6. /\ \A f \in Events : f # e => Fate(f)' = Fate(f)
      /\ Fate(e) = FateOf(from) /\ Fate(e)' = FateOf(to)
  BY <1>3, <1>4, <1>5, FateNow
<1>7. CASE FateOf(to) = FateOf(from)
  BY <1>6, <1>7
<1>8. CASE FateOf(to) # FateOf(from)
  <2>1. <<FateOf(from), FateOf(to)>> \in Promise!Follows /\ FateOf(to) \in Promise!Fates
    BY <1>8 DEF OneGoesOn, Moves, FateOf, Promise!Follows, Promise!Fates
  <2>2. QED BY <1>6, <2>1 DEF Promise!Advance
<1>9. QED BY <1>7, <1>8

\* Closing a subscription: what was pending there is missed.
LEMMA ReleaseMisses ==
    ASSUME DeliveryInv, Release
    PROVE  \E S \in SUBSET Events : Promise!MissAll(S)
<1> DEFINE S == {e \in Events : run[current][e] = "waiting"}
<1>1. /\ run \in [Listeners -> [Events -> Runs]] /\ current \in Listeners /\ sent' = sent
      /\ \A h \in Listeners \ {current} : run'[h] = run[h]
      /\ \A f \in Events : run'[current][f] = IF f \in S THEN "missed" ELSE run[current][f]
  BY DEF DeliveryInv, DeliveryTypeOK, Release
<1>2. ASSUME NEW f \in S
      PROVE  FateIn(run, sent, f) = "pending" /\ FateIn(run', sent', f) = "missed"
  <2>1. /\ f \in sent /\ FateIn(run, sent, f) = FateOf("waiting")
        /\ \A h \in Listeners : h # current => run[h][f] = "none"
    <3>1. run[current][f] = "waiting" /\ f \in Events
      OBVIOUS
    <3>2. QED BY <1>1, <3>1, FateOfDelivery
  <2>2. /\ run'[current][f] = "missed"
        /\ \A h \in Listeners : run'[h][f] # "none" => h = current
    BY <1>1, <2>1
  <2>3. FateIn(run', sent', f) = FateOf("missed")
    BY <1>1, <2>1, <2>2, FateOfOne DEF Runs
  <2>4. QED BY <2>1, <2>3 DEF FateOf
<1>3. ASSUME NEW f \in Events, f \notin S
      PROVE  FateIn(run', sent', f) = FateIn(run, sent, f)
  <2>1. \A h \in Listeners : run'[h][f] = run[h][f]
    BY <1>1, <1>3
  <2>2. QED BY <1>1, <2>1, FateAlone
<1> HIDE DEF S
<1>4. /\ \A f \in S : Fate(f) = "pending" /\ Fate(f)' = "missed"
      /\ \A f \in Events : f \notin S => Fate(f)' = Fate(f)
  BY <1>2, <1>3, FateNow
<1>5. S \in SUBSET Events
  BY DEF S
<1>6. Promise!MissAll(S)
  BY <1>4, <1>5 DEF Promise!MissAll
<1>7. QED BY <1>5, <1>6

\* Delivery implements its promise: at most once or not at all, whatever is started,
\* stopped and attached anew while events are published.
THEOREM AtMostOnce == DeliverySpec => DeliversAtMostOnce
<1>1. DeliveryInit => Promise!Init
  <2> SUFFICES ASSUME DeliveryInit
               PROVE  \A e \in Events : Fate(e) = "unsent"
    BY DEF Promise!Init
  <2>1. ASSUME NEW e \in Events
        PROVE  FateIn(run, sent, e) = "unsent"
    <3>1. (\A g \in Listeners : run[g][e] = "none") /\ e \notin sent
      BY DEF DeliveryInit
    <3>2. QED BY <3>1, FateOfNone
  <2>2. QED BY <2>1, FateNow
<1>2. DeliveryInv /\ [DeliveryNext]_vars => [Promise!Next]_([e \in Events |-> Fate(e)])
  <2> SUFFICES ASSUME DeliveryInv, [DeliveryNext]_vars
               PROVE  Promise!Next \/ UNCHANGED [e \in Events |-> Fate(e)]
    OBVIOUS
  <2>1. CASE UNCHANGED <<run, sent>>
    <3>1. \A e \in Events : Fate(e)' = Fate(e)
      BY <2>1, FateNow
    <3>2. QED BY <3>1
  <2>2. ASSUME NEW e \in Events, Publish(e)
        PROVE  Promise!Next
    BY <2>2, PublishAdvances DEF Promise!Next
  <2>3. ASSUME NEW g \in Listeners, NEW e \in Events, NEW from \in Runs, NEW to \in Runs,
               OneGoesOn(g, e, from, to)
        PROVE  Promise!Next \/ UNCHANGED [f \in Events |-> Fate(f)]
    BY <2>3, GoingOnAdvances DEF Promise!Next
  <2>4. CASE Release
    BY <2>4, ReleaseMisses DEF Promise!Next
  <2>5. QED BY <2>1, <2>2, <2>3, <2>4, StepsOfDelivery
<1>3. QED BY <1>1, <1>2, DeliveryInvHolds, PTL
      DEF DeliverySpec, DeliversAtMostOnce, Promise!Spec

-----------------------------------------------------------------------------
(* Lists of members of a set.                                              *)

\* Any part of a list is a list of the same.
LEMMA PartOfSeq ==
    ASSUME NEW S, NEW s \in Seq(S), NEW m \in 1..(Len(s) + 1), NEW n \in 0..Len(s)
    PROVE  SubSeq(s, m, n) \in Seq(S)
<1>1. Len(s) \in Nat
  BY LenProperties
<1>2. m \in Int /\ n \in Int /\ \A i \in m..n : i \in 1..Len(s)
  BY <1>1
<1>3. \A i \in m..n : s[i] \in S
  BY <1>2, ElementOfSeq
<1>4. QED BY <1>2, <1>3, SubSeqProperties

\* So is what the buffer keeps when one more is pushed.
LEMMA PushOnSeq ==
    ASSUME NEW S, NEW s \in Seq(S), NEW x \in S, NEW max \in Nat
    PROVE  TrimPush(s, x, max) \in Seq(S)
<1> DEFINE r == Append(s, x)
<1>1. r \in Seq(S) /\ Len(r) \in Nat
  BY AppendProperties, LenProperties
<1> HIDE DEF r
<1>2. CASE Len(r) > max
  <2>1. Len(r) - max + 1 \in 1..(Len(r) + 1) /\ Len(r) \in 0..Len(r)
    BY <1>1, <1>2
  <2>2. SubSeq(r, Len(r) - max + 1, Len(r)) \in Seq(S)
    BY <1>1, <2>1, PartOfSeq
  <2>3. QED BY <1>2, <2>2 DEF TrimPush, r
<1>3. CASE ~(Len(r) > max)
  BY <1>1, <1>3 DEF TrimPush, r
<1>4. QED BY <1>2, <1>3

\* Lists of members of a set are lists of members of a larger one.
LEMMA SeqsGrow ==
    ASSUME NEW A, NEW S, NEW T, S \subseteq T, NEW q \in [A -> Seq(S)]
    PROVE  q \in [A -> Seq(T)]
<1>1. \A a \in A : q[a] \in Seq(T)
  BY SeqMonotonic
<1>2. QED BY <1>1

-----------------------------------------------------------------------------
(* Bounded buffers.                                                        *)

\* What of the first n entries of a list a buffer holds.
Newest(log, n, max) == SubSeq(log, IF n > max THEN n - max + 1 ELSE 1, n)

\* As many as it may, and in their order.
LEMMA NewestProperties ==
    ASSUME NEW S, NEW log \in Seq(S), NEW n \in 0..Len(log), NEW max \in Nat \ {0}
    PROVE  LET gone == IF n > max THEN n - max ELSE 0 IN
           /\ Newest(log, n, max) \in Seq(S)
           /\ Len(Newest(log, n, max)) = n - gone
           /\ \A j \in 1..(n - gone) : Newest(log, n, max)[j] = log[gone + j]
<1>1. Len(log) \in Nat
  BY LenProperties
<1>2. PICK m : m = (IF n > max THEN n - max + 1 ELSE 1)
  OBVIOUS
<1>3. m \in 1..(Len(log) + 1) /\ n \in 0..Len(log) /\ m <= n + 1 /\ m \in Int /\ n \in Int
  BY <1>1, <1>2
<1>4. SubSeq(log, m, n) \in Seq(S)
  BY <1>3, PartOfSeq
<1>5. \A i \in m..n : log[i] \in S
  BY <1>1, <1>3, ElementOfSeq
<1>6. /\ Len(SubSeq(log, m, n)) = n - m + 1
      /\ \A i \in 1..(n - m + 1) : SubSeq(log, m, n)[i] = log[m + i - 1]
  BY <1>3, <1>5, SubSeqProperties
<1>7. Newest(log, n, max) = SubSeq(log, m, n)
  BY <1>2 DEF Newest
<1>8. QED BY <1>1, <1>2, <1>3, <1>4, <1>6, <1>7

\* A list that is trimmed goes from the newest to the newest.
LEMMA TrimPushIsNewest ==
    ASSUME NEW S, NEW log \in Seq(S), NEW n \in 1..Len(log), NEW max \in Nat \ {0}
    PROVE  TrimPush(Newest(log, n - 1, max), log[n], max) = Newest(log, n, max)
<1>1. Len(log) \in Nat /\ n \in 0..Len(log) /\ n - 1 \in 0..Len(log) /\ log[n] \in S
  BY LenProperties, ElementOfSeq
<1>2. PICK old, new : old = Newest(log, n - 1, max) /\ new = Newest(log, n, max)
  OBVIOUS
<1>3. PICK g, h : g = (IF n - 1 > max THEN n - 1 - max ELSE 0) /\ h = (IF n > max THEN n - max ELSE 0)
  OBVIOUS
<1>4. /\ old \in Seq(S) /\ Len(old) = n - 1 - g
      /\ \A j \in 1..(n - 1 - g) : old[j] = log[g + j]
  BY <1>1, <1>2, <1>3, NewestProperties
<1>5. /\ new \in Seq(S) /\ Len(new) = n - h
      /\ \A j \in 1..(n - h) : new[j] = log[h + j]
  BY <1>1, <1>2, <1>3, NewestProperties
<1>6. PICK long : long = Append(old, log[n])
  OBVIOUS
<1>7. /\ long \in Seq(S) /\ Len(long) = n - g
      /\ \A j \in 1..(n - 1 - g) : long[j] = old[j]
      /\ long[n - g] = log[n]
  <2>1. n - 1 - g \in Nat /\ n - 1 - g + 1 = n - g
    BY <1>1, <1>3
  <2>2. QED BY <1>1, <1>4, <1>6, <2>1, AppendProperties
<1>8. \A j \in 1..(n - g) : long[j] = log[g + j]
  <2>1. g \in Nat /\ n \in Nat /\ g <= n
    BY <1>1, <1>3
  <2>2. \A j \in 1..(n - g) : j \in 1..(n - 1 - g) \/ (j = n - g /\ g + j = n)
    BY <2>1
  <2>3. QED BY <1>4, <1>7, <2>2
<1>9. CASE n > max
  <2>1. n - g > max => n - g - max + 1 = h - g + 1 /\ h - g = 1
    BY <1>1, <1>3, <1>9
  <2>2. CASE n - g > max
    <3>1. PICK r : r = SubSeq(long, h - g + 1, n - g)
      OBVIOUS
    <3>2. h - g + 1 \in Int /\ n - g \in Int /\ h - g + 1 <= n - g + 1 /\ h - g + 1 \in 1..(n - g + 1)
      BY <1>1, <1>3, <1>9, <2>1, <2>2
    <3>3. \A i \in (h - g + 1)..(n - g) : long[i] \in S
      BY <1>7, <3>2, ElementOfSeq
    <3>4. /\ r \in Seq(S) /\ Len(r) = n - h
          /\ \A i \in 1..(n - h) : r[i] = long[h - g + i]
      <4>1. /\ r \in Seq(S) /\ Len(r) = (n - g) - (h - g + 1) + 1
            /\ \A i \in 1..((n - g) - (h - g + 1) + 1) : r[i] = long[(h - g + 1) + i - 1]
        BY <3>1, <3>2, <3>3, SubSeqProperties
      <4>2. /\ (n - g) - (h - g + 1) + 1 = n - h
            /\ \A i \in 1..(n - h) : (h - g + 1) + i - 1 = h - g + i
        BY <1>1, <1>3, <1>9
      <4>3. QED BY <4>1, <4>2
    <3>5. \A i \in 1..(n - h) : h - g + i \in 1..(n - g) /\ g + (h - g + i) = h + i
      BY <1>1, <1>3, <1>9, <2>1, <2>2
    <3>6. \A i \in 1..(n - h) : r[i] = new[i]
      BY <1>5, <1>8, <3>4, <3>5
    <3>7. r = new
      BY <1>5, <3>4, <3>6, SeqEqual
    <3>8. QED BY <1>2, <1>6, <1>7, <2>1, <2>2, <3>1, <3>7 DEF TrimPush
  <2>3. CASE ~(n - g > max)
    <3>1. h = g
      BY <1>1, <1>3, <1>9, <2>3
    <3>2. long = new
      BY <1>5, <1>7, <1>8, <3>1, SeqEqual
    <3>3. QED BY <1>2, <1>6, <1>7, <2>3, <3>2 DEF TrimPush
  <2>4. QED BY <2>2, <2>3
<1>10. CASE ~(n > max)
  <2>1. h = 0 /\ g = 0 /\ ~(n - g > max)
    BY <1>1, <1>3, <1>10
  <2>2. long = new
    BY <1>5, <1>7, <1>8, <2>1, SeqEqual
  <2>3. QED BY <1>2, <1>6, <1>7, <2>1, <2>2 DEF TrimPush
<1>11. QED BY <1>9, <1>10

\* So does a deque.
LEMMA DequePushIsNewest ==
    ASSUME NEW S, NEW log \in Seq(S), NEW n \in 1..Len(log), NEW max \in Nat \ {0}
    PROVE  DequePush(Newest(log, n - 1, max), log[n], max) = Newest(log, n, max)
<1>1. Len(log) \in Nat /\ n \in 0..Len(log) /\ n - 1 \in 0..Len(log) /\ log[n] \in S
  BY LenProperties, ElementOfSeq
<1>2. PICK old, new : old = Newest(log, n - 1, max) /\ new = Newest(log, n, max)
  OBVIOUS
<1>3. PICK g, h : g = (IF n - 1 > max THEN n - 1 - max ELSE 0) /\ h = (IF n > max THEN n - max ELSE 0)
  OBVIOUS
<1>4. /\ old \in Seq(S) /\ Len(old) = n - 1 - g
      /\ \A j \in 1..(n - 1 - g) : old[j] = log[g + j]
  BY <1>1, <1>2, <1>3, NewestProperties
<1>5. /\ new \in Seq(S) /\ Len(new) = n - h
      /\ \A j \in 1..(n - h) : new[j] = log[h + j]
  BY <1>1, <1>2, <1>3, NewestProperties
<1>6. g \in Nat /\ h \in Nat /\ n \in Nat /\ g < n /\ h < n
  BY <1>1, <1>3
<1>7. CASE n - 1 - g = max
  <2>1. h = g + 1
    BY <1>1, <1>3, <1>7
  <2>2. old # <<>>
    BY <1>4, <1>6, <1>7, EmptySeq
  <2>3. PICK rest : rest = Tail(old)
    OBVIOUS
  <2>4. /\ rest \in Seq(S) /\ Len(rest) = n - 1 - h
        /\ \A j \in 1..(n - 1 - h) : rest[j] = old[j + 1]
    <3>1. /\ rest \in Seq(S) /\ Len(rest) = Len(old) - 1
          /\ \A j \in 1..Len(rest) : rest[j] = old[j + 1]
      BY <1>4, <2>2, <2>3, HeadTailProperties
    <3>2. QED BY <1>4, <1>6, <2>1, <3>1
  <2>5. PICK long : long = Append(rest, log[n])
    OBVIOUS
  <2>6. /\ long \in Seq(S) /\ Len(long) = n - h
        /\ \A j \in 1..(n - 1 - h) : long[j] = rest[j]
        /\ long[n - h] = log[n]
    <3>1. n - 1 - h + 1 = n - h
      BY <1>6
    <3>2. QED BY <1>1, <2>4, <2>5, <3>1, AppendProperties
  <2>7. \A j \in 1..(n - 1 - h) : j + 1 \in 1..(n - 1 - g) /\ g + (j + 1) = h + j
    BY <1>6, <2>1
  <2>8. \A j \in 1..(n - h) : j \in 1..(n - 1 - h) \/ (j = n - h /\ h + j = n)
    BY <1>6
  <2>9. \A j \in 1..(n - h) : long[j] = new[j]
    BY <1>4, <1>5, <2>4, <2>6, <2>7, <2>8
  <2>10. long = new
    BY <1>5, <2>6, <2>9, SeqEqual
  <2>11. QED BY <1>2, <1>4, <1>7, <2>3, <2>5, <2>10 DEF DequePush
<1>8. CASE n - 1 - g # max
  <2>1. h = g
    BY <1>1, <1>3, <1>8
  <2>2. PICK long : long = Append(old, log[n])
    OBVIOUS
  <2>3. /\ long \in Seq(S) /\ Len(long) = n - h
        /\ \A j \in 1..(n - 1 - h) : long[j] = old[j]
        /\ long[n - h] = log[n]
    <3>1. n - 1 - h + 1 = n - h
      BY <1>6
    <3>2. QED BY <1>1, <1>4, <2>1, <2>2, <3>1, AppendProperties
  <2>4. \A j \in 1..(n - h) : j \in 1..(n - 1 - h) \/ (j = n - h /\ h + j = n)
    BY <1>6
  <2>5. \A j \in 1..(n - h) : long[j] = new[j]
    BY <1>4, <1>5, <2>1, <2>3, <2>4
  <2>6. long = new
    BY <1>5, <2>3, <2>5, SeqEqual
  <2>7. QED BY <1>2, <1>4, <1>8, <2>2, <2>6 DEF DequePush
<1>9. QED BY <1>7, <1>8

\* No entry, nothing held.
LEMMA NewestOfNone ==
    ASSUME NEW S, NEW log \in Seq(S), NEW max \in Nat \ {0}
    PROVE  Newest(log, 0, max) = <<>>
<1>1. 0 \in 0..Len(log) /\ (0 > max) = FALSE
  BY LenProperties
<1>2. Newest(log, 0, max) \in Seq(S) /\ Len(Newest(log, 0, max)) = 0
  BY <1>1, NewestProperties
<1>3. QED BY <1>2, EmptySeq

\* What is fed to a buffer goes through it.
LEMMA TrimmedIsNewest ==
    ASSUME NEW S, NEW log \in Seq(S), NEW max \in Nat \ {0}
    PROVE  Trimmed(log, max) = Newest(log, Len(log), max)
<1> DEFINE Step(g) == [n \in 0..Len(log) |->
                          IF n = 0 THEN <<>> ELSE TrimPush(g[n - 1], log[n], max)]
           held == [n \in 0..Len(log) |-> Newest(log, n, max)]
           buf == CHOOSE g : g = Step(g)
<1>1. Len(log) \in Nat
  BY LenProperties
<1>2. held = Step(held)
  <2>1. ASSUME NEW n \in 0..Len(log), n # 0
        PROVE  held[n] = TrimPush(held[n - 1], log[n], max)
    <3>1. n \in 1..Len(log) /\ n - 1 \in 0..Len(log)
      BY <1>1, <2>1
    <3>2. QED BY <3>1, TrimPushIsNewest
  <2>2. held[0] = <<>>
    BY <1>1, NewestOfNone
  <2>3. QED BY <2>1, <2>2
<1>3. buf = Step(buf)
  <2> HIDE DEF Step
  <2>1. \E g : g = Step(g)
    BY <1>2
  <2>2. QED BY <2>1
<1>4. Trimmed(log, max) = buf[Len(log)]
  BY DEF Trimmed
<1> HIDE DEF buf
<1>5. buf[0] = <<>> /\ \A n \in 1..Len(log) : buf[n] = TrimPush(buf[n - 1], log[n], max)
  <2>1. \A n \in 0..Len(log) : buf[n] = IF n = 0 THEN <<>> ELSE TrimPush(buf[n - 1], log[n], max)
    BY <1>3
  <2>2. QED BY <1>1, <2>1
<1>6. \A n \in 0..Len(log) : buf[n] = Newest(log, n, max)
  <2> DEFINE Wrong == {n \in 0..Len(log) : buf[n] # Newest(log, n, max)}
  <2>1. SUFFICES ASSUME Wrong # {}
                 PROVE  FALSE
    OBVIOUS
  <2>2. Wrong \subseteq Nat
    BY <1>1
  <2>3. PICK n \in Wrong : \A m \in Wrong : n <= m
    BY <2>1, <2>2, MinIsLeast
  <2>4. n \in 0..Len(log) /\ buf[n] # Newest(log, n, max)
    OBVIOUS
  <2>5. n # 0
    BY <1>5, <2>4, NewestOfNone
  <2>6. n \in 1..Len(log) /\ n - 1 \in 0..Len(log) /\ n - 1 \notin Wrong
    BY <1>1, <2>3, <2>4, <2>5
  <2>7. buf[n - 1] = Newest(log, n - 1, max)
    BY <2>6
  <2>8. QED BY <1>5, <2>4, <2>6, <2>7, TrimPushIsNewest
<1>7. QED BY <1>1, <1>4, <1>6

\* And through a deque.
LEMMA DequeuedIsNewest ==
    ASSUME NEW S, NEW log \in Seq(S), NEW max \in Nat \ {0}
    PROVE  Dequeued(log, max) = Newest(log, Len(log), max)
<1> DEFINE Step(g) == [n \in 0..Len(log) |->
                          IF n = 0 THEN <<>> ELSE DequePush(g[n - 1], log[n], max)]
           held == [n \in 0..Len(log) |-> Newest(log, n, max)]
           buf == CHOOSE g : g = Step(g)
<1>1. Len(log) \in Nat
  BY LenProperties
<1>2. held = Step(held)
  <2>1. ASSUME NEW n \in 0..Len(log), n # 0
        PROVE  held[n] = DequePush(held[n - 1], log[n], max)
    <3>1. n \in 1..Len(log) /\ n - 1 \in 0..Len(log)
      BY <1>1, <2>1
    <3>2. QED BY <3>1, DequePushIsNewest
  <2>2. held[0] = <<>>
    BY <1>1, NewestOfNone
  <2>3. QED BY <2>1, <2>2
<1>3. buf = Step(buf)
  <2> HIDE DEF Step
  <2>1. \E g : g = Step(g)
    BY <1>2
  <2>2. QED BY <2>1
<1>4. Dequeued(log, max) = buf[Len(log)]
  BY DEF Dequeued
<1> HIDE DEF buf
<1>5. buf[0] = <<>> /\ \A n \in 1..Len(log) : buf[n] = DequePush(buf[n - 1], log[n], max)
  <2>1. \A n \in 0..Len(log) : buf[n] = IF n = 0 THEN <<>> ELSE DequePush(buf[n - 1], log[n], max)
    BY <1>3
  <2>2. QED BY <1>1, <2>1
<1>6. \A n \in 0..Len(log) : buf[n] = Newest(log, n, max)
  <2> DEFINE Wrong == {n \in 0..Len(log) : buf[n] # Newest(log, n, max)}
  <2>1. SUFFICES ASSUME Wrong # {}
                 PROVE  FALSE
    OBVIOUS
  <2>2. Wrong \subseteq Nat
    BY <1>1
  <2>3. PICK n \in Wrong : \A m \in Wrong : n <= m
    BY <2>1, <2>2, MinIsLeast
  <2>4. n \in 0..Len(log) /\ buf[n] # Newest(log, n, max)
    OBVIOUS
  <2>5. n # 0
    BY <1>5, <2>4, NewestOfNone
  <2>6. n \in 1..Len(log) /\ n - 1 \in 0..Len(log) /\ n - 1 \notin Wrong
    BY <1>1, <2>3, <2>4, <2>5
  <2>7. buf[n - 1] = Newest(log, n - 1, max)
    BY <2>6
  <2>8. QED BY <1>5, <2>4, <2>6, <2>7, DequePushIsNewest
<1>7. QED BY <1>1, <1>4, <1>6

\* A list and its reverse.
LEMMA ReverseProperties ==
    ASSUME NEW S, NEW s \in Seq(S)
    PROVE  /\ Reverse(s) \in Seq(S) /\ Len(Reverse(s)) = Len(s)
           /\ \A i \in 1..Len(s) : Reverse(s)[i] = s[Len(s) - i + 1]
<1>1. Len(s) \in Nat
  BY LenProperties
<1>2. \A i \in 1..Len(s) : (Len(s) - i) + 1 \in 1..Len(s)
  BY <1>1
<1>3. \A i \in 1..Len(s) : s[(Len(s) - i) + 1] \in S
  BY <1>2, ElementOfSeq
<1>4. Reverse(s) \in [1..Len(s) -> S]
  BY <1>3 DEF Reverse
<1>5. QED BY <1>1, <1>4, SeqDef, LenProperties DEF Reverse

\* The two views of a buffer are the same for any limit of 1 or more.
LEMMA ViewsAgree ==
    ASSUME NEW S, NEW b \in Seq(S), NEW limit \in Nat \ {0}
    PROVE  NewestByLimit(b, limit) = ReversedUpTo(b, limit)
<1>1. PICK l : l = Len(b)
  OBVIOUS
<1>2. l \in Nat
  BY <1>1, LenProperties
<1>3. PICK k : k = (IF l > limit THEN limit ELSE l)
  OBVIOUS
<1>4. k \in 0..l /\ k \in Int /\ (IF l > limit THEN l - limit + 1 ELSE 1) = l - k + 1
  BY <1>2, <1>3
<1>5. PICK part, back : part = SubSeq(b, l - k + 1, l) /\ back = Reverse(b)
  OBVIOUS
<1>6. /\ back \in Seq(S) /\ Len(back) = l
      /\ \A i \in 1..l : back[i] = b[l - i + 1]
  BY <1>1, <1>5, ReverseProperties
<1>7. /\ part \in Seq(S) /\ Len(part) = k
      /\ \A i \in 1..k : part[i] = b[l - k + i]
  <2>1. l - k + 1 \in Int /\ l \in Int /\ l - k + 1 <= l + 1 /\ l - (l - k + 1) + 1 = k
    BY <1>2, <1>4
  <2>2. \A i \in (l - k + 1)..l : b[i] \in S
    <3>1. \A i \in (l - k + 1)..l : i \in 1..Len(b)
      BY <1>1, <1>2, <1>4
    <3>2. QED BY <3>1, ElementOfSeq
  <2>3. /\ part \in Seq(S) /\ Len(part) = l - (l - k + 1) + 1
        /\ \A i \in 1..(l - (l - k + 1) + 1) : part[i] = b[(l - k + 1) + i - 1]
    BY <1>5, <2>1, <2>2, SubSeqProperties
  <2>4. \A i \in 1..k : (l - k + 1) + i - 1 = l - k + i
    BY <1>2, <1>4
  <2>5. QED BY <2>1, <2>3, <2>4
<1>8. PICK x, y : x = Reverse(part) /\ y = SubSeq(back, 1, k)
  OBVIOUS
<1>9. /\ x \in Seq(S) /\ Len(x) = k
      /\ \A i \in 1..k : x[i] = part[k - i + 1]
  BY <1>7, <1>8, ReverseProperties
<1>10. /\ y \in Seq(S) /\ Len(y) = k
       /\ \A i \in 1..k : y[i] = back[i]
  <2>1. 1 \in Int /\ k \in Int /\ 1 <= k + 1 /\ k - 1 + 1 = k
    BY <1>2, <1>4
  <2>2. \A i \in 1..k : back[i] \in S
    <3>1. \A i \in 1..k : i \in 1..Len(back)
      BY <1>2, <1>4, <1>6
    <3>2. QED BY <1>6, <3>1, ElementOfSeq
  <2>3. /\ y \in Seq(S) /\ Len(y) = k - 1 + 1
        /\ \A i \in 1..(k - 1 + 1) : y[i] = back[1 + i - 1]
    BY <1>8, <2>1, <2>2, SubSeqProperties
  <2>4. \A i \in 1..k : 1 + i - 1 = i
    OBVIOUS
  <2>5. QED BY <2>1, <2>3, <2>4
<1>11. \A i \in 1..k : x[i] = y[i]
  <2> TAKE i \in 1..k
  <2>1. PICK j : j = k - i + 1
    OBVIOUS
  <2>2. j \in 1..k /\ i \in 1..l /\ l - k + j = l - i + 1
    BY <1>2, <1>4, <2>1
  <2>3. x[i] = b[l - i + 1]
    BY <1>7, <1>9, <2>1, <2>2
  <2>4. y[i] = b[l - i + 1]
    BY <1>6, <1>10, <2>2
  <2>5. QED BY <2>3, <2>4
<1>12. x = y
  BY <1>9, <1>10, <1>11, SeqEqual
<1>13. NewestByLimit(b, limit) = x
  BY <1>1, <1>4, <1>5, <1>8 DEF NewestByLimit
<1>14. ReversedUpTo(b, limit) = y
  BY <1>1, <1>3, <1>5, <1>6, <1>8 DEF ReversedUpTo
<1>15. QED BY <1>12, <1>13, <1>14

\* The four buffers keep the same (quarantine.py, slow_call_queue.py, planner.py,
\* event_listener.py), whatever they are fed and however much they hold.
THEOREM BuffersAgree ==
    ASSUME NEW S, NEW log \in Seq(S)
    PROVE  RingsAgree(log)
<1> SUFFICES ASSUME NEW max \in 1..MaxDeferred
             PROVE  /\ Trimmed(log, max) = Dequeued(log, max)
                    /\ \A limit \in 1..(max + 1) :
                          NewestByLimit(Trimmed(log, max), limit)
                             = ReversedUpTo(Dequeued(log, max), limit)
  BY DEF RingsAgree
<1>1. max \in Nat \ {0} /\ Len(log) \in 0..Len(log)
  BY SlowAssumption, LenProperties
<1>2. PICK b : b = Newest(log, Len(log), max)
  OBVIOUS
<1>3. Trimmed(log, max) = b /\ Dequeued(log, max) = b
  BY <1>1, <1>2, TrimmedIsNewest, DequeuedIsNewest
<1>4. b \in Seq(S)
  BY <1>1, <1>2, NewestProperties
<1>5. \A limit \in 1..(max + 1) : limit \in Nat \ {0}
  BY <1>1
<1>6. \A limit \in 1..(max + 1) : NewestByLimit(b, limit) = ReversedUpTo(b, limit)
  BY <1>4, <1>5, ViewsAgree
<1>7. QED BY <1>3, <1>6

-----------------------------------------------------------------------------
(* The queue of a tenant, as against the log of what it was given.         *)

\* One more is deferred.
LEMMA PushInStep ==
    ASSUME NEW S, NEW log \in Seq(S), NEW queue \in Seq(S), NEW out \in Seq(S),
           NEW c \in S, c \notin Range(log), QueueInStep(log, queue, out)
    PROVE  QueueInStep(Append(log, c), TrimPush(queue, c, MaxDeferred), out)
<1>1. PICK l, q, m : l = Len(log) /\ q = Len(queue) /\ m = MaxDeferred
  OBVIOUS
<1>2. /\ l \in Nat /\ q \in Nat /\ q <= l /\ q <= m /\ m \in Nat \ {0}
      /\ \A i \in 1..l : log[i] # c
  <2>1. l \in Nat /\ q \in Nat /\ m \in Nat \ {0}
    BY <1>1, LenProperties, SlowAssumption
  <2>2. l - q >= 0 /\ q <= m
    BY <1>1 DEF QueueInStep
  <2>3. DOMAIN log = 1..l
    BY <1>1, LenProperties
  <2>4. QED BY <2>1, <2>2, <2>3 DEF Range
<1>3. PICK g : g = l - q
  OBVIOUS
<1>4. /\ IsInjective(log)
      /\ \A j \in 1..q : queue[j] = log[g + j]
      /\ \A i \in 1..g : log[i] \in Range(out) \/ l - i >= m
      /\ \A i \in 1..Len(out) : \E k \in 1..g : out[i] = log[k]
      /\ \A i, j \in 1..Len(out), k, n \in 1..l :
            i < j /\ out[i] = log[k] /\ out[j] = log[n] => k < n
  BY <1>1, <1>3 DEF QueueInStep
<1>5. PICK new, long : new = Append(log, c) /\ long = Append(queue, c)
  OBVIOUS
<1>6. /\ new \in Seq(S) /\ Len(new) = l + 1 /\ IsInjective(new)
      /\ \A i \in 1..l : new[i] = log[i]
      /\ new[l + 1] = c
  BY <1>1, <1>4, <1>5, AppendProperties, AppendNew
<1>7. /\ long \in Seq(S) /\ Len(long) = q + 1
      /\ \A j \in 1..q : long[j] = queue[j]
      /\ long[q + 1] = c
  BY <1>1, <1>5, AppendProperties
<1>8. \A j \in 1..(q + 1) : long[j] = new[g + j]
  <2>1. \A j \in 1..(q + 1) : j \in 1..q \/ (j = q + 1 /\ g + j = l + 1)
    BY <1>2, <1>3
  <2>2. \A j \in 1..q : g + j \in 1..l
    BY <1>2, <1>3
  <2>3. QED BY <1>4, <1>6, <1>7, <2>1, <2>2
<1>9. PICK h : h = (IF q = m THEN g + 1 ELSE g)
  OBVIOUS
<1>10. h \in Nat /\ g \in Nat /\ g <= h /\ h <= l /\ l + 1 - h <= m /\ h <= g + 1
  BY <1>2, <1>3, <1>9
<1>11. PICK kept : kept = TrimPush(queue, c, m)
  OBVIOUS
<1>12. Len(kept) = l + 1 - h /\ \A j \in 1..(l + 1 - h) : kept[j] = new[h + j]
  <2>1. CASE q = m
    <3>1. /\ q + 1 > m /\ (q + 1) - m + 1 = 2 /\ h = g + 1 /\ l + 1 - h = q
      BY <1>2, <1>3, <1>9, <2>1
    <3>2. kept = SubSeq(long, 2, q + 1)
      BY <1>5, <1>7, <1>11, <3>1 DEF TrimPush
    <3>3. \A i \in 2..(q + 1) : long[i] \in S
      <4>1. \A i \in 2..(q + 1) : i \in 1..Len(long)
        BY <1>2, <1>7
      <4>2. QED BY <1>7, <4>1, ElementOfSeq
    <3>4. 2 \in Int /\ q + 1 \in Int /\ 2 <= (q + 1) + 1 /\ (q + 1) - 2 + 1 = q
      BY <1>2, <2>1
    <3>5. /\ Len(kept) = q
          /\ \A j \in 1..q : kept[j] = long[2 + j - 1]
      BY <3>2, <3>3, <3>4, SubSeqProperties
    <3>6. \A j \in 1..q : 2 + j - 1 \in 1..(q + 1) /\ g + (2 + j - 1) = h + j
      BY <1>2, <1>3, <3>1
    <3>7. QED BY <1>8, <3>1, <3>5, <3>6
  <2>2. CASE q # m
    <3>1. ~(q + 1 > m) /\ h = g /\ l + 1 - h = q + 1
      BY <1>2, <1>3, <1>9, <2>2
    <3>2. kept = long
      BY <1>5, <1>7, <1>11, <3>1 DEF TrimPush
    <3>3. QED BY <1>7, <1>8, <3>1, <3>2
  <2>3. QED BY <2>1, <2>2
<1>13. (l + 1) - Len(kept) = h
  BY <1>2, <1>10, <1>12
<1>14. \A i \in 1..h : new[i] \in Range(out) \/ (l + 1) - i >= m
  <2>1. \A i \in 1..h : i \in 1..l /\ (i \in 1..g \/ (i = g + 1 /\ q = m))
    BY <1>2, <1>9, <1>10
  <2>2. ASSUME q = m
        PROVE  (l + 1) - (g + 1) >= m
    BY <1>2, <1>3, <2>2
  <2>3. \A i \in 1..g : l - i >= m => (l + 1) - i >= m
    BY <1>2, <1>10
  <2>4. QED BY <1>4, <1>6, <2>1, <2>2, <2>3
<1>15. \A i \in 1..Len(out) : \E k \in 1..h : out[i] = new[k]
  <2>1. \A k \in 1..g : k \in 1..h /\ k \in 1..l
    BY <1>2, <1>10
  <2>2. QED BY <1>4, <1>6, <2>1
<1>16. \A i, j \in 1..Len(out), k, n \in 1..(l + 1) :
          i < j /\ out[i] = new[k] /\ out[j] = new[n] => k < n
  <2>1. \A i \in 1..Len(out) : out[i] # c
    <3>1. \A k \in 1..g : k \in 1..l
      BY <1>2, <1>10
    <3>2. QED BY <1>2, <1>4, <3>1
  <2>2. ASSUME NEW i \in 1..Len(out), NEW j \in 1..Len(out), NEW k \in 1..(l + 1),
               NEW n \in 1..(l + 1), i < j, out[i] = new[k], out[j] = new[n]
        PROVE  k < n
    <3>1. k # l + 1 /\ n # l + 1
      BY <1>6, <2>1, <2>2
    <3>2. k \in 1..l /\ n \in 1..l
      <4>1. l \in Nat /\ k \in 1..(l + 1) /\ n \in 1..(l + 1)
        BY <1>2
      <4>2. QED BY <3>1, <4>1
    <3>3. out[i] = log[k] /\ out[j] = log[n]
      BY <1>6, <2>2, <3>2
    <3>4. QED BY <1>4, <2>2, <3>2, <3>3
  <2>3. QED BY <2>2
<1>17. QueueInStep(new, kept, out)
  BY SMTT(30), <1>1, <1>6, <1>10, <1>12, <1>13, <1>14, <1>15, <1>16 DEF QueueInStep
<1>18. QED BY <1>1, <1>5, <1>11, <1>17

\* The oldest are drained.
LEMMA DrainInStep ==
    ASSUME NEW S, NEW log \in Seq(S), NEW queue \in Seq(S), NEW out \in Seq(S),
           NEW limit \in 1..Len(queue), QueueInStep(log, queue, out)
    PROVE  QueueInStep(log, SubSeq(queue, limit + 1, Len(queue)), out \o SubSeq(queue, 1, limit))
<1>1. PICK l, q, o : l = Len(log) /\ q = Len(queue) /\ o = Len(out)
  OBVIOUS
<1>2. /\ l \in Nat /\ q \in Nat /\ o \in Nat /\ q <= l /\ q <= MaxDeferred
      /\ limit \in 1..q /\ MaxDeferred \in Nat
  <2>1. l \in Nat /\ q \in Nat /\ o \in Nat /\ MaxDeferred \in Nat
    BY <1>1, LenProperties, SlowAssumption
  <2>2. l - q >= 0 /\ q <= MaxDeferred
    BY <1>1 DEF QueueInStep
  <2>3. QED BY <1>1, <2>1, <2>2
<1>3. PICK g : g = l - q
  OBVIOUS
<1>4. /\ IsInjective(log)
      /\ \A j \in 1..q : queue[j] = log[g + j]
      /\ \A i \in 1..g : log[i] \in Range(out) \/ l - i >= MaxDeferred
      /\ \A i \in 1..o : \E k \in 1..g : out[i] = log[k]
      /\ \A i, j \in 1..o, k, n \in 1..l :
            i < j /\ out[i] = log[k] /\ out[j] = log[n] => k < n
  BY <1>1, <1>3 DEF QueueInStep
<1>5. PICK part, rest, all :
         part = SubSeq(queue, 1, limit) /\ rest = SubSeq(queue, limit + 1, q) /\ all = out \o part
  OBVIOUS
<1>6. \A i \in 1..q : queue[i] \in S
  BY <1>1, ElementOfSeq
<1>7. /\ part \in Seq(S) /\ Len(part) = limit
      /\ \A j \in 1..limit : part[j] = queue[j]
  <2>1. 1 \in Int /\ limit \in Int /\ 1 <= limit + 1 /\ limit - 1 + 1 = limit
    BY <1>2
  <2>2. \A i \in 1..limit : queue[i] \in S
    BY <1>2, <1>6
  <2>3. /\ part \in Seq(S) /\ Len(part) = limit - 1 + 1
        /\ \A i \in 1..(limit - 1 + 1) : part[i] = queue[1 + i - 1]
    BY <1>5, <2>1, <2>2, SubSeqProperties
  <2>4. \A i \in 1..limit : 1 + i - 1 = i
    BY <1>2
  <2>5. QED BY <2>1, <2>3, <2>4
<1>8. /\ rest \in Seq(S) /\ Len(rest) = q - limit
      /\ \A j \in 1..(q - limit) : rest[j] = queue[limit + j]
  <2>1. limit + 1 \in Int /\ q \in Int /\ limit + 1 <= q + 1 /\ q - (limit + 1) + 1 = q - limit
    BY <1>2
  <2>2. \A i \in (limit + 1)..q : queue[i] \in S
    BY <1>2, <1>6
  <2>3. /\ rest \in Seq(S) /\ Len(rest) = q - (limit + 1) + 1
        /\ \A i \in 1..(q - (limit + 1) + 1) : rest[i] = queue[(limit + 1) + i - 1]
    BY <1>5, <2>1, <2>2, SubSeqProperties
  <2>4. \A i \in 1..(q - limit) : (limit + 1) + i - 1 = limit + i
    BY <1>2
  <2>5. QED BY <2>1, <2>3, <2>4
<1>9. /\ all \in Seq(S) /\ Len(all) = o + limit
      /\ \A i \in 1..o : all[i] = out[i]
      /\ \A i \in (o + 1)..(o + limit) : all[i] = log[g + (i - o)]
  <2>1. /\ all \in Seq(S) /\ Len(all) = o + limit
        /\ \A i \in 1..(o + limit) : all[i] = IF i <= o THEN out[i] ELSE part[i - o]
    <3>1. /\ all \in Seq(S) /\ Len(all) = Len(out) + Len(part)
          /\ \A i \in 1..(Len(out) + Len(part)) :
                all[i] = IF i <= Len(out) THEN out[i] ELSE part[i - Len(out)]
      BY <1>5, <1>7, ConcatProperties
    <3>2. QED BY <1>1, <1>7, <3>1
  <2>2. \A i \in 1..o : i \in 1..(o + limit) /\ i <= o
    BY <1>2
  <2>3. \A i \in (o + 1)..(o + limit) :
           i \in 1..(o + limit) /\ ~(i <= o) /\ i - o \in 1..limit /\ i - o \in 1..q
    BY <1>2
  <2>4. QED BY <1>4, <1>7, <2>1, <2>2, <2>3
<1>10. PICK h : h = g + limit
  OBVIOUS
<1>11. h \in Nat /\ g \in Nat /\ h <= l /\ l - Len(rest) = h /\ limit \in Nat
  BY <1>2, <1>3, <1>8, <1>10
<1>12. \A j \in 1..Len(rest) : rest[j] = log[h + j]
  <2>1. \A j \in 1..(q - limit) : limit + j \in 1..q /\ g + (limit + j) = h + j
    BY <1>2, <1>10, <1>11
  <2>2. QED BY <1>4, <1>8, <2>1
<1>13. \A i \in 1..o : all[i] \in Range(all) /\ out[i] = all[i]
  <2>1. DOMAIN all = 1..(o + limit)
    BY <1>9, LenProperties
  <2>2. \A i \in 1..o : i \in 1..(o + limit)
    BY <1>2
  <2>3. QED BY <1>9, <2>1, <2>2 DEF Range
<1>14. Range(out) \subseteq Range(all)
  <2>1. DOMAIN out = 1..o
    BY <1>1, LenProperties
  <2>2. QED BY <1>13, <2>1 DEF Range
<1>15. \A i \in 1..h : log[i] \in Range(all) \/ l - i >= MaxDeferred
  <2>1. ASSUME NEW i \in 1..h, i \notin 1..g
        PROVE  log[i] \in Range(all)
    <3>1. PICK n : n = o + (i - g)
      OBVIOUS
    <3>2. n \in (o + 1)..(o + limit) /\ n \in 1..(o + limit) /\ g + (n - o) = i
      BY <1>2, <1>10, <1>11, <2>1, <3>1
    <3>3. all[n] = log[i]
      BY <1>9, <3>2
    <3>4. n \in DOMAIN all
      BY <1>9, <3>2, LenProperties
    <3>5. QED BY <3>3, <3>4 DEF Range
  <2>2. QED BY <1>4, <1>14, <2>1
<1>16. \A i \in 1..(o + limit) : i \in 1..o \/ i \in (o + 1)..(o + limit)
  BY <1>2
<1>17. \A i \in (o + 1)..(o + limit) : g + (i - o) \in 1..h /\ g + (i - o) \in 1..l
  BY <1>2, <1>10, <1>11
<1>18. \A i \in 1..(o + limit) : \E k \in 1..h : all[i] = log[k]
  <2>1. \A k \in 1..g : k \in 1..h
    BY <1>10, <1>11
  <2>2. QED BY <1>4, <1>9, <1>16, <1>17, <2>1
<1>19. \A a, b \in 1..l : log[a] = log[b] => a = b
  <2>1. DOMAIN log = 1..l
    BY <1>1, LenProperties
  <2>2. QED BY <1>4, <2>1 DEF IsInjective
<1>20. ASSUME NEW i \in 1..(o + limit), NEW j \in 1..(o + limit), NEW k \in 1..l, NEW n \in 1..l,
              i < j, all[i] = log[k], all[j] = log[n]
       PROVE  k < n
  <2>1. CASE j \in 1..o
    <3>1. i \in 1..o
      BY <1>2, <1>20, <2>1
    <3>2. out[i] = log[k] /\ out[j] = log[n]
      BY <1>9, <1>20, <2>1, <3>1
    <3>3. QED BY <1>4, <1>20, <2>1, <3>1, <3>2
  <2>2. CASE j \in (o + 1)..(o + limit)
    <3>1. n = g + (j - o)
      BY <1>9, <1>17, <1>19, <1>20, <2>2
    <3>2. CASE i \in 1..o
      <4>1. PICK a \in 1..g : out[i] = log[a]
        BY <1>4, <3>2
      <4>2. a \in 1..l
        BY <1>2, <1>3
      <4>3. a = k
        BY <1>9, <1>19, <1>20, <3>2, <4>1, <4>2
      <4>4. QED BY <1>2, <1>11, <2>2, <3>1, <4>1, <4>3
    <3>3. CASE i \in (o + 1)..(o + limit)
      <4>1. k = g + (i - o)
        BY <1>9, <1>17, <1>19, <1>20, <3>3
      <4>2. QED BY <1>2, <1>11, <1>20, <2>2, <3>1, <3>3, <4>1
    <3>4. QED BY <1>16, <3>2, <3>3
  <2>3. QED BY <1>16, <2>1, <2>2
<1>21. q - limit <= MaxDeferred
  BY <1>2
<1>22. QueueInStep(log, rest, all)
  <2>1. Len(log) - Len(rest) = h /\ h >= 0 /\ Len(rest) <= MaxDeferred
    BY <1>1, <1>8, <1>11, <1>21
  <2>2. \A i \in 1..h : log[i] \in Range(all) \/ Len(log) - i >= MaxDeferred
    BY <1>1, <1>15
  <2>3. \A i \in 1..Len(all) : \E k \in 1..h : all[i] = log[k]
    BY <1>9, <1>18
  <2>4. \A i, j \in 1..Len(all), k, n \in 1..Len(log) :
           i < j /\ all[i] = log[k] /\ all[j] = log[n] => k < n
    BY <1>1, <1>9, <1>20
  <2>5. QED BY <1>4, <1>12, <2>1, <2>2, <2>3, <2>4 DEF QueueInStep
<1>23. QED BY <1>1, <1>5, <1>22

-----------------------------------------------------------------------------
(* The invariant.                                                          *)

\* Before the first call the invariant holds.
LEMMA CallsInvInit == SlowInit => CallsInv
<1> SUFFICES ASSUME SlowInit
             PROVE  CallsInv
  OBVIOUS
<1>1. \A S : <<>> \in Seq(S)
  BY EmptySeq
<1>2. Range(<<>>) = {} /\ IsInjective(<<>>)
  BY EmptyRange DEF IsInjective
<1>3. SlowTypeOK
  BY <1>1 DEF SlowInit, SlowTypeOK, Futures, Callers, Reasons
<1>4. BacklogWaits
  BY <1>2 DEF SlowInit, BacklogWaits
<1>5. \A c \in Calls : CallerHasReason(c)
  BY DEF SlowInit, CallerHasReason
<1>6. QueueOfFallen
  BY <1>1 DEF SlowInit, QueueOfFallen
<1>7. RetriesOfFallen
  BY DEF SlowInit, RetriesOfFallen, Calls, NoCall
<1>8. QED BY <1>3, <1>4, <1>5, <1>6, <1>7 DEF CallsInv

\* The queue is left alone, and those that took the fallback have taken it.
LEMMA QueueUntouched ==
    ASSUME CallsInv, UNCHANGED deferVars, Fallen \subseteq Fallen'
    PROVE  /\ QueueOfFallen'
           /\ deferred' \in [CallTenants -> Seq(Calls)]
           /\ deferLog' \in [CallTenants -> Seq(Calls)]
           /\ drained' \in [CallTenants -> Seq(Calls)]
<1>1. /\ deferred' \in [CallTenants -> Seq(Fallen')]
      /\ deferLog' \in [CallTenants -> Seq(Fallen')]
      /\ drained' \in [CallTenants -> Seq(Fallen')]
  BY SeqsGrow DEF CallsInv, QueueOfFallen, deferVars
<1>2. QED BY <1>1 DEF CallsInv, SlowTypeOK, QueueOfFallen, deferVars

\* A step of the call c's own request, which moves it from one place to another.
LEMMA RequestMoves ==
    ASSUME CallsInv, NEW c \in Calls, NEW from \in Callers, NEW to \in Callers,
           CallerGoes(c, from, to), from # "fallback", UNCHANGED retryOf
    PROVE  /\ caller' \in [Calls -> Callers]
           /\ caller[c] = from /\ caller'[c] = to
           /\ \A d \in Calls : d # c => caller'[d] = caller[d]
           /\ Fallen \subseteq Fallen'
           /\ RetriesOfFallen'
<1>1. caller \in [Calls -> Callers] /\ RetriesOfFallen
  BY DEF CallsInv, SlowTypeOK
<1>2. /\ caller' \in [Calls -> Callers]
      /\ caller[c] = from /\ caller'[c] = to
      /\ \A d \in Calls : d # c => caller'[d] = caller[d]
  BY <1>1 DEF CallerGoes
<1>3. Fallen \subseteq Fallen'
  BY <1>2 DEF Fallen
<1>4. QED BY <1>1, <1>2, <1>3 DEF RetriesOfFallen

-----------------------------------------------------------------------------
(* Each action keeps it.                                                   *)

\* A call handed to the pool.
LEMMA SubmitKeeps ==
    ASSUME CallsInv, NEW c \in Calls, NEW t \in CallTenants, NEW old \in Calls \cup {NoCall},
           old \in Calls => old \in Fallen, Submit(c, t, old)
    PROVE  CallsInv'
<1>1. /\ caller \in [Calls -> Callers] /\ future \in [Calls -> Futures]
      /\ backlog \in Seq(Calls) /\ IsInjective(backlog)
      /\ caller[c] = "none" /\ future[c] = "none" /\ reason[c] = "none"
  <2>1. caller[c] = "none" /\ CallerHasReason(c)
    BY DEF CallsInv, Submit, CallerGoes
  <2>2. QED BY <2>1 DEF CallsInv, SlowTypeOK, BacklogWaits, CallerHasReason
<1>2. /\ caller' = [caller EXCEPT ![c] = "waiting"]
      /\ future' = [future EXCEPT ![c] = "pending"]
      /\ backlog' = Append(backlog, c)
      /\ tenant' = [tenant EXCEPT ![c] = t]
      /\ retryOf' = [retryOf EXCEPT ![c] = old]
      /\ UNCHANGED <<reason, deferVars>>
  BY DEF Submit, CallerGoes
<1>3. c \notin Range(backlog)
  BY <1>1 DEF CallsInv, BacklogWaits
<1>4. /\ backlog' \in Seq(Calls) /\ IsInjective(backlog')
      /\ Range(backlog') = Range(backlog) \cup {c}
  BY <1>1, <1>2, <1>3, AppendNew
<1>5. Fallen \subseteq Fallen'
  BY <1>1, <1>2 DEF Fallen
<1>6. /\ QueueOfFallen'
      /\ deferred' \in [CallTenants -> Seq(Calls)] /\ deferLog' \in [CallTenants -> Seq(Calls)]
      /\ drained' \in [CallTenants -> Seq(Calls)]
  BY <1>2, <1>5, QueueUntouched
<1>7. SlowTypeOK'
  BY <1>1, <1>2, <1>4, <1>6 DEF CallsInv, SlowTypeOK, Futures, Callers
<1>8. BacklogWaits'
  BY <1>1, <1>2, <1>4 DEF CallsInv, BacklogWaits
<1>9. ASSUME NEW d \in Calls
      PROVE  CallerHasReason(d)'
  BY <1>1, <1>2 DEF CallsInv, CallerHasReason
<1>10. RetriesOfFallen'
  BY <1>2, <1>5 DEF CallsInv, SlowTypeOK, RetriesOfFallen
<1>11. QED BY <1>6, <1>7, <1>8, <1>9, <1>10 DEF CallsInv

\* A deferred call handed to it again.
LEMMA RetryKeeps ==
    ASSUME CallsInv, NEW c \in Calls, NEW old \in Calls, Retry(c, old)
    PROVE  CallsInv'
<1>1. /\ tenant[old] \in CallTenants /\ old \in Range(drained[tenant[old]])
      /\ Submit(c, tenant[old], old)
  BY DEF Retry
<1>2. drained[tenant[old]] \in Seq(Fallen)
  BY <1>1 DEF CallsInv, QueueOfFallen
<1>3. old \in Fallen
  BY <1>1, <1>2, RangeOfSeq
<1>4. QED BY <1>1, <1>3, SubmitKeeps

\* A worker that begins one.
LEMMA BeginKeeps ==
    ASSUME CallsInv, NEW c \in Calls, Begin(c)
    PROVE  CallsInv'
<1>1. /\ future \in [Calls -> Futures]
      /\ backlog \in Seq(Calls) /\ IsInjective(backlog)
      /\ backlog # <<>> /\ c = Head(backlog)
      /\ \A d \in Range(backlog) : future[d] \in {"pending", "cancelled"}
  BY DEF CallsInv, SlowTypeOK, BacklogWaits, Begin
<1>2. /\ backlog' = Tail(backlog)
      /\ future' = [future EXCEPT ![c] = IF @ = "cancelled" THEN @ ELSE "running"]
      /\ UNCHANGED <<caller, reason, callVars, deferVars>>
  BY DEF Begin
<1>3. /\ backlog' \in Seq(Calls) /\ IsInjective(backlog')
      /\ Range(backlog') = Range(backlog) \ {c}
  BY <1>1, <1>2, TailOfInjective
<1>4. future[c] \in {"pending", "cancelled"}
  BY <1>1, HeadTailRange
<1>5. /\ future' \in [Calls -> Futures]
      /\ future[c] = "cancelled" => future'[c] = "cancelled"
      /\ future[c] = "pending" => future'[c] = "running"
      /\ \A d \in Calls : d # c => future'[d] = future[d]
  BY <1>1, <1>2, <1>4 DEF Futures
<1>6. UNCHANGED <<caller, reason, tenant, retryOf, deferred, deferLog, drained>>
  BY <1>2 DEF callVars, deferVars
<1>7. SlowTypeOK'
  BY <1>3, <1>4, <1>5, <1>6 DEF CallsInv, SlowTypeOK
<1>8. BacklogWaits'
  <2>1. Range(backlog') \subseteq Calls
    BY <1>3, RangeOfSeq
  <2>2. \A d \in Range(backlog') : future'[d] \in {"pending", "cancelled"}
    BY <1>1, <1>3, <1>5, <2>1
  <2>3. QED BY <1>3, <2>2 DEF BacklogWaits
<1>9. ASSUME NEW d \in Calls
      PROVE  CallerHasReason(d)'
  <2>1. CallerHasReason(d)
    BY DEF CallsInv
  <2>2. CASE d = c
    BY <1>4, <1>5, <1>6, <2>1, <2>2 DEF CallerHasReason
  <2>3. CASE d # c
    BY <1>5, <1>6, <2>1, <2>3 DEF CallerHasReason
  <2>4. QED BY <2>2, <2>3
<1>10. QueueOfFallen' /\ RetriesOfFallen'
  BY <1>6 DEF CallsInv, QueueOfFallen, RetriesOfFallen, Fallen
<1>11. QED BY <1>7, <1>8, <1>9, <1>10 DEF CallsInv

\* A worker that ends one.
LEMMA EndKeeps ==
    ASSUME CallsInv, NEW c \in Calls, End(c)
    PROVE  CallsInv'
<1>1. PICK how \in Ended : future' = [future EXCEPT ![c] = how]
  BY DEF End
<1>2. /\ future \in [Calls -> Futures] /\ future[c] = "running"
      /\ UNCHANGED <<backlog, caller, reason, tenant, retryOf, deferred, deferLog, drained>>
  BY DEF CallsInv, SlowTypeOK, End, callVars, deferVars
<1>3. /\ future' \in [Calls -> Futures] /\ future'[c] \in Ended
      /\ \A d \in Calls : d # c => future'[d] = future[d]
  BY <1>1, <1>2 DEF Futures
<1>4. SlowTypeOK'
  BY <1>2, <1>3 DEF CallsInv, SlowTypeOK, Ended
<1>5. BacklogWaits'
  <2>1. Range(backlog) \subseteq Calls
    BY RangeOfSeq DEF CallsInv, SlowTypeOK
  <2>2. QED BY <1>2, <1>3, <2>1 DEF CallsInv, BacklogWaits
<1>6. ASSUME NEW d \in Calls
      PROVE  CallerHasReason(d)'
  BY <1>2, <1>3 DEF CallsInv, CallerHasReason, Ended
<1>7. QueueOfFallen' /\ RetriesOfFallen'
  BY <1>2 DEF CallsInv, QueueOfFallen, RetriesOfFallen, Fallen
<1>8. QED BY <1>4, <1>5, <1>6, <1>7 DEF CallsInv

\* Answer, Reraise and TimeOut: the request learns what became of its call.
LEMMA LearningKeeps ==
    ASSUME CallsInv, NEW c \in Calls, Answer(c) \/ Reraise(c) \/ TimeOut(c)
    PROVE  CallsInv'
<1>1. PICK to \in {"value", "degraded", "late"} : CallerGoes(c, "waiting", to)
  BY DEF Answer, Reraise, TimeOut
<1>2. UNCHANGED <<future, backlog, tenant, retryOf, deferVars>>
  BY DEF Answer, Reraise, TimeOut, callVars
<1>3. /\ caller' \in [Calls -> Callers]
      /\ caller[c] = "waiting" /\ caller'[c] = to
      /\ \A d \in Calls : d # c => caller'[d] = caller[d]
      /\ Fallen \subseteq Fallen'
      /\ RetriesOfFallen'
  <2>1. "waiting" \in Callers /\ to \in Callers
    BY DEF Callers
  <2>2. QED BY <1>1, <1>2, <2>1, RequestMoves
<1>4. /\ QueueOfFallen'
      /\ deferred' \in [CallTenants -> Seq(Calls)] /\ deferLog' \in [CallTenants -> Seq(Calls)]
      /\ drained' \in [CallTenants -> Seq(Calls)]
  BY <1>2, <1>3, QueueUntouched
<1>5. reason[c] = "none" /\ future[c] # "cancelled" /\ reason \in [Calls -> Reasons]
  BY <1>3 DEF CallsInv, SlowTypeOK, CallerHasReason
<1>6. /\ reason' \in [Calls -> Reasons]
      /\ \A d \in Calls : d # c => reason'[d] = reason[d]
      /\ to = "value" => future[c] = "done" /\ reason'[c] = "none"
      /\ to = "degraded" => future[c] = "raised" /\ reason'[c] = "transient_error"
      /\ to = "late" => reason'[c] = "none"
  <2>1. CASE Answer(c)
    BY <1>3, <1>5, <2>1 DEF Answer, CallerGoes, CallsInv, SlowTypeOK
  <2>2. CASE Reraise(c)
    BY <1>3, <1>5, <2>2 DEF Reraise, CallerGoes, CallsInv, SlowTypeOK, Reasons
  <2>3. CASE TimeOut(c)
    BY <1>3, <1>5, <2>3 DEF TimeOut, CallerGoes, CallsInv, SlowTypeOK
  <2>4. QED BY <2>1, <2>2, <2>3
<1>7. SlowTypeOK'
  BY <1>2, <1>3, <1>4, <1>6 DEF CallsInv, SlowTypeOK
<1>8. BacklogWaits'
  BY <1>2 DEF CallsInv, BacklogWaits
<1>9. ASSUME NEW d \in Calls
      PROVE  CallerHasReason(d)'
  <2>1. CallerHasReason(d)
    BY DEF CallsInv
  <2>2. CASE d = c
    BY <1>2, <1>3, <1>5, <1>6, <2>2 DEF CallerHasReason
  <2>3. CASE d # c
    BY <1>2, <1>3, <1>6, <2>1, <2>3 DEF CallerHasReason
  <2>4. QED BY <2>2, <2>3
<1>10. QED BY <1>3, <1>4, <1>7, <1>8, <1>9 DEF CallsInv

\* A late call cancelled.
LEMMA CancelKeeps ==
    ASSUME CallsInv, NEW c \in Calls, Cancel(c)
    PROVE  CallsInv'
<1>1. /\ CallerGoes(c, "late", "degraded")
      /\ future' = [future EXCEPT ![c] = IF @ = "pending" THEN "cancelled" ELSE @]
      /\ reason' = [reason EXCEPT ![c] = "deadline_exceeded"]
      /\ UNCHANGED <<backlog, tenant, retryOf, deferVars>>
  BY DEF Cancel, callVars
<1>2. /\ caller' \in [Calls -> Callers]
      /\ caller[c] = "late" /\ caller'[c] = "degraded"
      /\ \A d \in Calls : d # c => caller'[d] = caller[d]
      /\ Fallen \subseteq Fallen'
      /\ RetriesOfFallen'
  <2>1. "late" \in Callers /\ "degraded" \in Callers
    BY DEF Callers
  <2>2. QED BY <1>1, <2>1, RequestMoves
<1>3. /\ QueueOfFallen'
      /\ deferred' \in [CallTenants -> Seq(Calls)] /\ deferLog' \in [CallTenants -> Seq(Calls)]
      /\ drained' \in [CallTenants -> Seq(Calls)]
  BY <1>1, <1>2, QueueUntouched
<1>4. /\ future' \in [Calls -> Futures] /\ reason' \in [Calls -> Reasons]
      /\ reason'[c] = "deadline_exceeded"
      /\ \A d \in Calls : d # c => future'[d] = future[d] /\ reason'[d] = reason[d]
      /\ \/ future[c] = "pending" /\ future'[c] = "cancelled"
         \/ future'[c] = future[c] /\ future[c] # "pending"
  BY <1>1 DEF CallsInv, SlowTypeOK, Futures, Reasons
<1>5. SlowTypeOK'
  BY <1>1, <1>2, <1>3, <1>4 DEF CallsInv, SlowTypeOK
<1>6. BacklogWaits'
  <2>1. Range(backlog) \subseteq Calls
    BY RangeOfSeq DEF CallsInv, SlowTypeOK
  <2>2. \A d \in Range(backlog) : future'[d] \in {"pending", "cancelled"}
    BY <1>4, <2>1 DEF CallsInv, BacklogWaits
  <2>3. QED BY <1>1, <2>2 DEF CallsInv, BacklogWaits
<1>7. ASSUME NEW d \in Calls
      PROVE  CallerHasReason(d)'
  BY <1>2, <1>4 DEF CallsInv, CallerHasReason
<1>8. QED BY <1>2, <1>3, <1>5, <1>6, <1>7 DEF CallsInv

\* A call that fell put into the queue of slow calls.
LEMMA DeferKeeps ==
    ASSUME CallsInv, NEW c \in Calls, Defer(c)
    PROVE  CallsInv'
<1> DEFINE t == tenant[c]
<1>1. /\ CallerGoes(c, "degraded", "fallback")
      /\ deferred' = [deferred EXCEPT ![t] = TrimPush(@, c, MaxDeferred)]
      /\ deferLog' = [deferLog EXCEPT ![t] = Append(@, c)]
      /\ UNCHANGED <<future, backlog, reason, tenant, retryOf, drained>>
  BY DEF Defer, callVars
<1>2. /\ caller' \in [Calls -> Callers]
      /\ caller[c] = "degraded" /\ caller'[c] = "fallback"
      /\ \A d \in Calls : d # c => caller'[d] = caller[d]
      /\ Fallen \subseteq Fallen'
      /\ RetriesOfFallen'
  <2>1. "degraded" \in Callers /\ "fallback" \in Callers
    BY DEF Callers
  <2>2. QED BY <1>1, <2>1, RequestMoves
<1>3. c \in Fallen'
  BY <1>2 DEF Fallen
<1>4. /\ deferred \in [CallTenants -> Seq(Fallen')]
      /\ deferLog \in [CallTenants -> Seq(Fallen')]
      /\ drained \in [CallTenants -> Seq(Fallen')]
  BY <1>2, SeqsGrow DEF CallsInv, QueueOfFallen
<1>5. ASSUME NEW u \in CallTenants
      PROVE  /\ TrimPush(deferred[u], c, MaxDeferred) \in Seq(Fallen')
             /\ Append(deferLog[u], c) \in Seq(Fallen')
  <2>1. deferred[u] \in Seq(Fallen') /\ deferLog[u] \in Seq(Fallen')
    BY <1>4
  <2>2. MaxDeferred \in Nat
    BY SlowAssumption
  <2>3. QED BY <1>3, <2>1, <2>2, PushOnSeq, AppendProperties
<1>6. QueueOfFallen'
  <2>1. deferred' \in [CallTenants -> Seq(Fallen')]
    BY <1>1, <1>4, <1>5
  <2>2. deferLog' \in [CallTenants -> Seq(Fallen')]
    BY <1>1, <1>4, <1>5
  <2>3. QED BY <1>1, <1>4, <2>1, <2>2 DEF QueueOfFallen
<1>7. Fallen' \subseteq Calls
  BY DEF Fallen
<1>8. /\ deferred' \in [CallTenants -> Seq(Calls)] /\ deferLog' \in [CallTenants -> Seq(Calls)]
      /\ drained' \in [CallTenants -> Seq(Calls)]
  BY <1>6, <1>7, SeqsGrow DEF QueueOfFallen
<1>9. SlowTypeOK'
  BY <1>1, <1>2, <1>8 DEF CallsInv, SlowTypeOK
<1>10. BacklogWaits'
  BY <1>1 DEF CallsInv, BacklogWaits
<1>11. ASSUME NEW d \in Calls
       PROVE  CallerHasReason(d)'
  BY <1>1, <1>2 DEF CallsInv, CallerHasReason
<1>12. QED BY <1>2, <1>6, <1>9, <1>10, <1>11 DEF CallsInv

\* The queue of a tenant given to the reconciler.
LEMMA DrainKeeps ==
    ASSUME CallsInv, NEW t \in CallTenants, Drain(t)
    PROVE  CallsInv'
<1>1. /\ deferred \in [CallTenants -> Seq(Fallen)]
      /\ deferLog \in [CallTenants -> Seq(Fallen)]
      /\ drained \in [CallTenants -> Seq(Fallen)]
  BY DEF CallsInv, QueueOfFallen
<1>2. PICK limit \in 1..Len(deferred[t]) :
         /\ drained' = [drained EXCEPT ![t] = @ \o SubSeq(deferred[t], 1, limit)]
         /\ deferred' = [deferred EXCEPT ![t] = SubSeq(@, limit + 1, Len(@))]
         /\ UNCHANGED <<future, backlog, caller, reason, callVars, deferLog>>
  BY DEF Drain
<1>3. deferred[t] \in Seq(Fallen) /\ drained[t] \in Seq(Fallen) /\ Len(deferred[t]) \in Nat
  BY <1>1, LenProperties
<1>4. /\ SubSeq(deferred[t], 1, limit) \in Seq(Fallen)
      /\ SubSeq(deferred[t], limit + 1, Len(deferred[t])) \in Seq(Fallen)
  <2>1. /\ 1 \in 1..(Len(deferred[t]) + 1) /\ limit \in 0..Len(deferred[t])
        /\ limit + 1 \in 1..(Len(deferred[t]) + 1) /\ Len(deferred[t]) \in 0..Len(deferred[t])
    BY <1>3
  <2>2. QED BY <1>3, <2>1, PartOfSeq
<1>5. drained[t] \o SubSeq(deferred[t], 1, limit) \in Seq(Fallen)
  BY <1>3, <1>4, ConcatProperties
<1>6. UNCHANGED <<future, backlog, caller, reason, tenant, retryOf, deferLog, Fallen>>
  BY <1>2 DEF callVars, Fallen
<1>7. QueueOfFallen'
  BY <1>1, <1>2, <1>4, <1>5, <1>6 DEF QueueOfFallen
<1>8. Fallen \subseteq Calls
  BY DEF Fallen
<1>9. /\ deferred' \in [CallTenants -> Seq(Calls)] /\ deferLog' \in [CallTenants -> Seq(Calls)]
      /\ drained' \in [CallTenants -> Seq(Calls)]
  BY <1>6, <1>7, <1>8, SeqsGrow DEF QueueOfFallen
<1>10. SlowTypeOK' /\ BacklogWaits' /\ RetriesOfFallen'
  BY <1>6, <1>9 DEF CallsInv, SlowTypeOK, BacklogWaits, RetriesOfFallen
<1>11. \A d \in Calls : CallerHasReason(d)'
  BY <1>6 DEF CallsInv, CallerHasReason
<1>12. QED BY <1>7, <1>10, <1>11 DEF CallsInv

\* So every step keeps the invariant.
LEMMA CallsInvStep == CallsInv /\ [SlowNext]_slowVars => CallsInv'
<1> SUFFICES ASSUME CallsInv, [SlowNext]_slowVars
             PROVE  CallsInv'
  OBVIOUS
<1>1. ASSUME NEW c \in Calls, NEW t \in CallTenants, NewCall(c, t)
      PROVE  CallsInv'
  <2>1. NoCall \notin Calls
    BY DEF NoCall, Calls
  <2>2. QED BY <1>1, <2>1, SubmitKeeps DEF NewCall
<1>2. ASSUME NEW c \in Calls, NEW old \in Calls, Retry(c, old)
      PROVE  CallsInv'
  BY <1>2, RetryKeeps
<1>3. ASSUME NEW c \in Calls, Begin(c)
      PROVE  CallsInv'
  BY <1>3, BeginKeeps
<1>4. ASSUME NEW c \in Calls, End(c)
      PROVE  CallsInv'
  BY <1>4, EndKeeps
<1>5. ASSUME NEW c \in Calls, Request(c)
      PROVE  CallsInv'
  BY <1>5, LearningKeeps, CancelKeeps, DeferKeeps DEF Request
<1>6. ASSUME NEW t \in CallTenants, Drain(t)
      PROVE  CallsInv'
  BY <1>6, DrainKeeps
<1>7. CASE UNCHANGED slowVars
  BY <1>7 DEF slowVars, CallsInv, SlowTypeOK, BacklogWaits, CallerHasReason, QueueOfFallen,
     RetriesOfFallen, Fallen
<1>8. QED BY <1>1, <1>2, <1>3, <1>4, <1>5, <1>6, <1>7 DEF SlowNext

\* Nothing was deferred before the first call.
LEMMA DeferralsInit == SlowInit => DeferralsInStep
<1> SUFFICES ASSUME SlowInit, NEW t \in CallTenants
             PROVE  /\ Deferred(t) = FallenOf(t)
                    /\ QueueInStep(deferLog[t], deferred[t], drained[t])
  BY DEF DeferralsInStep
<1>1. deferLog[t] = <<>> /\ deferred[t] = <<>> /\ drained[t] = <<>>
  BY DEF SlowInit
<1>2. Range(<<>>) = {} /\ IsInjective(<<>>) /\ Len(<<>>) = 0 /\ 1..0 = {}
  BY EmptyRange DEF IsInjective
<1>3. FallenOf(t) = {}
  BY DEF SlowInit, FallenOf
<1>4. QueueInStep(<<>>, <<>>, <<>>)
  BY <1>2, SlowAssumption DEF QueueInStep
<1>5. QED BY <1>1, <1>2, <1>3, <1>4 DEF Deferred

\* A step that leaves the queue alone and gives no request the fallback.
LEMMA QueueNotMoved ==
    ASSUME DeferralsInStep, UNCHANGED deferVars, \A t \in CallTenants : FallenOf(t)' = FallenOf(t)
    PROVE  DeferralsInStep'
<1>1. UNCHANGED <<deferred, deferLog, drained>>
  BY DEF deferVars
<1>2. DeferralsInStep' <=> \A t \in CallTenants :
         /\ Range(deferLog'[t]) = FallenOf(t)'
         /\ QueueInStep(deferLog'[t], deferred'[t], drained'[t])
  BY DEF DeferralsInStep, Deferred, QueueInStep
<1>3. \A t \in CallTenants :
         /\ Range(deferLog[t]) = FallenOf(t)
         /\ QueueInStep(deferLog[t], deferred[t], drained[t])
  BY DEF DeferralsInStep, Deferred
<1>4. QED BY <1>1, <1>2, <1>3

\* A step of a request that has not got the fallback and does not get it.
LEMMA NoneFalls ==
    ASSUME CallsInv, DeferralsInStep, NEW c \in Calls, NEW from \in Callers, NEW to \in Callers,
           CallerGoes(c, from, to), from # "fallback", to # "fallback",
           \A d \in Calls \ {c} : tenant'[d] = tenant[d], UNCHANGED deferVars
    PROVE  DeferralsInStep'
<1>1. caller \in [Calls -> Callers]
  BY DEF CallsInv, SlowTypeOK
<1>2. /\ caller[c] # "fallback" /\ caller'[c] # "fallback"
      /\ \A d \in Calls \ {c} : caller'[d] = caller[d] /\ tenant'[d] = tenant[d]
  BY <1>1 DEF CallerGoes
<1>3. ASSUME NEW t \in CallTenants
      PROVE  FallenOf(t)' = FallenOf(t)
  <2>1. FallenOf(t)' = {d \in Calls : tenant'[d] = t /\ caller'[d] = "fallback"}
    BY DEF FallenOf
  <2>2. \A d \in Calls : (tenant'[d] = t /\ caller'[d] = "fallback")
                        <=> (tenant[d] = t /\ caller[d] = "fallback")
    BY <1>2
  <2>3. QED BY <2>1, <2>2 DEF FallenOf
<1>4. QED BY <1>3, QueueNotMoved

\* A call that is deferred is the last of its tenant's log, and of no other's.
LEMMA DeferInStep ==
    ASSUME CallsInv, DeferralsInStep, NEW c \in Calls, Defer(c)
    PROVE  DeferralsInStep'
<1>1. PICK u : u = tenant[c]
  OBVIOUS
<1>2. /\ CallerGoes(c, "degraded", "fallback")
      /\ deferred' = [deferred EXCEPT ![u] = TrimPush(@, c, MaxDeferred)]
      /\ deferLog' = [deferLog EXCEPT ![u] = Append(@, c)]
      /\ UNCHANGED <<tenant, drained>>
  BY <1>1 DEF Defer, callVars
<1>3. /\ caller \in [Calls -> Callers]
      /\ deferred \in [CallTenants -> Seq(Calls)] /\ deferLog \in [CallTenants -> Seq(Calls)]
      /\ drained \in [CallTenants -> Seq(Calls)]
  BY DEF CallsInv, SlowTypeOK
<1>4. /\ caller[c] = "degraded" /\ caller'[c] = "fallback"
      /\ \A d \in Calls \ {c} : caller'[d] = caller[d]
  BY <1>2, <1>3 DEF CallerGoes
<1> SUFFICES ASSUME NEW t \in CallTenants
             PROVE  /\ Range(deferLog'[t]) = FallenOf(t)'
                    /\ QueueInStep(deferLog'[t], deferred'[t], drained'[t])
  <2>1. DeferralsInStep' <=> \A t \in CallTenants :
           /\ Range(deferLog'[t]) = FallenOf(t)'
           /\ QueueInStep(deferLog'[t], deferred'[t], drained'[t])
    BY DEF DeferralsInStep, Deferred, QueueInStep
  <2>2. QED BY <2>1
<1>5. /\ Range(deferLog[t]) = FallenOf(t)
      /\ QueueInStep(deferLog[t], deferred[t], drained[t])
  BY DEF DeferralsInStep, Deferred
<1>6. FallenOf(t)' = {d \in Calls : tenant[d] = t /\ caller'[d] = "fallback"}
  BY <1>2 DEF FallenOf
<1>7. CASE t = u
  <2>1. /\ deferLog'[t] = Append(deferLog[t], c) /\ drained'[t] = drained[t]
        /\ deferred'[t] = TrimPush(deferred[t], c, MaxDeferred)
    BY <1>2, <1>3, <1>7
  <2>2. c \notin Range(deferLog[t])
    BY <1>4, <1>5 DEF FallenOf
  <2>3. deferLog[t] \in Seq(Calls) /\ deferred[t] \in Seq(Calls) /\ drained[t] \in Seq(Calls)
    BY <1>3
  <2>4. QueueInStep(deferLog'[t], deferred'[t], drained'[t])
    BY <1>5, <2>1, <2>2, <2>3, PushInStep
  <2>5. IsInjective(deferLog[t])
    BY <1>5 DEF QueueInStep
  <2>6. Range(deferLog'[t]) = Range(deferLog[t]) \cup {c}
    BY <2>1, <2>2, <2>3, <2>5, AppendNew
  <2>7. FallenOf(t)' = FallenOf(t) \cup {c}
    BY <1>1, <1>4, <1>6, <1>7 DEF FallenOf
  <2>8. QED BY <1>5, <2>4, <2>6, <2>7
<1>8. CASE t # u
  <2>1. UNCHANGED <<deferLog[t], deferred[t], drained[t]>>
    BY <1>2, <1>3, <1>8
  <2>2. FallenOf(t)' = FallenOf(t)
    BY <1>1, <1>4, <1>6, <1>8 DEF FallenOf
  <2>3. QED BY <1>5, <2>1, <2>2
<1>9. QED BY <1>7, <1>8

\* What is drained are the oldest of the queue.
LEMMA DrainsInStep ==
    ASSUME CallsInv, DeferralsInStep, NEW u \in CallTenants, Drain(u)
    PROVE  DeferralsInStep'
<1>1. PICK limit \in 1..Len(deferred[u]) :
         /\ drained' = [drained EXCEPT ![u] = @ \o SubSeq(deferred[u], 1, limit)]
         /\ deferred' = [deferred EXCEPT ![u] = SubSeq(@, limit + 1, Len(@))]
         /\ UNCHANGED <<caller, tenant, deferLog>>
  BY DEF Drain, callVars
<1>2. /\ deferred \in [CallTenants -> Seq(Calls)] /\ deferLog \in [CallTenants -> Seq(Calls)]
      /\ drained \in [CallTenants -> Seq(Calls)]
  BY DEF CallsInv, SlowTypeOK
<1> SUFFICES ASSUME NEW t \in CallTenants
             PROVE  /\ Range(deferLog'[t]) = FallenOf(t)'
                    /\ QueueInStep(deferLog'[t], deferred'[t], drained'[t])
  <2>1. DeferralsInStep' <=> \A t \in CallTenants :
           /\ Range(deferLog'[t]) = FallenOf(t)'
           /\ QueueInStep(deferLog'[t], deferred'[t], drained'[t])
    BY DEF DeferralsInStep, Deferred, QueueInStep
  <2>2. QED BY <2>1
<1>3. /\ Range(deferLog[t]) = FallenOf(t)
      /\ QueueInStep(deferLog[t], deferred[t], drained[t])
  BY DEF DeferralsInStep, Deferred
<1>4. FallenOf(t)' = FallenOf(t) /\ deferLog'[t] = deferLog[t]
  BY <1>1 DEF FallenOf
<1>5. CASE t = u
  <2>1. /\ drained'[t] = drained[t] \o SubSeq(deferred[t], 1, limit)
        /\ deferred'[t] = SubSeq(deferred[t], limit + 1, Len(deferred[t]))
        /\ limit \in 1..Len(deferred[t])
    BY <1>1, <1>2, <1>5
  <2>2. deferLog[t] \in Seq(Calls) /\ deferred[t] \in Seq(Calls) /\ drained[t] \in Seq(Calls)
    BY <1>2
  <2>3. QueueInStep(deferLog[t], SubSeq(deferred[t], limit + 1, Len(deferred[t])),
                    drained[t] \o SubSeq(deferred[t], 1, limit))
    BY <1>3, <2>1, <2>2, DrainInStep
  <2>4. QED BY <1>3, <1>4, <2>1, <2>3
<1>6. CASE t # u
  <2>1. UNCHANGED <<deferred[t], drained[t]>>
    BY <1>1, <1>2, <1>6
  <2>2. QED BY <1>3, <1>4, <2>1
<1>7. QED BY <1>5, <1>6

\* So every step keeps the queues in step with their logs.
LEMMA DeferralsStep == CallsInv /\ DeferralsInStep /\ [SlowNext]_slowVars => DeferralsInStep'
<1> SUFFICES ASSUME CallsInv, DeferralsInStep, [SlowNext]_slowVars
             PROVE  DeferralsInStep'
  OBVIOUS
<1>1. ASSUME NEW c \in Calls, NEW t, NEW old, Submit(c, t, old)
      PROVE  DeferralsInStep'
  <2>1. CallerGoes(c, "none", "waiting") /\ UNCHANGED deferVars
    BY <1>1 DEF Submit
  <2>2. \A d \in Calls \ {c} : tenant'[d] = tenant[d]
    BY <1>1 DEF Submit, CallsInv, SlowTypeOK
  <2>3. "none" \in Callers /\ "waiting" \in Callers
    BY DEF Callers
  <2>4. QED BY <2>1, <2>2, <2>3, NoneFalls
<1>2. ASSUME NEW c \in Calls, Answer(c) \/ Reraise(c) \/ TimeOut(c) \/ Cancel(c)
      PROVE  DeferralsInStep'
  <2>1. PICK from \in {"waiting", "late"}, to \in {"value", "degraded", "late"} : CallerGoes(c, from, to)
    BY <1>2 DEF Answer, Reraise, TimeOut, Cancel
  <2>2. UNCHANGED <<tenant, deferVars>>
    BY <1>2 DEF Answer, Reraise, TimeOut, Cancel, callVars
  <2>3. from \in Callers /\ to \in Callers /\ from # "fallback" /\ to # "fallback"
    BY DEF Callers
  <2>4. QED BY <2>1, <2>2, <2>3, NoneFalls
<1>3. ASSUME UNCHANGED <<caller, tenant, deferVars>>
      PROVE  DeferralsInStep'
  <2>1. \A t \in CallTenants : FallenOf(t)' = FallenOf(t)
    BY <1>3 DEF FallenOf
  <2>2. QED BY <1>3, <2>1, QueueNotMoved
<1>4. ASSUME NEW c \in Calls, Begin(c) \/ End(c)
      PROVE  DeferralsInStep'
  BY <1>3, <1>4 DEF Begin, End, callVars
<1>5. ASSUME NEW c \in Calls, Request(c)
      PROVE  DeferralsInStep'
  BY <1>2, <1>5, DeferInStep DEF Request
<1>6. CASE UNCHANGED slowVars
  BY <1>3, <1>6 DEF slowVars, deferVars
<1>7. CASE SlowNext
  BY <1>1, <1>4, <1>5, <1>7, DrainsInStep DEF SlowNext, NewCall, Retry
<1>8. QED BY <1>6, <1>7

\* The types hold, a call that waits in the pool waits once, every caller has the
\* reason of where it is, the reconciler has only calls whose request took the
\* fallback, and a tenant's queue is the end of the log of what it was given.
THEOREM CallsSound == SlowSpec => []SlowInv
<1>1. SlowInit => SlowInv
  BY CallsInvInit, DeferralsInit DEF SlowInv
<1>2. SlowInv /\ [SlowNext]_slowVars => SlowInv'
  BY CallsInvStep, DeferralsStep DEF SlowInv
<1>3. QED BY <1>1, <1>2, PTL DEF SlowSpec

\* A call that ended or was cancelled stays so: none is in a worker's hands again, and
\* one that the backlog still holds is skipped.
LEMMA SettledCallStays ==
    ASSUME CallsInv, SlowNext, NEW d \in Calls, future[d] \in Ended \cup {"cancelled"}
    PROVE  future'[d] = future[d]
<1>1. /\ future \in [Calls -> Futures]
      /\ future[d] \notin {"none", "pending", "running"}
      /\ \A c \in Calls : caller[c] = "none" => future[c] = "none"
      /\ \A c \in Range(backlog) : future[c] \in {"pending", "cancelled"}
  BY DEF CallsInv, SlowTypeOK, CallerHasReason, BacklogWaits, Ended
<1>2. ASSUME NEW c \in Calls, NEW t, NEW old, Submit(c, t, old)
      PROVE  future'[d] = future[d]
  BY <1>1, <1>2 DEF Submit, CallerGoes
<1>3. ASSUME NEW c \in Calls, Begin(c)
      PROVE  future'[d] = future[d]
  <2>1. c \in Range(backlog)
    BY <1>3, HeadTailRange DEF Begin, CallsInv, SlowTypeOK
  <2>2. QED BY <1>1, <1>3, <2>1 DEF Begin
<1>4. ASSUME NEW c \in Calls, End(c) \/ Cancel(c)
      PROVE  future'[d] = future[d]
  BY <1>1, <1>4 DEF End, Cancel
<1>5. ASSUME NEW c \in Calls, Answer(c) \/ Reraise(c) \/ TimeOut(c) \/ Defer(c)
      PROVE  future'[d] = future[d]
  BY <1>5 DEF Answer, Reraise, TimeOut, Defer
<1>6. ASSUME NEW t \in CallTenants, Drain(t)
      PROVE  future'[d] = future[d]
  BY <1>6 DEF Drain
<1>7. QED BY <1>2, <1>3, <1>4, <1>5, <1>6 DEF SlowNext, NewCall, Retry, Request

\* "A call is completed a second time only if its deadline had passed when the first
\* attempt completed": retries are of calls that failed or were late, a call that was
\* cancelled had missed its deadline, and neither it nor one that ended is ever run
\* by the pool again (with_deadline, drain).
THEOREM RetriesAreJustified == SlowSpec => TwiceOnlyIfLate
<1>1. SlowInv => RetriesDue
  <2> SUFFICES ASSUME SlowInv
               PROVE  RetriesDue
    OBVIOUS
  <2>1. ASSUME NEW c \in Calls, retryOf[c] \in Calls
        PROVE  /\ caller[retryOf[c]] = "fallback"
               /\ future[retryOf[c]] = "done" => reason[retryOf[c]] = "deadline_exceeded"
    <3>1. caller[retryOf[c]] = "fallback"
      BY <2>1 DEF SlowInv, CallsInv, RetriesOfFallen, Fallen
    <3>2. CallerHasReason(retryOf[c])
      BY <2>1 DEF SlowInv, CallsInv
    <3>3. QED BY <3>1, <3>2 DEF CallerHasReason
  <2>2. \A c \in Calls : future[c] = "cancelled" => reason[c] = "deadline_exceeded"
    BY DEF SlowInv, CallsInv, CallerHasReason
  <2>3. QED BY <2>1, <2>2 DEF RetriesDue
<1>2. SlowInv /\ [SlowNext]_slowVars => [SettledStays]_slowVars
  BY SettledCallStays DEF SlowInv, SettledStays
<1>3. QED BY <1>1, <1>2, CallsSound, PTL DEF SlowSpec, TwiceOnlyIfLate

\* A queue that is in step is what the call's deferral promised.
LEMMA InStepKeeps ==
    ASSUME NEW S, NEW log \in Seq(S), NEW queue \in Seq(S), NEW out \in Seq(S),
           QueueInStep(log, queue, out)
    PROVE  /\ IsSuffix(queue, log)
           /\ \A i \in DOMAIN log :
                 log[i] \in Range(out) \cup Range(queue) \/ Len(log) - i >= MaxDeferred
<1>1. PICK l, q : l = Len(log) /\ q = Len(queue)
  OBVIOUS
<1>2. l \in Nat /\ q \in Nat /\ q <= l /\ DOMAIN log = 1..l /\ DOMAIN queue = 1..q
  <2>1. l \in Nat /\ q \in Nat /\ DOMAIN log = 1..l /\ DOMAIN queue = 1..q
    BY <1>1, LenProperties
  <2>2. QED BY <1>1, <2>1 DEF QueueInStep
<1>3. /\ \A j \in 1..q : queue[j] = log[(l - q) + j]
      /\ \A i \in 1..(l - q) : log[i] \in Range(out) \/ l - i >= MaxDeferred
  BY <1>1 DEF QueueInStep
<1>4. IsSuffix(queue, log)
  <2>1. PICK x, y : x = Reverse(queue) /\ y = Reverse(log)
    OBVIOUS
  <2>2. /\ x \in Seq(S) /\ Len(x) = q /\ \A i \in 1..q : x[i] = queue[q - i + 1]
        /\ y \in Seq(S) /\ Len(y) = l /\ \A i \in 1..l : y[i] = log[l - i + 1]
    BY <1>1, <2>1, ReverseProperties
  <2>3. \A i \in 1..q : x[i] = y[i]
    <3> TAKE i \in 1..q
    <3>1. PICK j : j = q - i + 1
      OBVIOUS
    <3>2. j \in 1..q /\ i \in 1..l /\ (l - q) + j = l - i + 1
      BY <1>2, <3>1
    <3>3. x[i] = queue[j] /\ y[i] = log[l - i + 1]
      BY <2>2, <3>1, <3>2
    <3>4. queue[j] = log[l - i + 1]
      BY <1>3, <3>2
    <3>5. QED BY <3>3, <3>4
  <2>4. 1 \in Int /\ q \in Int /\ 1 <= q + 1 /\ q - 1 + 1 = q /\ \A i \in 1..q : 1 + i - 1 = i
    BY <1>2
  <2>5. \A i \in 1..q : i \in 1..Len(y) /\ i \in 1..Len(x)
    BY <1>2, <2>2
  <2>6. \A i \in 1..q : x[i] \in S /\ y[i] \in S
    BY <2>2, <2>5, ElementOfSeq
  <2>7. PICK a, b : a = SubSeq(x, 1, q) /\ b = SubSeq(y, 1, q)
    OBVIOUS
  <2>8. a \in Seq(S) /\ Len(a) = q /\ \A i \in 1..q : a[i] = x[i]
    <3>1. /\ a \in Seq(S) /\ Len(a) = q - 1 + 1
          /\ \A i \in 1..(q - 1 + 1) : a[i] = x[1 + i - 1]
      BY <2>4, <2>6, <2>7, SubSeqProperties
    <3>2. QED BY <2>4, <3>1
  <2>9. b \in Seq(S) /\ Len(b) = q /\ \A i \in 1..q : b[i] = y[i]
    <3>1. /\ b \in Seq(S) /\ Len(b) = q - 1 + 1
          /\ \A i \in 1..(q - 1 + 1) : b[i] = y[1 + i - 1]
      BY <2>4, <2>6, <2>7, SubSeqProperties
    <3>2. QED BY <2>4, <3>1
  <2>10. a = b
    BY <2>3, <2>8, <2>9, SeqEqual
  <2>11. QED BY <1>2, <2>1, <2>2, <2>7, <2>10 DEF IsSuffix, IsPrefix
<1>5. ASSUME NEW i \in 1..l
      PROVE  log[i] \in Range(out) \cup Range(queue) \/ l - i >= MaxDeferred
  <2>1. CASE i \in 1..(l - q)
    BY <1>3, <2>1
  <2>2. CASE i \notin 1..(l - q)
    <3>1. PICK j : j = i - (l - q)
      OBVIOUS
    <3>2. j \in 1..q /\ (l - q) + j = i
      BY <1>2, <2>2, <3>1
    <3>3. QED BY <1>2, <1>3, <3>2 DEF Range
  <2>3. QED BY <2>1, <2>2
<1>6. QED BY <1>1, <1>2, <1>4, <1>5

\* "The work disappeared" is not how a deferred call ends (slow_call_queue.py): it is
\* in its tenant's queue, was drained in the order of the deferrals, or was pushed out
\* by as many newer ones as the queue holds; and the four buffers of the kind agree.
THEOREM DeferralsAreKept == SlowSpec => []DeferralsKept
<1>1. SlowInv => DeferralsKept
  <2> SUFFICES ASSUME SlowInv, NEW t \in CallTenants
               PROVE  /\ RingsAgree(deferLog[t])
                      /\ Deferred(t) = FallenOf(t)
                      /\ Len(deferred[t]) <= MaxDeferred
                      /\ IsSuffix(deferred[t], deferLog[t])
                      /\ \A i \in DOMAIN deferLog[t] :
                            \/ deferLog[t][i] \in Range(drained[t]) \cup Range(deferred[t])
                            \/ Len(deferLog[t]) - i >= MaxDeferred
                      /\ \A i, j \in DOMAIN drained[t], k, l \in DOMAIN deferLog[t] :
                            i < j /\ drained[t][i] = deferLog[t][k] /\ drained[t][j] = deferLog[t][l]
                               => k < l
    BY DEF DeferralsKept
  <2>1. PICK log, queue, out : log = deferLog[t] /\ queue = deferred[t] /\ out = drained[t]
    OBVIOUS
  <2>2. log \in Seq(Calls) /\ queue \in Seq(Calls) /\ out \in Seq(Calls)
    BY <2>1 DEF SlowInv, CallsInv, SlowTypeOK
  <2>3. Deferred(t) = FallenOf(t) /\ QueueInStep(log, queue, out)
    BY <2>1 DEF SlowInv, DeferralsInStep
  <2>4. RingsAgree(log)
    BY <2>2, BuffersAgree
  <2>5. /\ IsSuffix(queue, log)
        /\ \A i \in DOMAIN log :
              log[i] \in Range(out) \cup Range(queue) \/ Len(log) - i >= MaxDeferred
    BY <2>2, <2>3, InStepKeeps
  <2>6. DOMAIN log = 1..Len(log) /\ DOMAIN out = 1..Len(out)
    BY <2>2, LenProperties
  <2>7. /\ Len(queue) <= MaxDeferred
        /\ \A i, j \in DOMAIN out, k, l \in DOMAIN log :
              i < j /\ out[i] = log[k] /\ out[j] = log[l] => k < l
    BY <2>3, <2>6 DEF QueueInStep
  <2>8. QED BY <2>1, <2>3, <2>4, <2>5, <2>7
<1>2. QED BY <1>1, CallsSound, PTL

================================================================================
