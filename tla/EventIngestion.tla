---------------------------- MODULE EventIngestion ----------------------------
(***************************************************************************)
(* POST /events (context_engine/api.py, ingestion.py, repository.py): the  *)
(* replay check, customer linking, the idempotent upsert and the publish   *)
(* on the event bus, each a call other requests can come between.  Requests *)
(* with one idempotency key are a client's retries, or two clients that    *)
(* chose the same key: their payloads need not be equal.                   *)
(***************************************************************************)
EXTENDS CustomerLinking

CONSTANTS
    Keys,      \* idempotency keys
    NoKey

ASSUME IngestionAssumption == NoKey \notin Keys

VARIABLES
    key,        \* each request's idempotency key
    events,     \* event repository: idempotency key -> the stored event
    published   \* how often the bus took the envelope of a key's event

ingestVars == <<key, events, published>>
allVars == <<linkVars, ingestVars>>

Unfinished == LinkLabels \cup {"check", "publish"}
Answers == {"accepted", "replayed", "unknown", "collision", "bus_error", "dead"}

EventRecords == [cust : CustomerIds, hints : Seq(Identities)]

IngestTypeOK ==
    /\ LinkTypeOK
    /\ at \in [Requests -> {"new"} \cup Unfinished \cup Answers]
    /\ key \in [Requests -> Keys \cup {NoKey}]
    /\ DOMAIN events \subseteq Keys
    /\ \A k \in DOMAIN events : events[k] \in EventRecords
    /\ published \in [Keys -> Nat]

IngestInit ==
    /\ LinkInit
    /\ at = [r \in Requests |-> "new"]
    /\ key = [r \in Requests |-> NoKey]
    /\ events = [k \in {} |-> NoWork]
    /\ published = [k \in Keys |-> 0]

-----------------------------------------------------------------------------

Stored(k) == k \in DOMAIN events

\* A request with one idempotency key is let in.  (One without, or with two
\* different ones, is answered 400 and changes nothing.)  A client asks for a
\* customer it was told of, or for one that does not exist.
Receive(r, k, asked, hints) ==
    /\ asked \in customers \cup {UnknownId, NoCustomer}
    /\ Step(r, "new", "check")
    /\ key' = [key EXCEPT ![r] = k]
    /\ SetWork(r, [NoWork EXCEPT !.asked = asked, !.hints = hints, !.todo = hints])
    /\ UNCHANGED <<store, customers, owner, events, published>>

\* The replay short-circuit: a key that is stored is answered without linking.
CheckHit(r) ==
    /\ Step(r, "check", "replayed")
    /\ Stored(key[r])
    /\ UNCHANGED <<store, customers, owner, work, ingestVars>>

CheckMiss(r) ==
    /\ ~Stored(key[r])
    /\ BeginLink(r, "check")
    /\ UNCHANGED ingestVars

Link(r) == LinkStep(r) /\ UNCHANGED ingestVars

\* upsert_event: the event is stored ...
UpsertNew(r) ==
    /\ Linked(r)
    /\ Step(r, "attach", "publish")
    /\ ~Stored(key[r])
    /\ events' = [k \in DOMAIN events \cup {key[r]} |->
                      IF k = key[r] THEN [cust |-> work[r].cust, hints |-> work[r].hints]
                      ELSE events[k]]
    /\ UNCHANGED <<store, customers, owner, work, key, published>>

\* Mutant of UpsertSeen: a replay found only here is published again.
UpsertSeenPublishes(r) ==
    /\ Linked(r)
    /\ Step(r, "attach", "publish")
    /\ Stored(key[r])
    /\ UNCHANGED <<store, customers, owner, work, ingestVars>>

\* ... or another request with the key was faster, and its event is returned.
UpsertSeen(r) ==
    /\ Linked(r)
    /\ Step(r, "attach", "replayed")
    /\ Stored(key[r])
    /\ UNCHANGED <<store, customers, owner, work, ingestVars>>

Publish(r) ==
    /\ Step(r, "publish", "accepted")
    /\ published' = [published EXCEPT ![key[r]] = @ + 1]
    /\ UNCHANGED <<store, customers, owner, work, key, events>>

\* The bus (Redis) raises, and so does the handler: the event stays stored.
PublishFails(r) ==
    /\ Step(r, "publish", "bus_error")
    /\ UNCHANGED <<store, customers, owner, work, ingestVars>>

\* The process dies and is started again.  With Postgres only the requests under
\* way are lost.  (In memory everything is, and a new behaviour begins.)
Restart ==
    /\ store = "postgres"
    /\ \E r \in Requests : at[r] \in Unfinished
    /\ at' = [r \in Requests |-> IF at[r] \in Unfinished THEN "dead" ELSE at[r]]
    /\ UNCHANGED <<store, customers, owner, work, ingestVars>>

Serve(r) ==
    \/ CheckHit(r) \/ CheckMiss(r)
    \/ Link(r)
    \/ UpsertNew(r) \/ UpsertSeen(r)
    \/ Publish(r) \/ PublishFails(r)

IngestNext ==
    \/ \E r \in Requests :
          \/ \E k \in Keys, asked \in CustomerIds \cup {UnknownId, NoCustomer}, hints \in Hints :
                 Receive(r, k, asked, hints)
          \/ Serve(r)
    \/ Restart

IngestSpec == IngestInit /\ [][IngestNext]_allVars

-----------------------------------------------------------------------------
(* What ingestion promises.                                                *)

\* Two events with the same identity always resolve to the same customer
\* (linking.py): a stored event's customer owns every identity of its payload,
\* whatever else was being linked at the time.
EventsLinked ==
    \A k \in DOMAIN events :
        \A h \in Range(events[k].hints) : Known(h) /\ owner[h] = events[k].cust

\* "Replays don't republish - orchestrator subscribers must not see the same
\* event id twice": a key has one request that stored its event, and only that
\* one may publish it, once.
PublishedOnce ==
    \A k \in Keys :
        LET storing == {r \in Requests :
                           key[r] = k /\ at[r] \in {"publish", "accepted", "bus_error"}}
        IN  /\ Cardinality(storing) <= 1
            /\ published[k] = Cardinality({r \in storing : at[r] = "accepted"})

\* A request answered as a replay has not touched the customers: the linker is
\* skipped entirely, so that a replayed payload cannot "pollute
\* customer_identities" (post_event's replay short-circuit).
ReplayLinksNothing ==
    \A r \in Requests : at[r] = "replayed" =>
        /\ work[r].added \subseteq Range(events[key[r]].hints)
        /\ work[r].made => work[r].cust = events[key[r]].cust
=============================================================================
