--------------------------- MODULE CustomerLinking ---------------------------
(***************************************************************************)
(* Cross-channel customer linking (context_engine/linking.py) over the two *)
(* customer repositories (customer_repository.py in memory,                *)
(* pg_customer_repository.py in Postgres).  Requests run side by side on   *)
(* the API's threads; a repository call is atomic (the in-memory lock, one *)
(* committed transaction), except that Postgres' add_identity looks the    *)
(* identity up and inserts it in two statements that others can come       *)
(* between.  Everything is keyed by tenant, so the model is of one tenant. *)
(*                                                                         *)
(* An identity stands for a (kind, normalized value) pair.  A request has  *)
(* a sequence of them, its hints, in lookup priority order.                *)
(***************************************************************************)
EXTENDS Integers, FiniteSets, SequencesExt

CONSTANTS
    Requests,     \* the POST /events calls
    Identities,
    Hints,        \* the hint sequences a payload may carry
    CustomerIds,  \* the ids that may be given to new customers
    UnknownId,    \* an id that no customer of the tenant has
    NoCustomer

ASSUME LinkingAssumption ==
    /\ Hints \subseteq Seq(Identities)
    /\ \A hints \in Hints : IsInjective(hints)
    /\ NoCustomer \notin CustomerIds
    /\ UnknownId \notin CustomerIds \cup {NoCustomer}

VARIABLES
    store,       \* which repository the process was started with
    customers,   \* ids of the customers created
    owner,       \* the UNIQUE index: identity -> its customer
    at,          \* where each request is
    work         \* each request's arguments and local variables

linkVars == <<store, customers, owner, at, work>>

Stores == {"memory", "postgres"}

\* A request's explicit customer_id or NoCustomer, its hints, those still to be
\* looked up or attached, and the outcome: customer, whether it was created,
\* identities added.
Work == [asked : CustomerIds \cup {UnknownId, NoCustomer},
         hints : Seq(Identities),
         todo  : Seq(Identities),
         cust  : CustomerIds \cup {NoCustomer},
         made  : BOOLEAN,
         added : SUBSET Identities]

NoWork == [asked |-> NoCustomer, hints |-> <<>>, todo |-> <<>>,
           cust |-> NoCustomer, made |-> FALSE, added |-> {}]

LinkLabels == {"given", "find", "refind", "attach", "add", "insert"}
LinkFailures == {"unknown", "collision"}

LinkTypeOK ==
    /\ store \in Stores
    /\ customers \subseteq CustomerIds
    /\ DOMAIN owner \subseteq Identities
    /\ \A h \in DOMAIN owner : owner[h] \in customers
    /\ work \in [Requests -> Work]

LinkInit ==
    /\ store \in Stores
    /\ customers = {}
    /\ owner = [h \in {} |-> NoCustomer]
    /\ work = [r \in Requests |-> NoWork]

-----------------------------------------------------------------------------

Known(h) == h \in DOMAIN owner
Step(r, from, to) == at[r] = from /\ at' = [at EXCEPT ![r] = to]
SetWork(r, w) == work' = [work EXCEPT ![r] = w]
NoWrite == UNCHANGED <<store, customers, owner>>

\* _attach_new_identities is entered with the customer and the hints left to it.
AttachTo(r, c, hints) == SetWork(r, [work[r] EXCEPT !.cust = c, !.todo = hints])

\* resolve_customer: an explicit customer_id goes before the hints.
BeginLink(r, from) ==
    /\ Step(r, from, IF work[r].asked = NoCustomer THEN "find" ELSE "given")
    /\ UNCHANGED <<store, customers, owner, work>>

GivenKnown(r) ==
    /\ Step(r, "given", "attach")
    /\ work[r].asked \in customers
    /\ AttachTo(r, work[r].asked, work[r].hints)
    /\ NoWrite

\* Mutant of GivenUnknown: the customer is taken on trust.
GivenUnknownTrusted(r) ==
    /\ Step(r, "given", "attach")
    /\ work[r].asked \notin customers
    /\ AttachTo(r, work[r].asked, work[r].hints)
    /\ NoWrite

\* LookupError.
GivenUnknown(r) ==
    /\ Step(r, "given", "unknown")
    /\ work[r].asked \notin customers
    /\ UNCHANGED work
    /\ NoWrite

\* The priority walk, before (find) and after (refind) a lost create race: one
\* lookup, which matches ...
FindHit(r, walk) ==
    /\ Step(r, walk, "attach")
    /\ work[r].todo # <<>>
    /\ LET h == Head(work[r].todo)
       IN  Known(h) /\ AttachTo(r, owner[h], RemoveFirst(work[r].hints, h))
    /\ NoWrite

\* ... or misses.
FindMiss(r, walk) ==
    /\ Step(r, walk, walk)
    /\ work[r].todo # <<>>
    /\ ~Known(Head(work[r].todo))
    /\ SetWork(r, [work[r] EXCEPT !.todo = Tail(@)])
    /\ NoWrite

\* Mutant of Create: the identities are not checked, and those of another
\* customer are taken over.
CreateUnchecked(r) ==
    /\ Step(r, "find", "attach")
    /\ work[r].todo = <<>>
    /\ \E c \in CustomerIds \ customers :
           /\ customers' = customers \cup {c}
           /\ owner' = [h \in DOMAIN owner \cup Range(work[r].hints) |->
                            IF h \in Range(work[r].hints) THEN c ELSE owner[h]]
           /\ SetWork(r, [work[r] EXCEPT !.cust = c, !.made = TRUE,
                                         !.added = Range(work[r].hints)])
    /\ UNCHANGED store

\* No hint matched: create_customer inserts the customer and all its identities
\* in one critical section or transaction.
Create(r) ==
    /\ Step(r, "find", "attach")
    /\ work[r].todo = <<>>
    /\ \A h \in Range(work[r].hints) : ~Known(h)
    /\ \E c \in CustomerIds \ customers :
           /\ customers' = customers \cup {c}
           /\ owner' = [h \in DOMAIN owner \cup Range(work[r].hints) |->
                            IF Known(h) THEN owner[h] ELSE c]
           /\ SetWork(r, [work[r] EXCEPT !.cust = c, !.made = TRUE,
                                         !.added = Range(work[r].hints)])
    /\ UNCHANGED store

\* Mutants of CreateLost: the collision is not caught; the first hint is not
\* looked up again.
CreateLostRaises(r) ==
    /\ Step(r, "find", "collision")
    /\ work[r].todo = <<>>
    /\ \E h \in Range(work[r].hints) : Known(h)
    /\ UNCHANGED work
    /\ NoWrite

CreateLostSkipsFirst(r) ==
    /\ Step(r, "find", "refind")
    /\ work[r].todo = <<>>
    /\ \E h \in Range(work[r].hints) : Known(h)
    /\ SetWork(r, [work[r] EXCEPT !.todo = Tail(work[r].hints)])
    /\ NoWrite

\* Another request created a customer with one of the hints since the walk:
\* IdentityCollision, caught, and the walk is run again.  (The code raises the
\* collision after all if this walk misses too: see RewalkHits.)
CreateLost(r) ==
    /\ Step(r, "find", "refind")
    /\ work[r].todo = <<>>
    /\ \E h \in Range(work[r].hints) : Known(h)
    /\ SetWork(r, [work[r] EXCEPT !.todo = work[r].hints])
    /\ NoWrite

-----------------------------------------------------------------------------
(* _attach_new_identities: for each hint a lookup, and add_identity if it  *)
(* is free.                                                                *)

Attached(r, h, new) ==
    SetWork(r, [work[r] EXCEPT !.todo = Tail(@),
                               !.added = IF new THEN @ \cup {h} ELSE @])

\* Mutant of AttachTaken: an identity of another customer is passed over.
AttachTakenSkips(r) ==
    /\ Step(r, "attach", "attach")
    /\ work[r].todo # <<>>
    /\ LET h == Head(work[r].todo)
       IN  Known(h) /\ owner[h] # work[r].cust /\ Attached(r, h, FALSE)
    /\ NoWrite

\* The hint is another customer's: IdentityCollision.  What was added stays.
AttachTaken(r) ==
    /\ Step(r, "attach", "collision")
    /\ work[r].todo # <<>>
    /\ LET h == Head(work[r].todo) IN Known(h) /\ owner[h] # work[r].cust
    /\ UNCHANGED work
    /\ NoWrite

AttachOwn(r) ==
    /\ Step(r, "attach", "attach")
    /\ work[r].todo # <<>>
    /\ LET h == Head(work[r].todo)
       IN  Known(h) /\ owner[h] = work[r].cust /\ Attached(r, h, FALSE)
    /\ NoWrite

AttachFree(r) ==
    /\ Step(r, "attach", "add")
    /\ work[r].todo # <<>>
    /\ ~Known(Head(work[r].todo))
    /\ UNCHANGED work
    /\ NoWrite

InsertIdentity(r, h) ==
    /\ owner' = [x \in DOMAIN owner \cup {h} |-> IF x = h THEN work[r].cust ELSE owner[x]]
    /\ Attached(r, h, TRUE)
    /\ UNCHANGED <<store, customers>>

\* add_identity finds the identity free.  In memory it is inserted there and
\* then; in Postgres the INSERT is a statement of its own.
AddFree(r) ==
    LET h == Head(work[r].todo) IN
    /\ at[r] = "add" /\ ~Known(h)
    /\ \/ /\ store = "memory"
          /\ Step(r, "add", "attach")
          /\ InsertIdentity(r, h)
       \/ /\ store = "postgres"
          /\ Step(r, "add", "insert")
          /\ UNCHANGED work
          /\ NoWrite

\* add_identity finds it linked since the lookup, to this customer ...
AddOwn(r) ==
    LET h == Head(work[r].todo) IN
    /\ Step(r, "add", "attach")
    /\ Known(h) /\ owner[h] = work[r].cust
    /\ Attached(r, h, TRUE)
    /\ NoWrite

\* ... or to another.
AddTaken(r) ==
    LET h == Head(work[r].todo) IN
    /\ Step(r, "add", "collision")
    /\ Known(h) /\ owner[h] # work[r].cust
    /\ UNCHANGED work
    /\ NoWrite

\* The INSERT of Postgres' add_identity.
InsertFree(r) ==
    LET h == Head(work[r].todo) IN
    /\ Step(r, "insert", "attach")
    /\ ~Known(h)
    /\ InsertIdentity(r, h)

\* UniqueViolation, whoever the identity was linked to: IdentityCollision.
InsertTaken(r) ==
    /\ Step(r, "insert", "collision")
    /\ Known(Head(work[r].todo))
    /\ UNCHANGED work
    /\ NoWrite

\* resolve_customer has returned.
Linked(r) == at[r] = "attach" /\ work[r].todo = <<>>

LinkStep(r) ==
    \/ GivenKnown(r) \/ GivenUnknown(r)
    \/ FindHit(r, "find") \/ FindMiss(r, "find")
    \/ Create(r) \/ CreateLost(r)
    \/ FindHit(r, "refind") \/ FindMiss(r, "refind")
    \/ AttachTaken(r) \/ AttachOwn(r) \/ AttachFree(r)
    \/ AddFree(r) \/ AddOwn(r) \/ AddTaken(r)
    \/ InsertFree(r) \/ InsertTaken(r)

-----------------------------------------------------------------------------
(* What linking promises.                                                  *)

\* The second walk is "now guaranteed to hit" (resolve_customer): identities are
\* never unlinked, so a request that lost the create race always finds the winner,
\* and the walk never ends in the raise after it.
RewalkHits ==
    \A r \in Requests : at[r] = "refind" => \E h \in Range(work[r].todo) : Known(h)

\* An identity never changes hands: once linked, it is its customer's for good
\* ("the repository's append-only nature"), however many requests saw it free.
OwnersStay ==
    \A h \in DOMAIN owner : h \in DOMAIN owner' /\ owner'[h] = owner[h]

OwnersKept == [][OwnersStay]_linkVars

\* The request's customer and hints really are two customers'.
Conflict(r) ==
    \/ \E h, g \in Range(work[r].hints) :
           Known(h) /\ Known(g) /\ owner[h] # owner[g]
    \/ \E h \in Range(work[r].hints) :
           work[r].asked # NoCustomer /\ Known(h) /\ owner[h] # work[r].asked

\* A collision is a data conflict, not a race.  add_identity is "idempotent: if
\* the identity already points at this same customer, returns the existing row
\* unchanged".
CollisionIsReal == \A r \in Requests : at[r] = "collision" => Conflict(r)

\* That holds in memory, where the create race and the attach race are both won
\* or absorbed.
MemoryCollisionIsReal == store = "memory" => CollisionIsReal

-----------------------------------------------------------------------------
(* What makes these inductive, request by request.                         *)

Attaching(r) == at[r] \in {"attach", "add", "insert"}

Owns(c, h) == Known(h) /\ owner[h] = c

\* Why the request is attaching to its customer: it asked for it, or the customer
\* owns one of its hints, or it has none to attach.
Vouched(r) ==
    \/ work[r].asked # NoCustomer /\ work[r].cust = work[r].asked
    \/ \E h \in Range(work[r].hints) : Owns(work[r].cust, h)
    \/ work[r].todo = <<>>

RequestInv(r) ==
    /\ IsInjective(work[r].hints)
    /\ Range(work[r].todo) \subseteq Range(work[r].hints)
    /\ at[r] = "refind" => \E h \in Range(work[r].todo) : Known(h)
    /\ Attaching(r) =>
           /\ work[r].cust \in customers
           /\ \A h \in Range(work[r].hints) :
                  h \in Range(work[r].todo) \/ Owns(work[r].cust, h)
           /\ Vouched(r)
    /\ at[r] \in {"add", "insert"} => work[r].todo # <<>>
    /\ at[r] = "insert" => store = "postgres"
    /\ at[r] = "collision" /\ store = "memory" => Conflict(r)

LinkInv == \A r \in Requests : RequestInv(r)
=============================================================================
