------------------------- MODULE IdentityTransactions -------------------------
(***************************************************************************)
(* create_customer, statement by statement                                 *)
(* (context_engine/pg_customer_repository.py): calls run in transactions   *)
(* of their own, and an INSERT of an identity that another has inserted    *)
(* and not committed waits for the other's end.  Calls that bring the same *)
(* identities in different orders may wait for one another, which the      *)
(* database ends by failing one of them.  In memory                        *)
(* (customer_repository.py) a call is one critical section, which an       *)
(* identity that the contract does not admit leaves half way.              *)
(***************************************************************************)
EXTENDS Integers, SequencesExt

CONSTANTS
    Calls,        \* bound: the calls of create_customer
    Identities,
    Asks,         \* bound: what identities, in which order, the calls bring
    Overlong,     \* identities longer than the contract admits
    Pending       \* of a call that has not ended

TransactionsAssumption ==
    /\ Asks \subseteq [Calls -> Seq(Identities)] /\ Overlong \subseteq Identities
    /\ \A brought \in Asks, c \in Calls : IsInjective(brought[c])

VARIABLES
    store,      \* "memory" or "postgres"
    asks,       \* call -> the identities it brings
    customers,  \* the calls whose customers are committed
    owner,      \* the UNIQUE index, committed: identity -> call
    progress,   \* call -> how many of its identities are inserted; -1 before it starts
    outcome     \* call -> Pending or what its caller got

txVars == <<store, asks, customers, owner, progress, outcome>>

TransactionsInit ==
    /\ store \in {"memory", "postgres"}
    /\ asks \in Asks
    /\ customers = {} /\ owner = [h \in {} |-> Pending]
    /\ progress = [c \in Calls |-> -1]
    /\ outcome = [c \in Calls |-> Pending]

-----------------------------------------------------------------------------

Linked(c, hints) == [h \in DOMAIN owner \cup hints |-> IF h \in hints THEN c ELSE owner[h]]

\* The first n identities of a call, and what its open transaction has inserted.
First(c, n) == Range(SubSeq(asks[c], 1, n))
Inserted(c) == IF progress[c] > 0 THEN First(c, progress[c]) ELSE {}

Running(c) == store = "postgres" /\ progress[c] >= 0 /\ outcome[c] = Pending
NextIdentity(c) == asks[c][progress[c] + 1]
AtIdentity(c) == Running(c) /\ progress[c] < Len(asks[c])

\* Who has inserted the identity the call is at, and not ended.
Holder(c) == {d \in Calls \ {c} : progress[d] >= 0 /\ NextIdentity(c) \in Inserted(d)}

Ended(c, o) == outcome' = [outcome EXCEPT ![c] = o]

\* conn.rollback(): nothing stays inserted.
RolledBack(c) == progress' = [progress EXCEPT ![c] = -1]

\* INSERT INTO customers.
BeginCreate(c) ==
    /\ store = "postgres" /\ outcome[c] = Pending /\ progress[c] = -1
    /\ progress' = [progress EXCEPT ![c] = 0]
    /\ UNCHANGED <<store, asks, customers, owner, outcome>>

\* Mutant of InsertNext: each INSERT is committed by itself.
InsertNextCommitted(c) ==
    /\ AtIdentity(c) /\ Holder(c) = {} /\ NextIdentity(c) \notin DOMAIN owner
    /\ owner' = Linked(c, {NextIdentity(c)})
    /\ customers' = customers \cup {c}
    /\ progress' = [progress EXCEPT ![c] = @ + 1]
    /\ UNCHANGED <<store, asks, outcome>>

InsertNext(c) ==
    /\ AtIdentity(c) /\ Holder(c) = {} /\ NextIdentity(c) \notin DOMAIN owner
    /\ progress' = [progress EXCEPT ![c] = @ + 1]
    /\ UNCHANGED <<store, asks, customers, owner, outcome>>

\* UniqueViolation, at once or when the holder has committed: IdentityCollision.
InsertCollides(c) ==
    /\ AtIdentity(c) /\ NextIdentity(c) \in DOMAIN owner
    /\ RolledBack(c) /\ Ended(c, "collision")
    /\ UNCHANGED <<store, asks, customers, owner>>

\* Any other error is raised as it is: the connection is lost, the database
\* stops, ...
CreateRaises(c) ==
    /\ Running(c)
    /\ RolledBack(c) /\ Ended(c, "error")
    /\ UNCHANGED <<store, asks, customers, owner>>

\* ... or the database finds calls that wait for one another in a circle.
WaitsFor(c) == IF AtIdentity(c) THEN Holder(c) ELSE {}
Circle(ds) == ds # {} /\ \A d \in ds : WaitsFor(d) \cap ds # {}

DeadlockFound(c) ==
    /\ \E ds \in SUBSET Calls : Circle(ds) /\ c \in ds
    /\ RolledBack(c) /\ Ended(c, "error")
    /\ UNCHANGED <<store, asks, customers, owner>>

\* The reply to the commit may be lost.
CommitCreate(c) ==
    /\ Running(c) /\ progress[c] = Len(asks[c])
    /\ customers' = customers \cup {c}
    /\ owner' = Linked(c, Range(asks[c]))
    /\ progress' = [progress EXCEPT ![c] = -1]
    /\ Ended(c, "created") \/ Ended(c, "error")
    /\ UNCHANGED <<store, asks>>

\* InMemoryCustomerRepository.create_customer, whose checks come first; an
\* identity that is not admitted raises when its turn comes.
CreateInMemory(c) ==
    LET Admitted(n) == First(c, n) \cap Overlong = {} IN
    /\ store = "memory" /\ outcome[c] = Pending
    /\ \/ /\ Range(asks[c]) \cap DOMAIN owner # {}
          /\ Ended(c, "collision")
          /\ UNCHANGED <<customers, owner>>
       \/ /\ Range(asks[c]) \cap DOMAIN owner = {}
          /\ customers' = customers \cup {c}
          /\ \E n \in 0..Len(asks[c]) :
                /\ Admitted(n) /\ (n < Len(asks[c]) => ~Admitted(n + 1))
                /\ owner' = Linked(c, First(c, n))
                /\ Ended(c, IF n = Len(asks[c]) THEN "created" ELSE "error")
    /\ UNCHANGED <<store, asks, progress>>

TransactionsNext ==
    \E c \in Calls :
        \/ BeginCreate(c) \/ InsertNext(c) \/ InsertCollides(c)
        \/ CreateRaises(c) \/ DeadlockFound(c) \/ CommitCreate(c)
        \/ CreateInMemory(c)

\* A call that is made and can go on does; the database looks for deadlocks.
GoesOn(c) ==
    InsertNext(c) \/ InsertCollides(c) \/ DeadlockFound(c) \/ CommitCreate(c)

TransactionsSpec ==
    TransactionsInit /\ [][TransactionsNext]_txVars /\ \A c \in Calls : WF_txVars(GoesOn(c))

-----------------------------------------------------------------------------

Torn == \E c \in Calls : Range(asks[c]) \cap Overlong # {}

Promise == INSTANCE AtomicCreates WITH
    mayTear <- store = "memory" /\ Torn,
    called <- {c \in Calls : progress[c] >= 0 \/ outcome[c] # Pending}

\* "Create a new customer + the supplied identities atomically": however the
\* statements of calls interleave, wait and fail, a call leaves its customer with
\* all its identities or nothing, collides only with what is committed, and returns
\* even when calls wait for one another in a circle.  Only an overlong identity in
\* memory leaves a customer half made.
ImplementsAtomicCreates == Promise!AtomicSpec
===============================================================================
