----------------------------- MODULE AtomicCreates -----------------------------
(***************************************************************************)
(* What create_customer promises (CustomerRepository,                      *)
(* context_engine/customer_repository.py): a customer and all its          *)
(* identities at once or nothing of them, an IdentityCollision only when   *)
(* an identity is another customer's.  A caller may fail to learn of it.   *)
(***************************************************************************)
EXTENDS Integers, SequencesExt

CONSTANTS Calls, Pending

VARIABLES
    mayTear,   \* whether a call that fails may leave a part behind
    asks,      \* call -> the identities it brings
    called,    \* the calls that have been made
    customers, \* the calls whose customers are there
    owner,     \* identity -> the call that brought it
    outcome    \* call -> Pending or what its caller got

atomicVars == <<mayTear, asks, called, customers, owner, outcome>>

AtomicInit ==
    /\ called = {}
    /\ customers = {} /\ owner = [h \in {} |-> Pending]
    /\ outcome = [c \in Calls |-> Pending]

Owned(c, hints) == [h \in DOMAIN owner \cup hints |-> IF h \in hints THEN c ELSE owner[h]]
Ends(c, o) ==
    /\ outcome[c] = Pending /\ outcome' = [outcome EXCEPT ![c] = o]
    /\ called' = called \cup {c}

Call(c) ==
    /\ c \notin called /\ called' = called \cup {c}
    /\ UNCHANGED <<mayTear, asks, customers, owner, outcome>>

\* The reply may be lost.
CreateAll(c) ==
    /\ Ends(c, "created") \/ Ends(c, "error")
    /\ Range(asks[c]) \cap DOMAIN owner = {}
    /\ customers' = customers \cup {c}
    /\ owner' = Owned(c, Range(asks[c]))
    /\ UNCHANGED <<mayTear, asks>>

Collide(c) ==
    /\ Ends(c, "collision")
    /\ Range(asks[c]) \cap DOMAIN owner # {}
    /\ UNCHANGED <<mayTear, asks, customers, owner>>

FailWhole(c) ==
    /\ Ends(c, "error")
    /\ UNCHANGED <<mayTear, asks, customers, owner>>

\* What is left behind is the customer, with a part of its identities.
FailTorn(c) ==
    /\ mayTear /\ Ends(c, "error")
    /\ customers' = customers \cup {c}
    /\ \E n \in 0..(Len(asks[c]) - 1) :
          LET part == Range(SubSeq(asks[c], 1, n))
          IN  part \cap DOMAIN owner = {} /\ owner' = Owned(c, part)
    /\ UNCHANGED <<mayTear, asks>>

AtomicNext ==
    \E c \in Calls : Call(c) \/ CreateAll(c) \/ Collide(c) \/ FailWhole(c) \/ FailTorn(c)

\* Every call that is made ends.
AtomicSpec ==
    /\ AtomicInit /\ [][AtomicNext]_atomicVars
    /\ \A c \in Calls : c \in called ~> outcome[c] # Pending
================================================================================
