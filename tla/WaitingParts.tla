----------------------------- MODULE WaitingParts -----------------------------
(***************************************************************************)
(* Three parts in which somebody waits: the listener's stop for its pump,  *)
(* a request for its call, a transaction for another's identity.  They     *)
(* share no state, so as in ServiceParts one at a time is enough to check  *)
(* them all; each keeps the fairness of its own specification.             *)
(***************************************************************************)
EXTENDS EventDelivery, SlowCalls

CONSTANTS Creates, Identities, Asks, Overlong, Pending   \* of IdentityTransactions

VARIABLES
    part,                                              \* the part whose behaviour this is
    store, asks, customers, owner, progress, outcome   \* of IdentityTransactions

Identity == INSTANCE IdentityTransactions WITH Calls <- Creates

ASSUME WaitingAssumption == Identity!TransactionsAssumption

txVars == <<store, asks, customers, owner, progress, outcome>>
waitingVars == <<part, vars, slowVars, txVars>>

\* A part whose turn it is not is in one of its initial states.
WaitingInit ==
    /\ part \in {"delivery", "slow", "identities"}
    /\ DeliveryInit /\ SlowInit /\ Identity!TransactionsInit
    /\ part # "delivery" => mode = "memory"
    /\ part # "identities" => store = "memory" /\ asks = CHOOSE brought \in Asks : TRUE

InDelivery(A) == part = "delivery" /\ A /\ UNCHANGED <<part, slowVars, txVars>>
InSlow(A) == part = "slow" /\ A /\ UNCHANGED <<part, vars, txVars>>
InIdentities(A) == part = "identities" /\ A /\ UNCHANGED <<part, vars, slowVars>>

WaitingNext ==
    InDelivery(DeliveryNext) \/ InSlow(SlowNext) \/ InIdentities(Identity!TransactionsNext)

WaitingSpec ==
    /\ WaitingInit /\ [][WaitingNext]_waitingVars
    /\ WF_waitingVars(InDelivery(StopGoesOn))
    /\ \A g \in Listeners : WF_waitingVars(InDelivery(PumpLoop(g)))
    /\ \A g \in Listeners, e \in Events : WF_waitingVars(InDelivery(Adapter(g, e)))
    /\ \A c \in Calls : WF_waitingVars(InSlow(Request(c)))
    /\ \A c \in Creates : WF_waitingVars(InIdentities(Identity!GoesOn(c)))

\* create_customer's promise (IdentityTransactions).
ImplementsAtomicCreates == Identity!ImplementsAtomicCreates
===============================================================================
