---------------------------- MODULE PolicyRegistry ----------------------------
(***************************************************************************)
(* What the pipeline counts on a policy engine for                         *)
(* (orchestrator/policy/declarative.py, PolicyEngine): a tenant's table    *)
(* gives each action type one decision, and an answer is the one the       *)
(* tenant's own table gave when the question was put, whatever tables are  *)
(* set before it comes.  An engine that asks a language model may guess.   *)
(***************************************************************************)
CONSTANTS Tenants, ActionTypes, Callers, Verdicts, SafeDefault, NoVerdict

VARIABLES
    guesses,  \* whether the answers come from a model
    decided,  \* tenant -> the decision its table gives each type
    taken,    \* caller -> the decision its question met, until it is answered
    answer    \* caller -> the last answer it got

registryVars == <<guesses, decided, taken, answer>>

RegistryInit ==
    /\ guesses \in BOOLEAN
    /\ decided = [t \in Tenants |-> [ty \in ActionTypes |-> SafeDefault]]
    /\ taken = [c \in Callers |-> NoVerdict]
    /\ answer = [c \in Callers |-> NoVerdict]

\* set_policies for one tenant, or clear for all.
Configure ==
    /\ decided' \in [Tenants -> [ActionTypes -> Verdicts]]
    /\ \/ \E t \in Tenants : \A u \in Tenants \ {t} : decided'[u] = decided[u]
       \/ decided' = [t \in Tenants |-> [ty \in ActionTypes |-> SafeDefault]]
    /\ UNCHANGED <<guesses, taken, answer>>

Ask(c, t, ty) ==
    /\ taken[c] = NoVerdict
    /\ taken' = [taken EXCEPT ![c] = decided[t][ty]]
    /\ answer' = [answer EXCEPT ![c] = NoVerdict]
    /\ UNCHANGED <<guesses, decided>>

Answer(c) ==
    /\ taken[c] # NoVerdict
    /\ \E d \in Verdicts : /\ ~guesses => d = taken[c]
                           /\ answer' = [answer EXCEPT ![c] = d]
    /\ taken' = [taken EXCEPT ![c] = NoVerdict]
    /\ UNCHANGED <<guesses, decided>>

RegistryNext ==
    \/ Configure
    \/ \E c \in Callers, t \in Tenants, ty \in ActionTypes : Ask(c, t, ty)
    \/ \E c \in Callers : Answer(c)

RegistrySpec == RegistryInit /\ [][RegistryNext]_registryVars
===============================================================================
