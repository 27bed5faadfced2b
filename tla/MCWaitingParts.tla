---------------------------- MODULE MCWaitingParts ----------------------------
(* The parts on small sets; create_customer brings up to two identities of *)
(* three, in either order.                                                 *)
EXTENDS WaitingParts

CONSTANTS ha, hb, hc

MCHints == <<<<ha, hb>>, <<hb, ha>>, <<hb, hc>>, <<hc, ha>>, <<ha>>>>

\* What the calls bring; which of them brings what makes no difference.
MCAsks ==
    {[c \in Creates |-> MCHints[f[c]]] :
        f \in {g \in [Creates -> 1..5] : \A c, d \in Creates : c < d => g[c] <= g[d]}}
===============================================================================
