---------------------------- MODULE MCServiceParts ----------------------------
(* The parts on small sets. *)
EXTENDS ServiceParts

CONSTANTS p1, p2, p3, s1, s2

\* Two prompts near each other and one apart.
MCNear == [p \in Prompts |-> [q \in Prompts |->
              IF p = q THEN 3 ELSE IF p3 \in {p, q} THEN 1 ELSE 2]]

\* Elements of a history, short and long, from before the cold cutoff to after now.
Item(l, t, s, m) == [len |-> l, time |-> t, score |-> s, match |-> m]
MCItems == {Item(3, 0, 1, 0), Item(8, 0, 0, 1), Item(8, 1, 0, 0),
            Item(3, 2, 1, 0), Item(8, 3, 0, 1), Item(3, 4, 1, 1)}

\* An empty table, one with a wildcard only, with both fallbacks, with one type of
\* two, and with a value that is no decision.
MCPolicyTables ==
    {[k \in {} |-> "auto"], [k \in {"*"} |-> "auto"],
     [k \in {"x", "default"} |-> IF k = "x" THEN "reject" ELSE "auto"],
     [k \in {"default", "*"} |-> IF k = "*" THEN "auto" ELSE "reject"],
     [k \in {"x"} |-> "other"]}

\* Anthropic is chosen; its key is there, or still the template's.
MCSettings ==
    {[mock |-> FALSE, provider |-> "anthropic", sdks |-> {"anthropic"},
      var |-> [v \in Variables |-> IF v = "ANTHROPIC_API_KEY" THEN key ELSE "none"]] :
         key \in {"set", "placeholder"}}

MCTables == {[ty \in ActionTypes |-> d] : d \in Decisions}
MCEventTypeOf == [e \in Events |-> IF e = "demo_1" THEN "message_received" ELSE "other"]
MCArrivals == {"tenant_meridian"} \X {"demo_1", "demo_2"}

MCStatements == <<<<"create", "insert", "create">>, <<"replace">>, <<"alter">>>>

Alike == Permutations(Sessions) \cup Permutations(PolicyTenants) \cup Permutations(Askers)
===============================================================================
