----------------------------- MODULE BriefPacking -----------------------------
(***************************************************************************)
(* A customer's history grows, its segments are retrieved by one of the    *)
(* strategies and packed greedily, in their order, into a budget of tokens *)
(* (context_engine/brief_assembly.py), as the memory system of the         *)
(* take-home adapter (takehome/context-engine/memory_system.py) and the    *)
(* benchmarks do.                                                          *)
(***************************************************************************)
EXTENDS HistoryRetrieval

CONSTANTS
    MaxHistory,   \* bound: of messages and actions together
    Budgets,
    Headers       \* bound: lengths of headers; 0 is no header

ASSUME BriefAssumption ==
    /\ MaxHistory \in Nat
    /\ Budgets \subseteq Nat \ {0} /\ Headers \subseteq Nat

Sources == {"recent_message", "prior_action", "summary", "semantic_match"}
Segments == [source : Sources, item : 0..MaxHistory, len : Nat \ {0}, priority : Nat]

VARIABLES
    messages, priorActions,          \* the history
    strategy,
    segments, budget, header,   \* what is to be packed
    phase,
    next,    \* the segment the loop is at
    kept,    \* positions of the parts, 0 for the header
    used,    \* tokens charged
    size     \* length of the parts joined by newlines

packVars == <<messages, priorActions, strategy, segments, budget, header, phase, next, kept, used, size>>

PackTypeOK ==
    /\ messages \in Seq(Items) /\ priorActions \in Seq(Items)
    /\ strategy \in Strategies \cup {""}
    /\ segments \in Seq(Segments)
    /\ budget \in Budgets \cup {0} /\ header \in Headers \cup {0}
    /\ phase \in {"history", "header", "loop", "check", "done", "failed"}
    /\ next \in 1..(Len(segments) + 1)
    /\ kept \in Seq(0..Len(segments))
    /\ used \in Nat /\ size \in Nat

PackInit ==
    /\ messages = <<>> /\ priorActions = <<>>
    /\ strategy = "" /\ segments = <<>>
    /\ budget = 0 /\ header = 0
    /\ phase = "history"
    /\ next = 1 /\ kept = <<>> /\ used = 0 /\ size = 0

-----------------------------------------------------------------------------
(* The history.                                                            *)

Grows ==
    /\ phase = "history"
    /\ Len(messages) + Len(priorActions) < MaxHistory
    /\ UNCHANGED <<strategy, segments, budget, header, phase, next, kept, used, size>>

IngestMessage(item) ==
    Grows /\ messages' = Append(messages, item) /\ UNCHANGED priorActions

RecordAction(item) ==
    Grows /\ priorActions' = Append(priorActions, item) /\ UNCHANGED messages

Retrieve(s, b, h) ==
    /\ phase = "history" /\ phase' = "header"
    /\ s = "hybrid" => CutoffsValid
    /\ segments' \in Retrieved(s, messages, priorActions)
    /\ strategy' = s /\ budget' = b /\ header' = h
    /\ UNCHANGED <<messages, priorActions, next, kept, used, size>>

\* The adapter's: recency, under a header that names the borrower.
AssembleContext(b, h) == h > 0 /\ Retrieve("recency", b, h)

\* The call of the model for the summary raises, and so does the strategy.
RetrieveRaises(s) ==
    /\ phase = "history" /\ phase' = "failed"
    /\ \/ s = "summarized" /\ Len(messages) > RecentWindow
       \/ /\ s = "hybrid" /\ CutoffsValid
          /\ \E i \in DOMAIN messages : IsCold(messages[i].time, Reference(messages, priorActions))
    /\ strategy' = s
    /\ UNCHANGED <<messages, priorActions, segments, budget, header, next, kept, used, size>>

-----------------------------------------------------------------------------
(* Packing.                                                                *)

estimate_tokens(len) == len \div 4

\* A part is charged a token for its newline.
Cost(len) == estimate_tokens(len) + 1
LengthAt(i) == IF i = 0 THEN header ELSE segments[i].len
CostAt(i) == Cost(LengthAt(i))

Keep(i) ==
    /\ used + CostAt(i) <= budget
    /\ kept' = Append(kept, i)
    /\ used' = used + CostAt(i)
    /\ size' = (IF kept = <<>> THEN 0 ELSE size + 1) + LengthAt(i)

\* Mutant of Skip: the loop stops at the first segment that does not fit.
SkipToEnd(i) ==
    /\ used + CostAt(i) > budget
    /\ next' = Len(segments) + 1
    /\ UNCHANGED <<kept, used, size>>

Skip(i) ==
    /\ used + CostAt(i) > budget
    /\ next' = i + 1
    /\ UNCHANGED <<kept, used, size>>

\* The header is a part if there is one and it fits.
PackHeader ==
    /\ phase = "header" /\ phase' = "loop"
    /\ \/ header > 0 /\ Keep(0)
       \/ (header > 0 => used + CostAt(0) > budget) /\ UNCHANGED <<kept, used, size>>
    /\ UNCHANGED <<messages, priorActions, strategy, segments, budget, header, next>>

\* Skip, don't stop: a later segment may fit where this one does not.
PackSegment ==
    /\ phase = "loop" /\ next <= Len(segments)
    /\ \/ Keep(next) /\ next' = next + 1
       \/ Skip(next)
    /\ UNCHANGED <<messages, priorActions, strategy, segments, budget, header, phase>>

EndLoop ==
    /\ phase = "loop" /\ next > Len(segments)
    /\ phase' = "check"
    /\ UNCHANGED <<messages, priorActions, strategy, segments, budget, header, next, kept, used, size>>

\* The length of some texts joined by newlines.
JoinedLength(lens) ==
    LET upTo[n \in 0..Len(lens)] ==
            IF n = 0 THEN 0 ELSE upTo[n - 1] + lens[n] + IF n = 1 THEN 0 ELSE 1
    IN  upTo[Len(lens)]
Joined(parts) == JoinedLength([n \in DOMAIN parts |-> LengthAt(parts[n])])

\* "Defensive end-to-end check": parts go from the end until the brief fits.
Check ==
    /\ phase = "check" /\ phase' = "done"
    /\ \E n \in 0..Len(kept) :
          /\ kept' = SubSeq(kept, 1, n)
          /\ n = 0 \/ estimate_tokens(Joined(kept')) <= budget
          /\ \A m \in (n + 1)..Len(kept) : estimate_tokens(Joined(SubSeq(kept, 1, m))) > budget
          /\ size' = Joined(kept')
    /\ UNCHANGED <<messages, priorActions, strategy, segments, budget, header, next, used>>

PackNext ==
    \/ \E item \in Items : IngestMessage(item) \/ RecordAction(item)
    \/ \E b \in Budgets, h \in Headers : AssembleContext(b, h)
    \/ \E s \in Strategies \ {"recency"}, b \in Budgets : Retrieve(s, b, 0)
    \/ \E s \in Strategies : RetrieveRaises(s)
    \/ PackHeader \/ PackSegment \/ EndLoop \/ Check

PackSpec == PackInit /\ [][PackNext]_packVars

-----------------------------------------------------------------------------
(* What a brief promises.                                                  *)

\* However a history is cut into tiers, at the cutoffs too, nothing of it is lost
\* or shown twice, what is left to a summary is the oldest, and actions and messages
\* come in the order of the strategy.
HistoryKept ==
    phase \notin {"history", "failed"} =>
        /\ ShownOnce(messages, priorActions, segments)
        /\ OldestUnshown(strategy, messages, priorActions, segments)
        /\ ActionsInOrder(strategy, messages, priorActions, segments)
        /\ MessagesInOrder(strategy, messages, segments)

Seen == {i \in 0..(next - 1) : i > 0 \/ (phase \notin {"history", "header"} /\ header > 0)}
Left == Seen \ Range(kept)

\* The accounting by tokens never undercounts the joined text, so that the check at
\* the end "shouldn't happen" to find anything (brief_assembly.py); what was left out
\* would not fit now either; and a part that was kept before one that comes earlier
\* in the order is smaller than it.
BriefFits ==
    /\ PackTypeOK
    /\ size = Joined(kept)
    /\ used <= budget /\ estimate_tokens(size) <= budget
    /\ \A i \in Left : used + CostAt(i) > budget
    /\ \A i \in Left, j \in Range(kept) : i < j => CostAt(j) < CostAt(i)

=============================================================================
