--------------------------- MODULE HistoryRetrieval ---------------------------
(***************************************************************************)
(* From the history of a customer to the segments of a brief, in the order *)
(* of their priority: the five retrieval strategies                        *)
(* (context_engine/retrieval/recency.py, summarized.py, semantic.py,       *)
(* hybrid.py and rerank.py).  Of a text only its length counts, of the     *)
(* likeness of two texts only a rank; times are small numbers, and all     *)
(* bands of priority lie further apart than any times or ranks.            *)
(***************************************************************************)
EXTENDS Integers, FiniteSets, SequencesExt

CONSTANTS
    Items,           \* bound: the messages and actions a history is made of
    RecentWindow,    \* recent_window
    WarmCutoff, ColdCutoff,
    TopK,
    Now,             \* the clock, which some timestamps may be ahead of
    SummaryLengths   \* bound: of a summary; 0 is an empty answer of the model

\* score: cosine similarity to the query; match: words and pairs of words in common.
ASSUME RetrievalAssumption ==
    /\ \A item \in Items :
          /\ item.len \in Nat \ {0}
          /\ item.time \in 0..99 /\ item.score \in 0..9 /\ item.match \in 0..9
    /\ RecentWindow \in Nat /\ TopK \in Nat /\ Now \in Nat
    /\ WarmCutoff \in Nat /\ ColdCutoff \in Nat
    /\ SummaryLengths \subseteq Nat

Strategies == {"recency", "summarized", "semantic", "hybrid", "rerank"}

\* "if cold_cutoff_hours <= warm_cutoff_hours: raise ValueError"
CutoffsValid == ColdCutoff > WarmCutoff

-----------------------------------------------------------------------------

\* A segment's item is the position of what it shows in its list, 0 for a summary.
Segment(source, list, i, priority) ==
    [source |-> source, item |-> i, len |-> list[i].len, priority |-> priority]

\* One segment for each element, in the order of the list.
Rendered(source, list, priority) ==
    [i \in DOMAIN list |-> Segment(source, list, i, priority[list[i]])]

\* The n-th of a set in an order of it, a set of pairs.
Nth(S, order, n) ==
    CHOOSE i \in S : Cardinality({j \in S : <<j, i>> \in order}) = n - 1

\* list.sort(key=priority, reverse=True) keeps equals in order.
Precedence(segs) ==
    {e \in (DOMAIN segs) \X (DOMAIN segs) :
        \/ segs[e[1]].priority > segs[e[2]].priority
        \/ segs[e[1]].priority = segs[e[2]].priority /\ e[1] < e[2]}
ByPriority(segs) == [n \in DOMAIN segs |-> segs[Nth(DOMAIN segs, Precedence(segs), n)]]

\* The newer the higher, in a band of its own or in none.
Banded(band) == [item \in Items |-> band + item.time]
Time == Banded(0)

ActionBoost == 1

\* Actions before messages of the same second and of the next one.
RecencySegments(messages, actions) ==
    ByPriority(Rendered("prior_action", actions, Banded(ActionBoost))
               \o Rendered("recent_message", messages, Time))

\* Bands of priority, from the top.
SummaryBand == 3000
ActionBand == 2000
WarmBand == 1000

\* The cold messages go into one summary, which is left out when the model's
\* answer is empty.
SummaryOf(cold, n) ==
    IF cold = <<>> \/ n = 0 THEN <<>>
    ELSE <<[source |-> "summary", item |-> 0, len |-> n, priority |-> SummaryBand]>>

\* A summary of all but the newest messages, the actions, the newest messages.
SummarizedSegments(messages, actions, n) ==
    LET newest == ByPriority(Rendered("recent_message", messages, Time))
        warm == SubSeq(newest, 1, IF Len(newest) > RecentWindow THEN RecentWindow ELSE Len(newest))
        cold == SubSeq(newest, RecentWindow + 1, Len(newest))
    IN  ByPriority(SummaryOf(cold, n) \o Rendered("prior_action", actions, Banded(ActionBand)) \o warm)

\* Likeness first, the newer of equals.
Similarity == [item \in Items |-> 100 * item.score + item.time]

SemanticSegments(messages, actions) ==
    ByPriority(Rendered("semantic_match", messages, Similarity)
               \o Rendered("prior_action", actions, Similarity))

\* What is newest, of messages and actions together, is the reference.
Reference(messages, actions) ==
    Max({messages[i].time : i \in DOMAIN messages} \cup {actions[i].time : i \in DOMAIN actions})

\* Mutant of IsMid: what is just as old as the cutoff is neither mid nor cold.
IsMidStrictly(t, reference) == t < reference - WarmCutoff /\ t > reference - ColdCutoff

IsWarm(t, reference) == t >= reference - WarmCutoff
IsMid(t, reference) == t < reference - WarmCutoff /\ t >= reference - ColdCutoff
IsCold(t, reference) == t < reference - ColdCutoff

Ascending(S) == {e \in S \X S : e[1] < e[2]}
Tier(messages, source, members, priority) ==
    LET all == Rendered(source, messages, priority)
    IN  [n \in 1..Cardinality(members) |-> all[Nth(members, Ascending(members), n)]]

HybridSegments(messages, actions, n) ==
    IF messages = <<>> /\ actions = <<>> THEN <<>>
    ELSE
    LET reference == Reference(messages, actions)
        warm == {i \in DOMAIN messages : IsWarm(messages[i].time, reference)}
        mid == {i \in DOMAIN messages : IsMid(messages[i].time, reference)}
        cold == {i \in DOMAIN messages : IsCold(messages[i].time, reference)}
    IN  ByPriority(SummaryOf(Tier(messages, "recent_message", cold, Time), n)
                   \o Rendered("prior_action", actions, Banded(ActionBand))
                   \o Tier(messages, "recent_message", warm, Banded(WarmBand))
                   \o Tier(messages, "semantic_match", mid, Similarity))

\* Likeness and words in common outweigh age, which halves what is left of it.
Recency(t) == IF t >= Now THEN 4 ELSE IF t = Now - 1 THEN 2 ELSE IF t = Now - 2 THEN 1 ELSE 0
Rescored(item) == 20 * item.score + 22 * item.match + Recency(item.time)

\* The best by likeness are scored anew and sorted; what comes after them stays
\* as it was, whatever the new scores are.
RerankSegments(messages, actions) ==
    LET segs == SemanticSegments(messages, actions)
        k == IF Len(segs) < TopK THEN Len(segs) ELSE TopK
        item(s) == IF s.source = "prior_action" THEN actions[s.item] ELSE messages[s.item]
        head == [i \in 1..k |-> [segs[i] EXCEPT !.priority = Rescored(item(segs[i]))]]
    IN  ByPriority(head) \o SubSeq(segs, k + 1, Len(segs))

\* What a strategy may make of a history; a query that is blank leaves rerank
\* with what semantic retrieval made.
Retrieved(strategy, messages, actions) ==
    CASE strategy = "recency"    -> {RecencySegments(messages, actions)}
      [] strategy = "summarized" -> {SummarizedSegments(messages, actions, n) : n \in SummaryLengths}
      [] strategy = "semantic"   -> {SemanticSegments(messages, actions)}
      [] strategy = "hybrid"     -> {HybridSegments(messages, actions, n) : n \in SummaryLengths}
      [] strategy = "rerank"     -> {RerankSegments(messages, actions),
                                     SemanticSegments(messages, actions)}

-----------------------------------------------------------------------------
(* What retrieval promises of a history and the segments made of it.       *)

MessageSources == {"recent_message", "semantic_match"}

\* Positions in a history that the segments of some kinds show.
Shown(segs, kinds) == {segs[i].item : i \in {j \in DOMAIN segs : segs[j].source \in kinds}}
SummaryPlaces(segs) == {i \in DOMAIN segs : segs[i].source = "summary"}
Unshown(messages, segs) == DOMAIN messages \ Shown(segs, MessageSources)

\* Nothing is lost or shown twice: each action and each message has one segment, but
\* for the messages that are left to a summary; and a summary comes first.
ShownOnce(messages, actions, segs) ==
    /\ Shown(segs, {"prior_action"}) = DOMAIN actions
    /\ Len(segs) = Len(messages) + Len(actions) - Cardinality(Unshown(messages, segs))
                       + Cardinality(SummaryPlaces(segs))
    /\ \A i \in SummaryPlaces(segs) : i = 1 /\ Unshown(messages, segs) # {}

\* Those are older than all that are shown, and only the strategies with a summary
\* leave messages to it: summarized only down to its window, hybrid only what is more
\* than the cold cutoff older than something else.
OldestUnshown(strategy, messages, actions, segs) ==
    LET gone == Unshown(messages, segs) IN
    gone # {} =>
        /\ strategy \in {"summarized", "hybrid"}
        /\ \A i \in gone, j \in DOMAIN messages \ gone : messages[i].time <= messages[j].time
        /\ strategy = "summarized" => Len(messages) - Cardinality(gone) = RecentWindow
        /\ strategy = "hybrid" => \A i \in gone :
              \E item \in Range(messages) \cup Range(actions) :
                 item.time - messages[i].time > ColdCutoff

\* No action comes after a message more than the boost older, nor after any message
\* under a strategy that gives actions a band.
ActionsInOrder(strategy, messages, actions, segs) ==
    \A i, j \in DOMAIN segs :
        i < j /\ segs[i].source \in MessageSources /\ segs[j].source = "prior_action" =>
           /\ strategy \notin {"summarized", "hybrid"}
           /\ strategy = "recency" =>
                 messages[segs[i].item].time > actions[segs[j].item].time + ActionBoost

\* Messages come newest first, but for likeness to the query among those that are
\* not warm.
MessagesInOrder(strategy, messages, segs) ==
    \A i, j \in DOMAIN segs :
        i < j /\ segs[i].source \in MessageSources /\ segs[j].source \in MessageSources =>
           LET a == messages[segs[i].item]
               b == messages[segs[j].item]
           IN  /\ strategy \in {"recency", "summarized"} => a.time >= b.time
               /\ strategy \in {"semantic", "hybrid"} =>
                     \/ a.time >= b.time
                     \/ a.score > b.score /\ segs[i].source = "semantic_match"
               /\ segs[j].source = "recent_message" => segs[i].source = "recent_message"
===============================================================================
