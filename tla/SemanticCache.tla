---------------------------- MODULE SemanticCache ----------------------------
(***************************************************************************)
(* The response cache of a language model's client                         *)
(* (context_engine/llm/semantic_cache.py): a namespace per tenant, kept in *)
(* order of last use and indexed by the exact prompt, and the clients that *)
(* look a prompt up, ask the model when nothing is near enough, and store  *)
(* the answer.  Calls of the cache are taken to be serialised, as its      *)
(* docstring asks of whoever shares it; a client's call of the model is    *)
(* not, and other clients come in between.                                 *)
(***************************************************************************)
EXTENDS Integers, FiniteSets, SequencesExt

CONSTANTS
    Banks,        \* tenants
    Prompts,
    Near,         \* Near[p][q]: how similar two prompts' embeddings are
    Threshold,    \* from here on an entry is a hit
    MaxEntries,
    MaxClients,   \* bound: uses of CachingLLMClient.complete
    NoAnswer

ASSUME CacheAssumption ==
    /\ Near \in [Prompts -> [Prompts -> Nat]] /\ Threshold \in Nat \ {0}
    /\ MaxEntries \in Nat \ {0} /\ MaxClients \in Nat
    /\ \A p, q \in Prompts : Near[p][q] = Near[q][p]

VARIABLES
    entries,    \* a tenant's entries, least recently used first
    exact,      \* a tenant's index: prompt -> id of its entry
    nextId,
    stats,
    client,     \* where a client is, for whom, with which prompt and answer
    lastUse     \* history: a tenant's prompts, the one used last at the end

cacheVars == <<entries, exact, nextId, stats, client, lastUse>>

\* Clients are numbered as they ask.
Clients == 1..MaxClients

\* An answer is known by the prompt and the tenant it was made for and by who asked.
Answers == [bank : Banks, prompt : Prompts, by : Clients]
Entries == [id : Nat, prompt : Prompts, answer : Answers]
NoIndex == [p \in {} |-> 0]
Counters == {"hits", "misses", "stores", "evictions"}
Idle == [at |-> "new", bank |-> NoAnswer, prompt |-> NoAnswer, answer |-> NoAnswer]

CacheInit ==
    /\ entries = [b \in Banks |-> <<>>]
    /\ exact = [b \in Banks |-> NoIndex]
    /\ nextId = 0
    /\ stats = [s \in Counters |-> 0]
    /\ client = [k \in Clients |-> Idle]
    /\ lastUse = [b \in Banks |-> <<>>]

Prompted(b) == {e.prompt : e \in Range(entries[b])}
IdsOf(seq) == {e.id : e \in Range(seq)}
Counts(s) == stats' = [stats EXCEPT ![s] = @ + 1]

\* The prompt that is used moves to the end.
Used(b, p) == lastUse' = [lastUse EXCEPT ![b] = Append(RemoveFirst(@, p), p)]

-----------------------------------------------------------------------------
(* lookup.                                                                 *)

\* The entry after its use: move_to_end.
Touched(seq, e) == Append(RemoveFirst(seq, e), e)

\* The client k asks for tenant b with prompt p.
Asks(k, b, p, to, answer) ==
    /\ client[k].at = "new" /\ \A j \in Clients : j < k => client[j].at # "new"
    /\ client' = [client EXCEPT ![k] = [at |-> to, bank |-> b, prompt |-> p, answer |-> answer]]

\* The hit promotes its entry.
RecordHit(k, b, p, e) ==
    /\ Asks(k, b, p, "hit", e.answer)
    /\ entries' = [entries EXCEPT ![b] = Touched(@, e)]
    /\ Counts("hits")
    /\ Used(b, e.prompt)
    /\ UNCHANGED <<exact, nextId>>

\* Exact prompts first, whatever the threshold ...
LookupExact(k, b, p) ==
    /\ p \in DOMAIN exact[b]
    /\ \E e \in Range(entries[b]) : e.id = exact[b][p] /\ RecordHit(k, b, p, e)

BestScore(b, p) == Max({0} \cup {Near[p][e.prompt] : e \in Range(entries[b])})

\* The first entry, in the order of the namespace, that is as near as any.
Nearest(b, p) ==
    LET best == {i \in DOMAIN entries[b] : Near[p][entries[b][i].prompt] = BestScore(b, p)}
    IN  entries[b][Min(best)]

\* Mutant of LookupNear: the nearest entry, however far.
LookupNearAny(k, b, p) ==
    /\ p \notin DOMAIN exact[b] /\ BestScore(b, p) > 0
    /\ RecordHit(k, b, p, Nearest(b, p))

\* ... then the nearest, if it is near enough ...
LookupNear(k, b, p) ==
    /\ p \notin DOMAIN exact[b] /\ BestScore(b, p) >= Threshold
    /\ RecordHit(k, b, p, Nearest(b, p))

\* ... or a miss: the model is asked.
LookupMiss(k, b, p) ==
    /\ p \notin DOMAIN exact[b] /\ BestScore(b, p) < Threshold
    /\ Asks(k, b, p, "model", NoAnswer)
    /\ Counts("misses")
    /\ UNCHANGED <<entries, exact, nextId, lastUse>>

\* The model's client raises, and so does complete.
ModelRaises(k) ==
    /\ client[k].at = "model"
    /\ client' = [client EXCEPT ![k].at = "raised"]
    /\ UNCHANGED <<entries, exact, nextId, stats, lastUse>>

-----------------------------------------------------------------------------
(* store.                                                                  *)

Made(k) == [bank |-> client[k].bank, prompt |-> client[k].prompt, by |-> k]

Stores(k) ==
    /\ client[k].at = "model"
    /\ client' = [client EXCEPT ![k].at = "stored", ![k].answer = Made(k)]
    /\ Used(client[k].bank, client[k].prompt)

\* Another client stored the prompt meanwhile: its entry gets the newer answer.
StoreRefresh(k) ==
    LET b == client[k].bank
        p == client[k].prompt
    IN  /\ Stores(k)
        /\ p \in DOMAIN exact[b]
        /\ \E i \in DOMAIN entries[b] :
              LET e == entries[b][i]
              IN  /\ e.id = exact[b][p]
                  /\ entries' = [entries EXCEPT ![b] =
                                    Append(RemoveAt(@, i), [e EXCEPT !.answer = Made(k)])]
        /\ Counts("stores")
        /\ UNCHANGED <<exact, nextId>>

\* Mutant of Unindexed: the evicted entry stays in the index.
UnindexedNot(index, gone) == index

\* The index without the entries that are gone.
Unindexed(index, gone) ==
    [p \in {q \in DOMAIN index : \A e \in gone : ~(e.prompt = q /\ e.id = index[q])} |-> index[p]]

\* A new entry, at the end; the least recently used make room.
StoreNew(k) ==
    LET b == client[k].bank
        p == client[k].prompt
        long == Append(entries[b], [id |-> nextId, prompt |-> p, answer |-> Made(k)])
        excess == IF Len(long) > MaxEntries THEN Len(long) - MaxEntries ELSE 0
        index == [q \in DOMAIN exact[b] \cup {p} |-> IF q = p THEN nextId ELSE exact[b][q]]
    IN  /\ Stores(k)
        /\ p \notin DOMAIN exact[b]
        /\ nextId' = nextId + 1
        /\ entries' = [entries EXCEPT ![b] = SubSeq(long, excess + 1, Len(long))]
        /\ exact' = [exact EXCEPT ![b] = Unindexed(index, Range(SubSeq(long, 1, excess)))]
        /\ stats' = [stats EXCEPT !["stores"] = @ + 1, !["evictions"] = @ + excess]

CacheNext ==
    \E k \in Clients :
        \/ \E b \in Banks, p \in Prompts :
              LookupExact(k, b, p) \/ LookupNear(k, b, p) \/ LookupMiss(k, b, p)
        \/ ModelRaises(k) \/ StoreRefresh(k) \/ StoreNew(k)

CacheSpec == CacheInit /\ [][CacheNext]_cacheVars

-----------------------------------------------------------------------------
(* What the cache promises.                                                *)

CacheTypeOK ==
    /\ entries \in [Banks -> Seq(Entries)]
    /\ \A b \in Banks : DOMAIN exact[b] \subseteq Prompts
    /\ nextId \in Nat
    /\ stats \in [Counters -> Nat]
    /\ \A k \in Clients :
          client[k].at \in {"new", "hit", "model", "raised", "stored"}
    /\ lastUse \in [Banks -> Seq(Prompts)]

\* The index and the store are in step: an index entry left behind names a row that
\* is gone, a row left out is stored a second time.
IndexMatchesStore ==
    /\ CacheTypeOK
    /\ \A b \in Banks :
          /\ Len(entries[b]) <= MaxEntries
          /\ \A i, j \in DOMAIN entries[b] :
                entries[b][i].prompt = entries[b][j].prompt => i = j
          /\ DOMAIN exact[b] = Prompted(b)
          /\ \A e \in Range(entries[b]) : exact[b][e.prompt] = e.id /\ e.id < nextId

\* A tenant's answer was made for that tenant, for the same prompt or for one at least
\* as near as the threshold, and has the answer to its own entry's prompt: "Bank A's
\* cached answer is NEVER returned for Bank B".
AnswersAreOwn ==
    /\ \A k \in Clients : client[k].at \in {"hit", "stored"} =>
          LET a == client[k].answer
          IN  /\ a.bank = client[k].bank
              /\ \/ a.prompt = client[k].prompt
                 \/ Near[client[k].prompt][a.prompt] >= Threshold
    /\ \A b \in Banks : \A e \in Range(entries[b]) :
          e.answer.bank = b /\ e.answer.prompt = e.prompt

\* A namespace holds the prompts used last, as many as it may, in the order of their
\* use: what is evicted is the least recently used, and each tenant has "its own
\* eviction budget".  Nothing is lost but by eviction.
LruKept ==
    /\ \A b \in Banks :
          LET kept == [i \in DOMAIN entries[b] |-> entries[b][i].prompt]
          IN  /\ IsSuffix(kept, lastUse[b])
              /\ Len(kept) = Min({MaxEntries, Len(lastUse[b])})
    /\ nextId - stats["evictions"] =
          Cardinality(UNION {{b} \X IdsOf(entries[b]) : b \in Banks})

\* Eviction takes the right entry, and the whole of it.
EvictsInStep == IndexMatchesStore /\ LruKept
=============================================================================
