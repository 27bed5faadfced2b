------------------------- MODULE EventIngestionProofs -------------------------
(***************************************************************************)
(* Proofs about POST /events, for any number of requests, identities,      *)
(* customers and keys, with either repository and with restarts.  First    *)
(* what one step of linking does: it keeps every link, and it keeps the    *)
(* invariant of every request, the one that moves and those that look on.  *)
(***************************************************************************)
EXTENDS EventIngestion, ListLemmas


\* at has a label for each request.
LinkPlaces == DOMAIN at = Requests

-----------------------------------------------------------------------------
(* What a step does to the requests.                                       *)

\* Request r goes from one place to another, now with customer c and the hints
\* todo; its arguments and the other requests stay as they are.
Moves(r, from, to, c, todo) ==
    /\ at[r] = from /\ at'[r] = to
    /\ DOMAIN at' = Requests
    /\ work' \in [Requests -> Work]
    /\ work'[r].asked = work[r].asked /\ work'[r].hints = work[r].hints
    /\ work'[r].cust = c /\ work'[r].todo = todo
    /\ \A q \in Requests \ {r} : at'[q] = at[q] /\ work'[q] = work[q]

\* The fields of the work of a request, typed.
LEMMA WorkFields ==
    ASSUME LinkTypeOK, NEW r \in Requests
    PROVE  /\ work[r] \in Work
           /\ work[r].asked \in CustomerIds \cup {UnknownId, NoCustomer}
           /\ work[r].hints \in Seq(Identities)
           /\ work[r].todo \in Seq(Identities)
           /\ work[r].cust \in CustomerIds \cup {NoCustomer}
BY DEF LinkTypeOK, Work

\* A step that gives a request new local variables.
LEMMA SetWorkMoves ==
    ASSUME LinkTypeOK, LinkPlaces, NEW r \in Requests, NEW w \in Work,
           NEW from, NEW to, Step(r, from, to), SetWork(r, w),
           w.asked = work[r].asked, w.hints = work[r].hints
    PROVE  Moves(r, from, to, w.cust, w.todo)
<1>1. work' \in [Requests -> Work] /\ work'[r] = w
  BY DEF SetWork, LinkTypeOK
<1>2. \A q \in Requests \ {r} : work'[q] = work[q] /\ at'[q] = at[q]
  BY DEF SetWork, Step, LinkTypeOK, LinkPlaces
<1>3. at[r] = from /\ at'[r] = to /\ DOMAIN at' = Requests
  BY DEF Step, LinkPlaces
<1>4. QED BY <1>1, <1>2, <1>3 DEF Moves

\* A step that gives it none.
LEMMA WaitMoves ==
    ASSUME LinkTypeOK, LinkPlaces, NEW r \in Requests, NEW from, NEW to,
           Step(r, from, to), UNCHANGED work
    PROVE  Moves(r, from, to, work[r].cust, work[r].todo)
BY DEF Step, LinkPlaces, LinkTypeOK, Moves

\* Going over to attaching sets the customer and the hints to do.
LEMMA AttachToMoves ==
    ASSUME LinkTypeOK, LinkPlaces, NEW r \in Requests, NEW from, NEW to,
           NEW c \in CustomerIds, NEW todo \in Seq(Identities),
           Step(r, from, to), AttachTo(r, c, todo)
    PROVE  Moves(r, from, to, c, todo)
<1> DEFINE w1 == [work[r] EXCEPT !.cust = c]
           w2 == [w1 EXCEPT !.todo = todo]
<1>1. w1 \in Work /\ w1.asked = work[r].asked /\ w1.hints = work[r].hints /\ w1.cust = c
  BY WorkFields DEF Work
<1> HIDE DEF w1
<1>2. /\ w2 \in Work /\ w2.asked = w1.asked /\ w2.hints = w1.hints
      /\ w2.cust = w1.cust /\ w2.todo = todo
  BY <1>1 DEF Work
<1>3. SetWork(r, w2)
  BY DEF AttachTo, w1
<1> HIDE DEF w2
<1>4. QED BY <1>1, <1>2, <1>3, SetWorkMoves

\* A walk that goes on sets the hints to do only.
LEMMA TodoMoves ==
    ASSUME LinkTypeOK, LinkPlaces, NEW r \in Requests, NEW from, NEW to,
           NEW todo \in Seq(Identities),
           Step(r, from, to), SetWork(r, [work[r] EXCEPT !.todo = todo])
    PROVE  Moves(r, from, to, work[r].cust, todo)
<1> DEFINE w == [work[r] EXCEPT !.todo = todo]
<1>1. /\ w \in Work /\ w.asked = work[r].asked /\ w.hints = work[r].hints
      /\ w.cust = work[r].cust /\ w.todo = todo
  BY WorkFields DEF Work
<1> HIDE DEF w
<1>2. SetWork(r, w)
  BY DEF w
<1>3. QED BY <1>1, <1>2, SetWorkMoves

\* Attaching one hint takes it off those to do.
LEMMA AttachedMoves ==
    ASSUME LinkTypeOK, LinkPlaces, NEW r \in Requests, NEW from, NEW to,
           NEW h \in Identities, NEW new \in BOOLEAN, work[r].todo # <<>>,
           Step(r, from, to), Attached(r, h, new)
    PROVE  Moves(r, from, to, work[r].cust, Tail(work[r].todo))
<1> DEFINE added == IF new THEN work[r].added \cup {h} ELSE work[r].added
           w1 == [work[r] EXCEPT !.todo = Tail(work[r].todo)]
           w2 == [w1 EXCEPT !.added = added]
<1>1. Tail(work[r].todo) \in Seq(Identities)
  BY WorkFields, HeadTailRange
<1>2. added \in SUBSET Identities
  BY WorkFields DEF Work
<1> HIDE DEF added
<1>3. /\ w1 \in Work /\ w1.asked = work[r].asked /\ w1.hints = work[r].hints
      /\ w1.cust = work[r].cust /\ w1.todo = Tail(work[r].todo)
  BY <1>1, WorkFields DEF Work
<1>4. SetWork(r, w2)
  BY WorkFields DEF Attached, added, Work
<1> HIDE DEF w1
<1>5. /\ w2 \in Work /\ w2.asked = w1.asked /\ w2.hints = w1.hints
      /\ w2.cust = w1.cust /\ w2.todo = w1.todo
  BY <1>2, <1>3 DEF Work
<1> HIDE DEF w2
<1>6. QED BY <1>3, <1>4, <1>5, SetWorkMoves

\* The new customer's request has everything attached already.
LEMMA CreateMoves ==
    ASSUME LinkTypeOK, LinkPlaces, NEW r \in Requests, NEW from, NEW to,
           NEW c \in CustomerIds, Step(r, from, to),
           SetWork(r, [work[r] EXCEPT !.cust = c, !.made = TRUE,
                                      !.added = Range(work[r].hints)])
    PROVE  Moves(r, from, to, c, work[r].todo)
<1> DEFINE added == Range(work[r].hints)
           w1 == [work[r] EXCEPT !.cust = c]
           w2 == [w1 EXCEPT !.made = TRUE]
           w3 == [w2 EXCEPT !.added = added]
<1>1. added \in SUBSET Identities
  BY WorkFields, RangeEquality, ElementOfSeq
<1>2. SetWork(r, w3)
  OBVIOUS
<1> HIDE DEF added
<1>3. /\ w1 \in Work /\ w1.asked = work[r].asked /\ w1.hints = work[r].hints
      /\ w1.cust = c /\ w1.todo = work[r].todo
  BY WorkFields DEF Work
<1> HIDE DEF w1
<1>4. /\ w2 \in Work /\ w2.asked = w1.asked /\ w2.hints = w1.hints
      /\ w2.cust = w1.cust /\ w2.todo = w1.todo
  BY <1>3 DEF Work
<1> HIDE DEF w2
<1>5. /\ w3 \in Work /\ w3.asked = w2.asked /\ w3.hints = w2.hints
      /\ w3.cust = w2.cust /\ w3.todo = w2.todo
  BY <1>1, <1>4 DEF Work
<1> HIDE DEF w3
<1>6. QED BY <1>2, <1>3, <1>4, <1>5, SetWorkMoves

-----------------------------------------------------------------------------
(* What a step does to the repository.                                     *)

\* The repository has been written to without harm: nothing was unlinked or
\* relinked, and what is linked is linked to a customer there is.
Grows ==
    /\ store' = store /\ store' \in Stores
    /\ customers \subseteq customers' /\ customers' \subseteq CustomerIds
    /\ DOMAIN owner' \subseteq Identities
    /\ \A h \in DOMAIN owner' : owner'[h] \in customers'
    /\ OwnersStay

\* A call that writes nothing loses no link.
LEMMA NoWriteGrows ==
    ASSUME LinkTypeOK, NoWrite
    PROVE  Grows
BY DEF NoWrite, Grows, LinkTypeOK, OwnersStay

\* A link inserted where none was loses no other.
LEMMA InsertGrows ==
    ASSUME LinkTypeOK, NEW r \in Requests, NEW h \in Identities, ~Known(h),
           work[r].cust \in customers, InsertIdentity(r, h)
    PROVE  Grows /\ h \in DOMAIN owner' /\ owner'[h] = work[r].cust
<1>1. /\ DOMAIN owner' = DOMAIN owner \cup {h}
      /\ owner'[h] = work[r].cust
      /\ \A g \in DOMAIN owner : owner'[g] = owner[g]
  BY DEF InsertIdentity, Known
<1>2. store' = store /\ customers' = customers
  BY DEF InsertIdentity
<1>3. QED BY <1>1, <1>2 DEF Grows, LinkTypeOK, OwnersStay

\* create_customer links what is free.
LEMMA CreateGrows ==
    ASSUME LinkTypeOK, NEW new \in SUBSET Identities, NEW c \in CustomerIds,
           \A h \in new : ~Known(h),
           store' = store, customers' = customers \cup {c},
           owner' = [h \in DOMAIN owner \cup new |-> IF Known(h) THEN owner[h] ELSE c]
    PROVE  Grows /\ \A h \in new : h \in DOMAIN owner' /\ owner'[h] = c
<1>1. /\ DOMAIN owner' = DOMAIN owner \cup new
      /\ \A h \in DOMAIN owner : owner'[h] = owner[h]
      /\ \A h \in new : owner'[h] = c
  BY DEF Known
<1>2. QED BY <1>1 DEF Grows, LinkTypeOK, OwnersStay

-----------------------------------------------------------------------------
(* The requests that look on.                                              *)

\* Links only come: what a request knows of them stays true.
LEMMA OthersKeepInv ==
    ASSUME NEW q \in Requests, Grows, at'[q] = at[q], work'[q] = work[q],
           RequestInv(q)
    PROVE  RequestInv(q)'
<1>1. \A h : Known(h) => Known(h)' /\ owner'[h] = owner[h]
  BY DEF Grows, OwnersStay, Known
<1>2. \A h : Owns(work[q].cust, h) => Owns(work[q].cust, h)'
  BY <1>1 DEF Owns
<1>3. Attaching(q)' = Attaching(q)
  BY DEF Attaching
<1>4. Vouched(q) => Vouched(q)'
  BY <1>2 DEF Vouched
<1>5. Conflict(q) => Conflict(q)'
  BY <1>1 DEF Conflict
<1>6. customers \subseteq customers' /\ store' = store
  BY DEF Grows
<1>7. QED BY <1>1, <1>2, <1>3, <1>4, <1>5, <1>6 DEF RequestInv

-----------------------------------------------------------------------------
(* The request that moves: what it must bring to each place.               *)

\* A hint is linked to c after the step.
OwnsNext(c, h) == h \in DOMAIN owner' /\ owner'[h] = c

\* What a request needs to begin attaching: a customer that exists and a reason for
\* it.
LEMMA MovedToAttach ==
    ASSUME NEW r \in Requests, RequestInv(r), NEW from, NEW c, NEW todo,
           Moves(r, from, "attach", c, todo),
           c \in customers',
           Range(todo) \subseteq Range(work[r].hints),
           \A h \in Range(work[r].hints) : h \in Range(todo) \/ OwnsNext(c, h),
           \/ work[r].asked # NoCustomer /\ c = work[r].asked
           \/ \E h \in Range(work[r].hints) : OwnsNext(c, h)
           \/ todo = <<>>
    PROVE  RequestInv(r)'
<1>1. /\ work'[r].asked = work[r].asked /\ work'[r].hints = work[r].hints
      /\ work'[r].cust = c /\ work'[r].todo = todo /\ at'[r] = "attach"
  BY DEF Moves
<1>2. IsInjective(work[r].hints)
  BY DEF RequestInv
<1>3. \A h : Owns(work[r].cust, h)' <=> OwnsNext(c, h)
  BY <1>1 DEF Owns, Known, OwnsNext
<1>4. Vouched(r)'
  BY <1>1, <1>3 DEF Vouched
<1>5. QED BY <1>1, <1>2, <1>3, <1>4 DEF RequestInv, Attaching

\* Going on to add the hint that was found free.
LEMMA MovedToAdd ==
    ASSUME NEW r \in Requests, RequestInv(r), Attaching(r), Grows,
           NEW from, NEW to \in {"add", "insert"},
           Moves(r, from, to, work[r].cust, work[r].todo),
           work[r].todo # <<>>, to = "insert" => store = "postgres"
    PROVE  RequestInv(r)'
<1>1. /\ work'[r].asked = work[r].asked /\ work'[r].hints = work[r].hints
      /\ work'[r].cust = work[r].cust /\ work'[r].todo = work[r].todo /\ at'[r] = to
  BY DEF Moves
<1>2. /\ IsInjective(work[r].hints)
      /\ Range(work[r].todo) \subseteq Range(work[r].hints)
      /\ work[r].cust \in customers
      /\ \A h \in Range(work[r].hints) : h \in Range(work[r].todo) \/ Owns(work[r].cust, h)
      /\ Vouched(r)
  BY DEF RequestInv
<1>3. \A h : Owns(work[r].cust, h) => Owns(work[r].cust, h)'
  BY <1>1 DEF Grows, OwnersStay, Owns, Known
<1>4. Vouched(r)'
  BY <1>1, <1>2, <1>3 DEF Vouched
<1>5. customers \subseteq customers' /\ store' = store
  BY DEF Grows
<1>6. QED BY <1>1, <1>2, <1>3, <1>4, <1>5 DEF RequestInv

\* The priority walk.
LEMMA MovedToWalk ==
    ASSUME NEW r \in Requests, RequestInv(r), NEW from, NEW c, NEW todo,
           NEW to \in {"given", "find", "refind"}, Moves(r, from, to, c, todo),
           Range(todo) \subseteq Range(work[r].hints),
           to = "refind" => \E h \in Range(todo) : h \in DOMAIN owner'
    PROVE  RequestInv(r)'
<1>1. /\ work'[r].hints = work[r].hints /\ work'[r].todo = todo /\ at'[r] = to
  BY DEF Moves
<1>2. IsInjective(work[r].hints)
  BY DEF RequestInv
<1>3. QED BY <1>1, <1>2 DEF RequestInv, Attaching, Known

\* The two failures.
LEMMA MovedToFailure ==
    ASSUME NEW r \in Requests, RequestInv(r), NEW from, NEW c,
           NEW to \in {"unknown", "collision"}, Moves(r, from, to, c, work[r].todo),
           to = "collision" /\ store' = "memory" => Conflict(r)'
    PROVE  RequestInv(r)'
<1>1. /\ work'[r].hints = work[r].hints /\ work'[r].todo = work[r].todo /\ at'[r] = to
  BY DEF Moves
<1>2. IsInjective(work[r].hints) /\ Range(work[r].todo) \subseteq Range(work[r].hints)
  BY DEF RequestInv
<1>3. QED BY <1>1, <1>2 DEF RequestInv, Attaching

\* A taken hint is a real conflict: the request is vouched for by its customer_id
\* or by a hint of its customer, and the taken one is another's.
LEMMA TakenIsConflict ==
    ASSUME LinkTypeOK, NEW r \in Requests, RequestInv(r), Attaching(r),
           work[r].todo # <<>>, Known(Head(work[r].todo)),
           owner[Head(work[r].todo)] # work[r].cust
    PROVE  Conflict(r)
<1>1. Head(work[r].todo) \in Range(work[r].hints)
  BY WorkFields, HeadTailRange DEF RequestInv
<1>2. Vouched(r)
  BY DEF RequestInv
<1>3. CASE work[r].asked # NoCustomer /\ work[r].cust = work[r].asked
  BY <1>1, <1>3 DEF Conflict
<1>4. CASE \E g \in Range(work[r].hints) : Owns(work[r].cust, g)
  BY <1>1, <1>4 DEF Conflict, Owns
<1>5. QED BY <1>2, <1>3, <1>4 DEF Vouched

\* Hints that name two customers go on naming them, for links only come.
LEMMA ConflictStays ==
    ASSUME NEW r \in Requests, Conflict(r), Grows,
           work'[r].hints = work[r].hints, work'[r].asked = work[r].asked
    PROVE  Conflict(r)'
BY DEF Conflict, Grows, OwnersStay, Known

-----------------------------------------------------------------------------
(* Step by step.                                                           *)

\* Before a step of request r, and after it.
Ready(r) == LinkTypeOK /\ LinkPlaces /\ RequestInv(r)

OnlyMoves(r) ==
    /\ DOMAIN at' = Requests
    /\ work' \in [Requests -> Work]
    /\ work'[r].asked = work[r].asked /\ work'[r].hints = work[r].hints
    /\ \A q \in Requests \ {r} : at'[q] = at[q] /\ work'[q] = work[q]

Safe(r) == Grows /\ OnlyMoves(r) /\ RequestInv(r)'

\* A step that keeps a request's own promise and loses no link is safe.
LEMMA SafeStep ==
    ASSUME NEW r \in Requests, NEW from, NEW to, NEW c, NEW todo,
           Moves(r, from, to, c, todo), Grows, RequestInv(r)'
    PROVE  Safe(r)
BY DEF Moves, Safe, OnlyMoves

\* Looking up a customer_id of the payload is safe.
LEMMA GivenSafe ==
    ASSUME NEW r \in Requests, Ready(r), GivenKnown(r) \/ GivenUnknown(r)
    PROVE  Safe(r)
<1>1. Grows
  BY NoWriteGrows DEF Ready, GivenKnown, GivenUnknown
<1>2. CASE GivenKnown(r)
  <2> DEFINE c == work[r].asked
             todo == work[r].hints
  <2>1. c \in customers /\ c \in CustomerIds /\ c # NoCustomer
    BY <1>2, LinkingAssumption DEF GivenKnown, Ready, LinkTypeOK
  <2>2. Moves(r, "given", "attach", c, todo)
    BY <1>2, <2>1, WorkFields, AttachToMoves DEF GivenKnown, Ready
  <2>3. c \in customers'
    BY <1>1, <2>1 DEF Grows
  <2>4. RequestInv(r)'
    BY <2>1, <2>2, <2>3, MovedToAttach DEF Ready
  <2>5. QED BY <1>1, <2>2, <2>4, SafeStep
<1>3. CASE GivenUnknown(r)
  <2>1. Moves(r, "given", "unknown", work[r].cust, work[r].todo)
    BY <1>3, WaitMoves DEF GivenUnknown, Ready
  <2>2. RequestInv(r)'
    BY <2>1, MovedToFailure DEF Ready
  <2>3. QED BY <1>1, <2>1, <2>2, SafeStep
<1>4. QED BY <1>2, <1>3

\* The hint that matches is attached already; the others remain.
LEMMA FindHitSafe ==
    ASSUME NEW r \in Requests, NEW walk \in {"find", "refind"}, Ready(r), FindHit(r, walk)
    PROVE  Safe(r)
<1> DEFINE h == Head(work[r].todo)
           todo == RemoveFirst(work[r].hints, h)
<1>1. Grows
  BY NoWriteGrows DEF Ready, FindHit
<1>2. h \in Range(work[r].hints) /\ Known(h)
  <2>1. h \in Range(work[r].todo)
    BY WorkFields, HeadTailRange DEF Ready, FindHit
  <2>2. QED BY <2>1 DEF Ready, RequestInv, FindHit
<1>3. owner[h] \in customers /\ owner[h] \in CustomerIds
  BY <1>2 DEF Ready, LinkTypeOK, Known
<1>4. todo \in Seq(Identities) /\ Range(todo) = Range(work[r].hints) \ {h}
  BY WorkFields, RemovalRange DEF Ready, RequestInv
<1>5. Step(r, walk, "attach") /\ AttachTo(r, owner[h], todo)
  BY DEF FindHit
<1> HIDE DEF h, todo
<1>6. Moves(r, walk, "attach", owner[h], todo)
  BY <1>3, <1>4, <1>5, AttachToMoves DEF Ready
<1>7. OwnsNext(owner[h], h) /\ owner[h] \in customers'
  BY <1>1, <1>2, <1>3 DEF Grows, OwnersStay, OwnsNext, Known
<1>8. RequestInv(r)'
  BY <1>2, <1>4, <1>6, <1>7, MovedToAttach DEF Ready
<1>9. QED BY <1>1, <1>6, <1>8, SafeStep

\* A miss leaves the walk the hints after it; the second walk's known hint is
\* among them.
LEMMA FindMissSafe ==
    ASSUME NEW r \in Requests, NEW walk \in {"find", "refind"}, Ready(r), FindMiss(r, walk)
    PROVE  Safe(r)
<1> DEFINE h == Head(work[r].todo)
           todo == Tail(work[r].todo)
<1>1. Grows
  BY NoWriteGrows DEF Ready, FindMiss
<1>2. /\ todo \in Seq(Identities)
      /\ Range(work[r].todo) = {h} \cup Range(todo)
  BY WorkFields, HeadTailRange DEF Ready, FindMiss
<1>3. Range(todo) \subseteq Range(work[r].hints)
  BY <1>2 DEF Ready, RequestInv
<1>4. Moves(r, walk, walk, work[r].cust, todo)
  <2>1. SetWork(r, [work[r] EXCEPT !.todo = todo])
    BY WorkFields DEF FindMiss, Ready, Work
  <2>2. QED BY <1>2, <2>1, TodoMoves DEF FindMiss, Ready
<1>5. walk = "refind" => \E g \in Range(todo) : g \in DOMAIN owner'
  <2>1. SUFFICES ASSUME walk = "refind"
                 PROVE  \E g \in Range(todo) : g \in DOMAIN owner'
    OBVIOUS
  <2>2. PICK g \in Range(work[r].todo) : Known(g)
    BY <2>1 DEF FindMiss, Step, Ready, RequestInv
  <2>3. g \in Range(todo)
    BY <1>2, <2>2 DEF FindMiss
  <2>4. g \in DOMAIN owner'
    BY <1>1, <2>2 DEF Grows, OwnersStay, Known
  <2>5. QED BY <2>3, <2>4
<1> HIDE DEF h, todo
<1>6. RequestInv(r)'
  BY <1>3, <1>4, <1>5, MovedToWalk DEF Ready
<1>7. QED BY <1>1, <1>4, <1>6, SafeStep

\* Creating a customer with the hints is safe.
LEMMA CreateSafe ==
    ASSUME NEW r \in Requests, Ready(r), Create(r)
    PROVE  Safe(r)
<1> DEFINE new == Range(work[r].hints)
<1>1. PICK c \in CustomerIds \ customers :
          /\ customers' = customers \cup {c}
          /\ owner' = [h \in DOMAIN owner \cup new |-> IF Known(h) THEN owner[h] ELSE c]
          /\ SetWork(r, [work[r] EXCEPT !.cust = c, !.made = TRUE, !.added = new])
  BY DEF Create
<1>2. Moves(r, "find", "attach", c, work[r].todo)
  BY <1>1, CreateMoves DEF Create, Ready
<1>3. new \in SUBSET Identities
  BY WorkFields, RangeEquality, ElementOfSeq DEF Ready
<1>4. (\A h \in new : ~Known(h)) /\ store' = store /\ work[r].todo = <<>>
  BY DEF Create
<1> HIDE DEF new
<1>5. Grows /\ \A h \in new : h \in DOMAIN owner' /\ owner'[h] = c
  BY <1>1, <1>3, <1>4, CreateGrows DEF Ready
<1>6. RequestInv(r)'
  <2>1. c \in customers'
    BY <1>1
  <2>2. \A h \in Range(work[r].hints) : OwnsNext(c, h)
    BY <1>5 DEF OwnsNext, new
  <2>3. Range(work[r].todo) \subseteq Range(work[r].hints)
    BY DEF Ready, RequestInv
  <2>4. QED BY <1>2, <1>4, <2>1, <2>2, <2>3, MovedToAttach DEF Ready
<1>7. QED BY <1>2, <1>5, <1>6, SafeStep

\* Who lost the create race walks again over hints one of which is linked.
LEMMA CreateLostSafe ==
    ASSUME NEW r \in Requests, Ready(r), CreateLost(r)
    PROVE  Safe(r)
<1>1. Grows
  BY NoWriteGrows DEF Ready, CreateLost
<1>2. Moves(r, "find", "refind", work[r].cust, work[r].hints)
  BY WorkFields, TodoMoves DEF CreateLost, Ready
<1>3. \E h \in Range(work[r].hints) : h \in DOMAIN owner'
  BY <1>1 DEF CreateLost, Grows, OwnersStay, Known
<1>4. RequestInv(r)'
  BY <1>2, <1>3, MovedToWalk DEF Ready
<1>5. QED BY <1>1, <1>2, <1>4, SafeStep

\* What attaching has done so far.
LEMMA AttachingFacts ==
    ASSUME NEW r \in Requests, Ready(r), Attaching(r), work[r].todo # <<>>
    PROVE  /\ Head(work[r].todo) \in Identities
           /\ Tail(work[r].todo) \in Seq(Identities)
           /\ Range(work[r].todo) = {Head(work[r].todo)} \cup Range(Tail(work[r].todo))
           /\ Range(work[r].todo) \subseteq Range(work[r].hints)
           /\ work[r].cust \in customers
           /\ \A h \in Range(work[r].hints) : h \in Range(work[r].todo) \/ Owns(work[r].cust, h)
BY WorkFields, HeadTailRange DEF Ready, RequestInv

\* One more hint is its customer's, and is done.
LEMMA AttachedSafe ==
    ASSUME NEW r \in Requests, Ready(r), Attaching(r), work[r].todo # <<>>, Grows,
           NEW from, Moves(r, from, "attach", work[r].cust, Tail(work[r].todo)),
           OwnsNext(work[r].cust, Head(work[r].todo))
    PROVE  Safe(r)
<1> DEFINE c == work[r].cust
           h == Head(work[r].todo)
           todo == Tail(work[r].todo)
<1>1. /\ Range(work[r].todo) = {h} \cup Range(todo)
      /\ Range(work[r].todo) \subseteq Range(work[r].hints)
      /\ c \in customers'
      /\ \A g \in Range(work[r].hints) : g \in Range(work[r].todo) \/ Owns(c, g)
  BY AttachingFacts DEF Grows
<1>2. \A g : Owns(c, g) => OwnsNext(c, g)
  BY DEF Grows, OwnersStay, Owns, Known, OwnsNext
<1> HIDE DEF c, h, todo
<1>3. OwnsNext(c, h) /\ Moves(r, from, "attach", c, todo)
  BY DEF c, h, todo
<1>4. RequestInv(r)'
  BY <1>1, <1>2, <1>3, MovedToAttach DEF Ready
<1>5. QED BY <1>3, <1>4, SafeStep

\* A hint that is the customer's already is passed over safely.
LEMMA AttachOwnSafe ==
    ASSUME NEW r \in Requests, Ready(r), AttachOwn(r) \/ AddOwn(r)
    PROVE  Safe(r)
<1> DEFINE h == Head(work[r].todo)
<1>1. /\ Attaching(r) /\ work[r].todo # <<>>
      /\ Known(h) /\ owner[h] = work[r].cust
      /\ NoWrite
      /\ \E from : Step(r, from, "attach")
      /\ \E new \in BOOLEAN : Attached(r, h, new)
  BY DEF AttachOwn, AddOwn, Attaching, Step, Ready, RequestInv
<1>2. Grows
  BY <1>1, NoWriteGrows DEF Ready
<1>3. h \in Identities
  BY <1>1, AttachingFacts
<1> HIDE DEF h
<1>4. \E from : Moves(r, from, "attach", work[r].cust, Tail(work[r].todo))
  BY <1>1, <1>3, AttachedMoves DEF Ready
<1>5. OwnsNext(work[r].cust, h)
  BY <1>1, <1>2 DEF Grows, OwnersStay, Known, OwnsNext
<1>6. QED BY <1>1, <1>2, <1>4, <1>5, AttachedSafe DEF h

\* The hint is free, and is inserted.
LEMMA InsertSafe ==
    ASSUME NEW r \in Requests, Ready(r), Attaching(r), work[r].todo # <<>>,
           ~Known(Head(work[r].todo)), InsertIdentity(r, Head(work[r].todo)),
           NEW from, Step(r, from, "attach")
    PROVE  Safe(r)
<1> DEFINE h == Head(work[r].todo)
<1>1. h \in Identities /\ work[r].cust \in customers
  BY AttachingFacts
<1>2. ~Known(h) /\ InsertIdentity(r, h)
  OBVIOUS
<1> HIDE DEF h
<1>3. Grows /\ OwnsNext(work[r].cust, h)
  BY <1>1, <1>2, InsertGrows DEF Ready, OwnsNext
<1>4. Moves(r, from, "attach", work[r].cust, Tail(work[r].todo))
  BY <1>1, <1>2, AttachedMoves DEF Ready, InsertIdentity
<1>5. QED BY <1>3, <1>4, AttachedSafe DEF h

\* Going on to the next call, with nothing changed.
LEMMA WaitSafe ==
    ASSUME NEW r \in Requests, Ready(r), Attaching(r), work[r].todo # <<>>,
           NEW from, NEW to \in {"add", "insert"}, Step(r, from, to),
           UNCHANGED work, NoWrite, to = "insert" => store = "postgres"
    PROVE  Safe(r)
<1>1. Grows
  BY NoWriteGrows DEF Ready
<1>2. Moves(r, from, to, work[r].cust, work[r].todo)
  BY WaitMoves DEF Ready
<1>3. RequestInv(r)'
  BY <1>1, <1>2, MovedToAdd DEF Ready
<1>4. QED BY <1>1, <1>2, <1>3, SafeStep

\* A collision in memory comes of a hint that is another customer's.
LEMMA CollisionSafe ==
    ASSUME NEW r \in Requests, Ready(r), NEW from, Step(r, from, "collision"),
           UNCHANGED work, NoWrite, store = "memory" => Conflict(r)
    PROVE  Safe(r)
<1>1. Grows
  BY NoWriteGrows DEF Ready
<1>2. Moves(r, from, "collision", work[r].cust, work[r].todo)
  BY WaitMoves DEF Ready
<1>3. store' = "memory" => Conflict(r)'
  BY <1>1, ConflictStays DEF Grows
<1>4. RequestInv(r)'
  BY <1>2, <1>3, MovedToFailure DEF Ready
<1>5. QED BY <1>1, <1>2, <1>4, SafeStep

\* A hint that is another customer's ends the request, with a conflict that is real.
LEMMA TakenSafe ==
    ASSUME NEW r \in Requests, Ready(r), AttachTaken(r) \/ AddTaken(r) \/ InsertTaken(r)
    PROVE  Safe(r)
<1>1. CASE AttachTaken(r) \/ AddTaken(r)
  <2>1. /\ Attaching(r) /\ work[r].todo # <<>>
        /\ Known(Head(work[r].todo)) /\ owner[Head(work[r].todo)] # work[r].cust
        /\ UNCHANGED work /\ NoWrite
        /\ \E from : Step(r, from, "collision")
    BY <1>1 DEF AttachTaken, AddTaken, Attaching, Step, Ready, RequestInv
  <2>2. Conflict(r)
    BY <2>1, TakenIsConflict DEF Ready
  <2>3. QED BY <2>1, <2>2, CollisionSafe
<1>2. CASE InsertTaken(r)
  <2>1. store = "postgres"
    BY <1>2 DEF InsertTaken, Step, Ready, RequestInv
  <2>2. QED BY <1>2, <2>1, CollisionSafe DEF InsertTaken
<1>3. QED BY <1>1, <1>2

\* Adding a hint nobody has is safe, in one statement or in two.
LEMMA AddSafe ==
    ASSUME NEW r \in Requests, Ready(r), AttachFree(r) \/ AddFree(r) \/ InsertFree(r)
    PROVE  Safe(r)
<1>1. Attaching(r) /\ work[r].todo # <<>> /\ ~Known(Head(work[r].todo))
  BY DEF AttachFree, AddFree, InsertFree, Attaching, Step, Ready, RequestInv
<1>2. CASE AttachFree(r)
  BY <1>1, <1>2, WaitSafe DEF AttachFree
<1>3. CASE AddFree(r)
  <2>1. CASE store = "memory" /\ Step(r, "add", "attach")
             /\ InsertIdentity(r, Head(work[r].todo))
    BY <1>1, <2>1, InsertSafe
  <2>2. CASE store = "postgres" /\ Step(r, "add", "insert") /\ UNCHANGED work /\ NoWrite
    BY <1>1, <2>2, WaitSafe
  <2>3. QED BY <1>3, <2>1, <2>2 DEF AddFree
<1>4. CASE InsertFree(r)
  BY <1>1, <1>4, InsertSafe DEF InsertFree
<1>5. QED BY <1>2, <1>3, <1>4

\* So every step of linking is.
LEMMA LinkStepSafe ==
    ASSUME NEW r \in Requests, Ready(r), LinkStep(r)
    PROVE  Safe(r)
BY GivenSafe, FindHitSafe, FindMissSafe, CreateSafe, CreateLostSafe, AttachOwnSafe,
   TakenSafe, AddSafe DEF LinkStep

\* A linking step keeps the linker's types, every link, and what every request
\* relies on: of the request that moves, and of those that look on.
LEMMA LinkStepKeepsInv ==
    ASSUME NEW r \in Requests, LinkTypeOK, LinkPlaces, LinkInv, LinkStep(r)
    PROVE  LinkTypeOK' /\ LinkPlaces' /\ LinkInv' /\ OwnersStay
<1>1. Safe(r)
  BY LinkStepSafe DEF Ready, LinkInv
<1>2. ASSUME NEW q \in Requests
      PROVE  RequestInv(q)'
  <2>1. CASE q = r
    BY <1>1, <2>1 DEF Safe
  <2>2. CASE q # r
    BY <1>1, <2>2, OthersKeepInv DEF Safe, OnlyMoves, LinkInv
  <2>3. QED BY <2>1, <2>2
<1>3. LinkTypeOK' /\ LinkPlaces'
  BY <1>1 DEF Safe, OnlyMoves, Grows, LinkTypeOK, LinkPlaces
<1>4. QED BY <1>1, <1>2, <1>3 DEF LinkInv, Safe, Grows


-----------------------------------------------------------------------------
(* The invariant.                                                          *)

\* The labels of a request that stored its event (and did not die of it).
StoreLabels == {"publish", "accepted", "bus_error"}

KeysGiven == \A r \in Requests : at[r] # "new" => key[r] \in Keys

\* A key's event was stored by one request: every other one found it there.
StoredByOne ==
    /\ \A r \in Requests : at[r] \in StoreLabels => Stored(key[r])
    /\ \A r, q \in Requests :
           at[r] \in StoreLabels /\ at[q] \in StoreLabels /\ key[r] = key[q] => r = q

PublishedByOne ==
    \A k \in Keys :
        published[k] = IF \E r \in Requests : at[r] = "accepted" /\ key[r] = k
                       THEN 1 ELSE 0

IngestInv ==
    /\ IngestTypeOK
    /\ LinkInv
    /\ KeysGiven
    /\ EventsLinked
    /\ StoredByOne
    /\ PublishedByOne

\* Before the first request the invariant holds.
LEMMA InitInv == IngestInit => IngestInv
<1> SUFFICES ASSUME IngestInit PROVE IngestInv
  OBVIOUS
<1>1. LinkTypeOK
  <2>1. <<>> \in Seq(Identities)
    OBVIOUS
  <2>2. NoWork \in Work
    BY <2>1 DEF NoWork, Work
  <2>3. QED BY <2>2 DEF IngestInit, LinkInit, LinkTypeOK, Stores
<1>2. IngestTypeOK
  BY <1>1 DEF IngestInit, IngestTypeOK
<1>3. ASSUME NEW r \in Requests
      PROVE  RequestInv(r)
  <2>1. at[r] = "new" /\ work[r].hints = <<>> /\ work[r].todo = <<>>
    BY DEF IngestInit, LinkInit, NoWork
  <2>2. IsInjective(<<>>)
    BY DEF IsInjective
  <2>3. QED BY <2>1, <2>2, EmptyRange DEF RequestInv, Attaching
<1>4. KeysGiven /\ EventsLinked /\ StoredByOne /\ PublishedByOne
  BY DEF IngestInit, KeysGiven, EventsLinked, StoredByOne, PublishedByOne, StoreLabels
<1>5. QED BY <1>2, <1>3, <1>4 DEF IngestInv, LinkInv

-----------------------------------------------------------------------------
(* Steps outside the linker.                                               *)

\* The places of a request under ingestion are those linking knows, seen by linking.
LEMMA PlacesTyped == IngestTypeOK => LinkTypeOK /\ LinkPlaces
BY DEF IngestTypeOK, LinkPlaces

\* A request that is not being linked relies only on its hints.
LEMMA RestsInv ==
    ASSUME NEW r \in Requests,
           at'[r] \notin {"refind", "attach", "add", "insert", "collision"},
           IsInjective(work'[r].hints), Range(work'[r].todo) \subseteq Range(work'[r].hints)
    PROVE  RequestInv(r)'
BY DEF RequestInv, Attaching

\* A step of one request out of the linker's reach.
LEMMA AsideKeepsLinkInv ==
    ASSUME IngestInv, NEW r \in Requests, NEW from, NEW to, Step(r, from, to),
           to \notin {"refind", "attach", "add", "insert", "collision"},
           UNCHANGED work, NoWrite
    PROVE  LinkTypeOK' /\ LinkInv' /\ OwnersStay
<1>1. LinkTypeOK /\ LinkPlaces
  BY PlacesTyped DEF IngestInv
<1>2. Grows
  BY <1>1, NoWriteGrows
<1>3. ASSUME NEW q \in Requests
      PROVE  RequestInv(q)'
  <2>1. RequestInv(q)
    BY DEF IngestInv, LinkInv
  <2>2. CASE q = r
    <3>1. at'[q] = to /\ work'[q] = work[q]
      BY <1>1, <2>2 DEF Step, LinkPlaces
    <3>2. IsInjective(work[q].hints) /\ Range(work[q].todo) \subseteq Range(work[q].hints)
      BY <2>1 DEF RequestInv
    <3>3. QED BY <3>1, <3>2, RestsInv
  <2>3. CASE q # r
    <3>1. at'[q] = at[q] /\ work'[q] = work[q]
      BY <1>1, <2>3 DEF Step, LinkPlaces
    <3>2. QED BY <1>2, <2>1, <3>1, OthersKeepInv
  <2>4. QED BY <2>2, <2>3
<1>4. LinkTypeOK'
  BY <1>1, <1>2 DEF LinkTypeOK, Grows
<1>5. QED BY <1>2, <1>3, <1>4 DEF LinkInv, Grows

\* Links only come, so what is stored stays linked.
LEMMA StoredStaysLinked ==
    ASSUME EventsLinked, OwnersStay, events' = events
    PROVE  EventsLinked'
BY DEF EventsLinked, OwnersStay, Known

\* A step that stores and publishes nothing.
LEMMA QuietKeepsStored ==
    ASSUME StoredByOne, PublishedByOne, UNCHANGED <<events, published>>,
           \A r \in Requests :
               /\ at'[r] \in StoreLabels => at[r] \in StoreLabels /\ key'[r] = key[r]
               /\ at'[r] = "accepted" <=> at[r] = "accepted"
    PROVE  StoredByOne' /\ PublishedByOne'
<1>1. StoredByOne'
  BY DEF StoredByOne, Stored
<1>2. \A k \in Keys : (\E r \in Requests : at'[r] = "accepted" /\ key'[r] = k)
                  <=> (\E r \in Requests : at[r] = "accepted" /\ key[r] = k)
  BY DEF StoreLabels
<1>3. PublishedByOne'
  BY <1>2 DEF PublishedByOne
<1>4. QED BY <1>1, <1>3

\* A step moves one request, to a place that exists.
LEMMA StepPlaces ==
    ASSUME IngestTypeOK, NEW r \in Requests, NEW from, NEW to, Step(r, from, to),
           to \in {"new"} \cup Unfinished \cup Answers
    PROVE  /\ at' \in [Requests -> {"new"} \cup Unfinished \cup Answers]
           /\ at[r] = from /\ at'[r] = to
           /\ \A q \in Requests \ {r} : at'[q] = at[q]
BY DEF Step, IngestTypeOK

\* The parts of the invariant that every step outside the store keeps.
LEMMA QuietKeepsInv ==
    ASSUME IngestInv, LinkTypeOK', LinkInv', OwnersStay,
           NEW r \in Requests, NEW from, NEW to, Step(r, from, to),
           from \notin StoreLabels \cup {"new"},
           to \in (Unfinished \cup Answers) \ StoreLabels,
           UNCHANGED ingestVars
    PROVE  IngestInv'
<1>1. UNCHANGED <<key, events, published>>
  BY DEF ingestVars
<1>2. /\ at' \in [Requests -> {"new"} \cup Unfinished \cup Answers]
      /\ at[r] = from /\ at'[r] = to
      /\ \A q \in Requests \ {r} : at'[q] = at[q]
  BY StepPlaces DEF IngestInv
<1>3. IngestTypeOK'
  BY <1>1, <1>2 DEF IngestInv, IngestTypeOK
<1>4. KeysGiven'
  BY <1>1, <1>2 DEF IngestInv, KeysGiven
<1>5. EventsLinked'
  BY <1>1, StoredStaysLinked DEF IngestInv
<1>6. \A q \in Requests :
          /\ at'[q] \in StoreLabels => at[q] \in StoreLabels /\ key'[q] = key[q]
          /\ at'[q] = "accepted" <=> at[q] = "accepted"
  BY <1>1, <1>2 DEF StoreLabels
<1>7. StoredByOne' /\ PublishedByOne'
  BY <1>1, <1>6, QuietKeepsStored DEF IngestInv
<1>8. QED BY <1>3, <1>4, <1>5, <1>7 DEF IngestInv

\* A linking step is one from a label of the linker to another or to a failure.
LEMMA LinkPlaceStep ==
    ASSUME NEW r \in Requests, LinkStep(r)
    PROVE  \E from \in LinkLabels, to \in LinkLabels \cup LinkFailures : Step(r, from, to)
<1>1. "given" \in LinkLabels /\ "find" \in LinkLabels /\ "refind" \in LinkLabels
      /\ "attach" \in LinkLabels /\ "add" \in LinkLabels /\ "insert" \in LinkLabels
      /\ "unknown" \in LinkFailures /\ "collision" \in LinkFailures
  BY DEF LinkLabels, LinkFailures
<1>2. CASE GivenKnown(r) \/ GivenUnknown(r)
  BY <1>1, <1>2 DEF GivenKnown, GivenUnknown
<1>3. CASE \E walk \in {"find", "refind"} : FindHit(r, walk) \/ FindMiss(r, walk)
  BY <1>1, <1>3 DEF FindHit, FindMiss
<1>4. CASE Create(r) \/ CreateLost(r)
  BY <1>1, <1>4 DEF Create, CreateLost
<1>5. CASE AttachTaken(r) \/ AttachOwn(r) \/ AttachFree(r)
  BY <1>1, <1>5 DEF AttachTaken, AttachOwn, AttachFree
<1>6. CASE AddFree(r) \/ AddOwn(r) \/ AddTaken(r)
  BY <1>1, <1>6 DEF AddFree, AddOwn, AddTaken
<1>7. CASE InsertFree(r) \/ InsertTaken(r)
  BY <1>1, <1>7 DEF InsertFree, InsertTaken
<1>8. QED BY <1>2, <1>3, <1>4, <1>5, <1>6, <1>7 DEF LinkStep

-----------------------------------------------------------------------------
(* Step by step.                                                           *)

\* A step of linking keeps the invariant and every link.
LEMMA LinkKeepsInv ==
    ASSUME IngestInv, NEW r \in Requests, Link(r)
    PROVE  IngestInv' /\ OwnersStay
<1>1. LinkTypeOK' /\ LinkInv' /\ OwnersStay
  BY PlacesTyped, LinkStepKeepsInv DEF Link, IngestInv
<1>2. PICK from \in LinkLabels, to \in LinkLabels \cup LinkFailures : Step(r, from, to)
  BY LinkPlaceStep DEF Link
<1>3. /\ from \notin StoreLabels \cup {"new"}
      /\ to \in (Unfinished \cup Answers) \ StoreLabels
  BY DEF LinkLabels, LinkFailures, StoreLabels, Unfinished, Answers
<1>4. IngestInv'
  BY <1>1, <1>2, <1>3, QuietKeepsInv DEF Link
<1>5. QED BY <1>1, <1>4

\* So do the replay check and an upsert that meets the event.
LEMMA CheckKeepsInv ==
    ASSUME IngestInv, NEW r \in Requests, CheckHit(r) \/ CheckMiss(r) \/ UpsertSeen(r)
    PROVE  IngestInv' /\ OwnersStay
<1>1. PICK from \in {"check", "attach"}, to \in {"replayed", "find", "given"} :
          Step(r, from, to)
  BY DEF CheckHit, CheckMiss, UpsertSeen, BeginLink
<1>2. UNCHANGED work /\ NoWrite /\ UNCHANGED ingestVars
  BY DEF CheckHit, CheckMiss, UpsertSeen, BeginLink, NoWrite
<1>3. LinkTypeOK' /\ LinkInv' /\ OwnersStay
  BY <1>1, <1>2, AsideKeepsLinkInv
<1>4. /\ from \notin StoreLabels \cup {"new"}
      /\ to \in (Unfinished \cup Answers) \ StoreLabels
  BY <1>1 DEF LinkLabels, StoreLabels, Unfinished, Answers
<1>5. IngestInv'
  BY <1>1, <1>2, <1>3, <1>4, QuietKeepsInv
<1>6. QED BY <1>3, <1>5

\* A request let in has its hints as they came.
LEMMA ReceivedWork ==
    ASSUME NEW asked \in CustomerIds \cup {UnknownId, NoCustomer}, NEW hints \in Hints
    PROVE  LET w == [NoWork EXCEPT !.asked = asked, !.hints = hints, !.todo = hints]
           IN  w \in Work /\ w.hints = hints /\ w.todo = hints
<1> DEFINE w1 == [NoWork EXCEPT !.asked = asked]
           w2 == [w1 EXCEPT !.hints = hints]
           w3 == [w2 EXCEPT !.todo = hints]
<1>1. hints \in Seq(Identities)
  BY LinkingAssumption
<1>2. <<>> \in Seq(Identities)
  OBVIOUS
<1>3. w1 \in Work
  BY <1>2 DEF NoWork, Work
<1> HIDE DEF w1
<1>4. w2 \in Work /\ w2.hints = hints
  BY <1>1, <1>3 DEF Work
<1> HIDE DEF w2
<1>5. w3 \in Work /\ w3.hints = w2.hints /\ w3.todo = hints
  BY <1>1, <1>4 DEF Work
<1>6. [NoWork EXCEPT !.asked = asked, !.hints = hints, !.todo = hints] = w3
  BY DEF w1, w2
<1> HIDE DEF w3
<1>7. QED BY <1>4, <1>5, <1>6

\* So does a post that comes in.
LEMMA ReceiveKeepsInv ==
    ASSUME IngestInv, NEW r \in Requests, NEW k \in Keys,
           NEW asked \in CustomerIds \cup {UnknownId, NoCustomer}, NEW hints \in Hints,
           Receive(r, k, asked, hints)
    PROVE  IngestInv' /\ OwnersStay
<1> DEFINE w == [NoWork EXCEPT !.asked = asked, !.hints = hints, !.todo = hints]
<1>1. w \in Work /\ w.hints = hints /\ w.todo = hints
  BY ReceivedWork
<1>2. SetWork(r, w)
  BY DEF Receive
<1> HIDE DEF w
<1>3. /\ work' \in [Requests -> Work] /\ work'[r] = w
      /\ \A q \in Requests \ {r} : work'[q] = work[q]
  BY <1>1, <1>2 DEF SetWork, IngestInv, IngestTypeOK, LinkTypeOK
<1>4. /\ at' \in [Requests -> {"new"} \cup Unfinished \cup Answers]
      /\ at[r] = "new" /\ at'[r] = "check"
      /\ \A q \in Requests \ {r} : at'[q] = at[q]
  <2>1. Step(r, "new", "check") /\ "check" \in Unfinished
    BY DEF Receive, Unfinished
  <2>2. QED BY <2>1, StepPlaces DEF IngestInv
<1>5. /\ key' \in [Requests -> Keys \cup {NoKey}] /\ key'[r] = k
      /\ \A q \in Requests \ {r} : key'[q] = key[q]
  BY DEF Receive, IngestInv, IngestTypeOK
<1>6. NoWrite /\ UNCHANGED <<events, published>>
  BY DEF Receive, NoWrite
<1>7. Grows
  BY <1>6, NoWriteGrows DEF IngestInv, IngestTypeOK
<1>8. LinkInv'
  <2>1. ASSUME NEW q \in Requests
        PROVE  RequestInv(q)'
    <3>1. CASE q = r
      <4>1. IsInjective(hints)
        BY LinkingAssumption
      <4>2. QED BY <1>1, <1>3, <1>4, <3>1, <4>1, RestsInv
    <3>2. CASE q # r
      BY <1>3, <1>4, <1>7, <3>2, OthersKeepInv DEF IngestInv, LinkInv
    <3>3. QED BY <3>1, <3>2
  <2>2. QED BY <2>1 DEF LinkInv
<1>9. IngestTypeOK'
  BY <1>3, <1>4, <1>5, <1>6, <1>7 DEF IngestInv, IngestTypeOK, LinkTypeOK, Grows
<1>10. KeysGiven'
  BY <1>4, <1>5 DEF IngestInv, KeysGiven
<1>11. OwnersStay
  BY <1>7 DEF Grows
<1>12. EventsLinked'
  BY <1>6, <1>11, StoredStaysLinked DEF IngestInv
<1>13. \A q \in Requests :
           /\ at'[q] \in StoreLabels => at[q] \in StoreLabels /\ key'[q] = key[q]
           /\ at'[q] = "accepted" <=> at[q] = "accepted"
  BY <1>4, <1>5 DEF StoreLabels
<1>14. StoredByOne' /\ PublishedByOne'
  BY <1>6, <1>13, QuietKeepsStored DEF IngestInv
<1>15. QED BY <1>8, <1>9, <1>10, <1>11, <1>12, <1>14 DEF IngestInv

\* The event stored is one whose customer has all its hints: the request has
\* none left to attach.
LEMMA UpsertNewKeepsInv ==
    ASSUME IngestInv, NEW r \in Requests, UpsertNew(r)
    PROVE  IngestInv' /\ OwnersStay
<1> DEFINE event == [cust |-> work[r].cust, hints |-> work[r].hints]
<1>1. /\ at' \in [Requests -> {"new"} \cup Unfinished \cup Answers]
      /\ at[r] = "attach" /\ at'[r] = "publish"
      /\ \A q \in Requests \ {r} : at'[q] = at[q]
  <2>1. Step(r, "attach", "publish") /\ "publish" \in Unfinished
    BY DEF UpsertNew, Unfinished
  <2>2. QED BY <2>1, StepPlaces DEF IngestInv
<1>2. UNCHANGED <<work, key, published>> /\ NoWrite /\ ~Stored(key[r])
  BY DEF UpsertNew, NoWrite
<1>3. LinkTypeOK' /\ LinkInv' /\ OwnersStay
  <2>1. Step(r, "attach", "publish")
    BY DEF UpsertNew
  <2>2. QED BY <1>2, <2>1, AsideKeepsLinkInv
<1>4. key[r] \in Keys
  BY <1>1 DEF IngestInv, KeysGiven
<1>5. /\ work[r].cust \in customers
      /\ \A h \in Range(work[r].hints) : Owns(work[r].cust, h)
  <2>1. RequestInv(r) /\ Attaching(r) /\ work[r].todo = <<>>
    BY <1>1 DEF IngestInv, LinkInv, Attaching, UpsertNew, Linked
  <2>2. QED BY <2>1, EmptyRange DEF RequestInv
<1>6. event \in EventRecords
  BY <1>5, WorkFields DEF EventRecords, IngestInv, IngestTypeOK, LinkTypeOK
<1>7. event.cust = work[r].cust /\ event.hints = work[r].hints
  OBVIOUS
<1> HIDE DEF event
<1>8. /\ DOMAIN events' = DOMAIN events \cup {key[r]}
      /\ events'[key[r]] = event
      /\ \A k \in DOMAIN events : events'[k] = events[k]
  BY <1>2 DEF UpsertNew, event, Stored
<1>9. IngestTypeOK'
  BY <1>1, <1>2, <1>3, <1>4, <1>6, <1>8 DEF IngestInv, IngestTypeOK
<1>10. KeysGiven'
  BY <1>1, <1>2 DEF IngestInv, KeysGiven
<1>11. EventsLinked'
  <2>1. ASSUME NEW k \in DOMAIN events'
        PROVE  \A h \in Range(events'[k].hints) : Known(h)' /\ owner'[h] = events'[k].cust
    <3>1. CASE k = key[r]
      BY <1>3, <1>5, <1>7, <1>8, <3>1 DEF Owns, OwnersStay, Known
    <3>2. CASE k # key[r]
      BY <1>3, <1>8, <3>2 DEF IngestInv, EventsLinked, OwnersStay, Known
    <3>3. QED BY <3>1, <3>2
  <2>2. QED BY <2>1 DEF EventsLinked
<1>12. StoredByOne'
  <2>1. \A q \in Requests : at'[q] \in StoreLabels => q = r \/ at[q] \in StoreLabels
    BY <1>1
  <2>2. \A q \in Requests : at[q] \in StoreLabels => Stored(key[q]) /\ key[q] # key[r]
    BY <1>2 DEF IngestInv, StoredByOne
  <2>3. \A q \in Requests : at'[q] \in StoreLabels => Stored(key[q])'
    <3>1. ASSUME NEW q \in Requests, at'[q] \in StoreLabels
          PROVE  key[q] \in DOMAIN events'
      BY <1>8, <2>1, <2>2, <3>1 DEF Stored
    <3>2. QED BY <1>2, <3>1 DEF Stored
  <2>4. \A q, p \in Requests :
            at'[q] \in StoreLabels /\ at'[p] \in StoreLabels /\ key[q] = key[p] => q = p
    BY <2>1, <2>2 DEF IngestInv, StoredByOne
  <2>5. QED BY <1>2, <2>3, <2>4 DEF StoredByOne
<1>13. PublishedByOne'
  <2>1. \A q \in Requests : at'[q] = "accepted" <=> at[q] = "accepted"
    BY <1>1
  <2>2. QED BY <1>2, <2>1 DEF IngestInv, PublishedByOne
<1>14. QED BY <1>3, <1>9, <1>10, <1>11, <1>12, <1>13 DEF IngestInv

\* The request that stored the event publishes it; there is no other.
LEMMA PublishKeepsInv ==
    ASSUME IngestInv, NEW r \in Requests, Publish(r)
    PROVE  IngestInv' /\ OwnersStay
<1>1. /\ at' \in [Requests -> {"new"} \cup Unfinished \cup Answers]
      /\ at[r] = "publish" /\ at'[r] = "accepted"
      /\ \A q \in Requests \ {r} : at'[q] = at[q]
  <2>1. Step(r, "publish", "accepted") /\ "accepted" \in Answers
    BY DEF Publish, Answers
  <2>2. QED BY <2>1, StepPlaces DEF IngestInv
<1>2. UNCHANGED <<work, key, events>> /\ NoWrite
  BY DEF Publish, NoWrite
<1>3. LinkTypeOK' /\ LinkInv' /\ OwnersStay
  <2>1. Step(r, "publish", "accepted")
    BY DEF Publish
  <2>2. QED BY <1>2, <2>1, AsideKeepsLinkInv
<1>4. key[r] \in Keys
  BY <1>1 DEF IngestInv, KeysGiven
<1>5. /\ published' \in [Keys -> Nat]
      /\ published'[key[r]] = published[key[r]] + 1
      /\ \A k \in Keys \ {key[r]} : published'[k] = published[k]
  BY <1>4 DEF Publish, IngestInv, IngestTypeOK
<1>6. IngestTypeOK'
  BY <1>1, <1>2, <1>3, <1>5 DEF IngestInv, IngestTypeOK
<1>7. KeysGiven'
  BY <1>1, <1>2 DEF IngestInv, KeysGiven
<1>8. EventsLinked'
  BY <1>2, <1>3, StoredStaysLinked DEF IngestInv
<1>9. \A q \in Requests : at'[q] \in StoreLabels <=> at[q] \in StoreLabels
  BY <1>1 DEF StoreLabels
<1>10. StoredByOne'
  BY <1>2, <1>9 DEF IngestInv, StoredByOne, Stored
<1>11. PublishedByOne'
  <2>1. \A q \in Requests : at[q] = "accepted" => key[q] # key[r]
    BY <1>1 DEF IngestInv, StoredByOne, StoreLabels
  <2>2. published[key[r]] = 0
    BY <1>4, <2>1 DEF IngestInv, PublishedByOne
  <2>3. ASSUME NEW k \in Keys
        PROVE  published'[k] = IF \E q \in Requests : at'[q] = "accepted" /\ key[q] = k
                               THEN 1 ELSE 0
    <3>1. CASE k = key[r]
      BY <1>1, <1>5, <2>2, <3>1
    <3>2. CASE k # key[r]
      <4>1. (\E q \in Requests : at'[q] = "accepted" /\ key[q] = k)
            <=> (\E q \in Requests : at[q] = "accepted" /\ key[q] = k)
        BY <1>1, <3>2
      <4>2. QED BY <1>5, <3>2, <4>1 DEF IngestInv, PublishedByOne
    <3>3. QED BY <3>1, <3>2
  <2>4. QED BY <1>2, <2>3 DEF PublishedByOne
<1>12. QED BY <1>3, <1>6, <1>7, <1>8, <1>10, <1>11 DEF IngestInv

\* So does a bus that raises.
LEMMA PublishFailsKeepsInv ==
    ASSUME IngestInv, NEW r \in Requests, PublishFails(r)
    PROVE  IngestInv' /\ OwnersStay
<1>1. Step(r, "publish", "bus_error") /\ UNCHANGED work /\ NoWrite /\ UNCHANGED ingestVars
  BY DEF PublishFails, NoWrite
<1>2. UNCHANGED <<key, events, published>>
  BY <1>1 DEF ingestVars
<1>3. /\ at' \in [Requests -> {"new"} \cup Unfinished \cup Answers]
      /\ at[r] = "publish" /\ at'[r] = "bus_error"
      /\ \A q \in Requests \ {r} : at'[q] = at[q]
  <2>1. "bus_error" \in Answers
    BY DEF Answers
  <2>2. QED BY <1>1, <2>1, StepPlaces DEF IngestInv
<1>4. LinkTypeOK' /\ LinkInv' /\ OwnersStay
  BY <1>1, AsideKeepsLinkInv
<1>5. IngestTypeOK'
  BY <1>2, <1>3, <1>4 DEF IngestInv, IngestTypeOK
<1>6. KeysGiven'
  BY <1>2, <1>3 DEF IngestInv, KeysGiven
<1>7. EventsLinked'
  BY <1>2, <1>4, StoredStaysLinked DEF IngestInv
<1>8. \A q \in Requests :
          /\ at'[q] \in StoreLabels => at[q] \in StoreLabels /\ key'[q] = key[q]
          /\ at'[q] = "accepted" <=> at[q] = "accepted"
  BY <1>2, <1>3 DEF StoreLabels
<1>9. StoredByOne' /\ PublishedByOne'
  BY <1>2, <1>8, QuietKeepsStored DEF IngestInv
<1>10. QED BY <1>4, <1>5, <1>6, <1>7, <1>9 DEF IngestInv

\* A restart takes requests away and brings none anywhere.
LEMMA RestartKeepsInv ==
    ASSUME IngestInv, Restart
    PROVE  IngestInv' /\ OwnersStay
<1>1. /\ DOMAIN at' = Requests
      /\ \A r \in Requests : at'[r] = IF at[r] \in Unfinished THEN "dead" ELSE at[r]
      /\ at' \in [Requests -> {"new"} \cup Unfinished \cup Answers]
  BY DEF Restart, IngestInv, IngestTypeOK, Answers
<1>2. /\ UNCHANGED work /\ NoWrite /\ UNCHANGED <<key, events, published>>
  BY DEF Restart, NoWrite, ingestVars
<1>3. LinkTypeOK
  BY DEF IngestInv, IngestTypeOK
<1>4. Grows
  BY <1>2, <1>3, NoWriteGrows
<1>5. ASSUME NEW r \in Requests
      PROVE  RequestInv(r)'
  <2>1. RequestInv(r) /\ work'[r] = work[r]
    BY <1>2 DEF IngestInv, LinkInv
  <2>2. CASE at'[r] = at[r]
    BY <1>4, <2>1, <2>2, OthersKeepInv
  <2>3. CASE at'[r] = "dead"
    BY <2>1, <2>3, RestsInv DEF RequestInv
  <2>4. QED BY <1>1, <2>2, <2>3
<1>6. IngestTypeOK'
  BY <1>1, <1>2, <1>3, <1>4 DEF IngestInv, IngestTypeOK, LinkTypeOK, Grows
<1>7. KeysGiven'
  BY <1>1, <1>2 DEF IngestInv, KeysGiven, Unfinished, LinkLabels
<1>8. OwnersStay
  BY <1>4 DEF Grows
<1>9. EventsLinked'
  BY <1>2, <1>8, StoredStaysLinked DEF IngestInv
<1>10. \A r \in Requests :
           /\ at'[r] \in StoreLabels => at[r] \in StoreLabels /\ key'[r] = key[r]
           /\ at'[r] = "accepted" <=> at[r] = "accepted"
  BY <1>1, <1>2 DEF StoreLabels, Unfinished, LinkLabels
<1>11. StoredByOne' /\ PublishedByOne'
  BY <1>2, <1>10, QuietKeepsStored DEF IngestInv
<1>12. QED BY <1>5, <1>6, <1>7, <1>8, <1>9, <1>11 DEF IngestInv, LinkInv

\* So does every step of ingestion.
LEMMA NextInv == IngestInv /\ [IngestNext]_allVars => IngestInv' /\ OwnersStay
<1> SUFFICES ASSUME IngestInv, [IngestNext]_allVars
             PROVE  IngestInv' /\ OwnersStay
  OBVIOUS
<1>1. CASE UNCHANGED allVars
  <2>1. /\ UNCHANGED <<store, customers, owner, at, work>>
        /\ UNCHANGED <<key, events, published>>
    BY <1>1 DEF allVars, linkVars, ingestVars
  <2>2. OwnersStay
    BY <2>1 DEF OwnersStay
  <2>3. IngestTypeOK'
    BY <2>1 DEF IngestInv, IngestTypeOK, LinkTypeOK
  <2>4. Grows
    BY <2>1, NoWriteGrows DEF NoWrite, IngestInv, IngestTypeOK
  <2>5. LinkInv'
    BY <2>1, <2>4, OthersKeepInv DEF IngestInv, LinkInv
  <2>6. KeysGiven' /\ EventsLinked' /\ StoredByOne' /\ PublishedByOne'
    BY <2>1 DEF IngestInv, KeysGiven, EventsLinked, StoredByOne, PublishedByOne, Known,
                Stored
  <2>7. QED BY <2>2, <2>3, <2>5, <2>6 DEF IngestInv
<1>2. CASE IngestNext
  BY <1>2, ReceiveKeepsInv, CheckKeepsInv, LinkKeepsInv, UpsertNewKeepsInv,
     PublishKeepsInv, PublishFailsKeepsInv, RestartKeepsInv DEF IngestNext, Serve
<1>3. QED BY <1>1, <1>2

-----------------------------------------------------------------------------
(* The theorems.                                                           *)

\* So the invariant always holds.
LEMMA InvHolds == IngestSpec => []IngestInv
<1>1. IngestInv /\ [IngestNext]_allVars => IngestInv'
  BY NextInv
<1>2. QED BY InitInv, <1>1, PTL DEF IngestSpec

\* The repositories, the requests and the events have the types of the code:
\* in particular every identity's customer exists.
THEOREM IngestTyped == IngestSpec => []IngestTypeOK
<1>1. IngestInv => IngestTypeOK
  BY DEF IngestInv
<1>2. QED BY InvHolds, <1>1, PTL

\* No identity ever changes hands or is unlinked, whatever requests race and
\* whichever of them die (add_identity, create_customer).
THEOREM OwnersAreKept == IngestSpec => OwnersKept
<1>1. IngestInv /\ [IngestNext]_allVars => [OwnersStay]_linkVars
  BY NextInv
<1>2. QED BY InvHolds, <1>1, PTL DEF IngestSpec, OwnersKept

\* A request that lost the create race finds the winner: the raise after the
\* second walk of resolve_customer is never reached.
THEOREM RewalkAlwaysHits == IngestSpec => []RewalkHits
<1>1. IngestInv => RewalkHits
  BY DEF IngestInv, LinkInv, RequestInv, RewalkHits
<1>2. QED BY InvHolds, <1>1, PTL

\* In memory, resolve_customer raises a collision only for data that conflicts.
THEOREM MemoryCollisionsAreReal == IngestSpec => []MemoryCollisionIsReal
<1>1. IngestInv => MemoryCollisionIsReal
  BY DEF IngestInv, LinkInv, RequestInv, MemoryCollisionIsReal, CollisionIsReal
<1>2. QED BY InvHolds, <1>1, PTL

\* A stored event's customer owns every identity of its payload.
THEOREM EventsAreLinked == IngestSpec => []EventsLinked
<1>1. IngestInv => EventsLinked
  BY DEF IngestInv
<1>2. QED BY InvHolds, <1>1, PTL

\* One request stores and publishes the event of a key, and publishes it once
\* (upsert_event, publish), with any number of retries under way.
THEOREM PublishedAtMostOnce == IngestSpec => []PublishedOnce
<1>1. ASSUME IngestInv PROVE PublishedOnce
  <2>1. SUFFICES ASSUME NEW k \in Keys
                 PROVE  LET storing == {r \in Requests : key[r] = k /\ at[r] \in StoreLabels}
                        IN  /\ Cardinality(storing) <= 1
                            /\ published[k] = Cardinality({r \in storing : at[r] = "accepted"})
    BY DEF PublishedOnce, StoreLabels
  <2> DEFINE storing == {r \in Requests : key[r] = k /\ at[r] \in StoreLabels}
             sent == {r \in storing : at[r] = "accepted"}
  <2>2. \A r, q \in storing : r = q
    BY <1>1 DEF IngestInv, StoredByOne
  <2>3. published[k] = IF sent = {} THEN 0 ELSE 1
    BY <1>1 DEF IngestInv, PublishedByOne, StoreLabels
  <2>4. sent \subseteq storing
    OBVIOUS
  <2> HIDE DEF storing, sent
  <2>5. Cardinality({}) = 0 /\ \A r : Cardinality({r}) = 1
    BY FS_EmptySet, FS_Singleton
  <2>6. storing = {} \/ \E r : storing = {r}
    BY <2>2
  <2>7. sent = {} \/ \E r : sent = {r}
    BY <2>4, <2>6
  <2>8. Cardinality(storing) <= 1
    <3>1. CASE storing = {}
      BY <2>5, <3>1
    <3>2. CASE \E r : storing = {r}
      <4>1. Cardinality(storing) = 1
        BY <2>5, <3>2
      <4>2. QED BY <4>1
    <3>3. QED BY <2>6, <3>1, <3>2
  <2>9. published[k] = Cardinality(sent)
    BY <2>3, <2>5, <2>7
  <2>10. QED BY <2>8, <2>9 DEF sent, storing
<1>2. QED BY InvHolds, <1>1, PTL
=============================================================================
