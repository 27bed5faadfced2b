------------------------------ MODULE SlowCalls ------------------------------
(***************************************************************************)
(* Calls under a deadline (context_engine/timeouts.py) and the queue of    *)
(* those that missed it (context_engine/slow_call_queue.py).  A request    *)
(* hands its call to a pool of worker threads and waits for the result; at *)
(* the deadline it takes a fallback instead and the call is deferred for a *)
(* reconciler to try again, while a worker may still be at it.             *)
(***************************************************************************)
EXTENDS RingBuffers, FiniteSets

CONSTANTS
    MaxCalls,      \* bound: uses of with_deadline_and_defer
    CallTenants,
    Workers,       \* max_workers of the pool
    MaxDeferred,   \* max_per_tenant of the queue
    NoTenant

ASSUME SlowAssumption ==
    /\ NoTenant \notin CallTenants /\ MaxCalls \in Nat
    /\ Workers \in Nat \ {0} /\ MaxDeferred \in Nat \ {0}

VARIABLES
    future,     \* each call's future
    backlog,    \* work queue of the pool
    caller,     \* the request that made the call
    reason,     \* why it was given the fallback
    tenant,     \* whose call it is
    retryOf,    \* the deferred call the reconciler makes it for
    deferred,   \* the defer queue
    deferLog, drained   \* histories: what was deferred, and what drain returned

slowVars == <<future, backlog, caller, reason, tenant, retryOf, deferred, deferLog, drained>>
callVars == <<tenant, retryOf>>
deferVars == <<deferred, deferLog, drained>>

\* Calls are numbered as they are made.
Calls == 1..MaxCalls
NoCall == 0

\* "timed_out": the callable itself raised a TimeoutError.
Ended == {"done", "raised", "timed_out"}
Futures == {"none", "pending", "running", "cancelled"} \cup Ended
Callers == {"none", "waiting", "late", "degraded", "value", "fallback"}
Reasons == {"none", "deadline_exceeded", "transient_error"}

SlowTypeOK ==
    /\ future \in [Calls -> Futures]
    /\ backlog \in Seq(Calls)
    /\ \A c \in Calls : future[c] = "pending" => c \in Range(backlog)
    /\ caller \in [Calls -> Callers]
    /\ reason \in [Calls -> Reasons]
    /\ \A c \in Calls : caller[c] = "value" => future[c] = "done" /\ reason[c] = "none"
    /\ tenant \in [Calls -> CallTenants \cup {NoTenant}]
    /\ retryOf \in [Calls -> Calls \cup {NoCall}]
    /\ deferred \in [CallTenants -> Seq(Calls)]
    /\ deferLog \in [CallTenants -> Seq(Calls)] /\ drained \in [CallTenants -> Seq(Calls)]

SlowInit ==
    /\ future = [c \in Calls |-> "none"]
    /\ backlog = <<>>
    /\ caller = [c \in Calls |-> "none"]
    /\ reason = [c \in Calls |-> "none"]
    /\ tenant = [c \in Calls |-> NoTenant]
    /\ retryOf = [c \in Calls |-> NoCall]
    /\ deferred = [t \in CallTenants |-> <<>>]
    /\ deferLog = [t \in CallTenants |-> <<>>]
    /\ drained = [t \in CallTenants |-> <<>>]

CallerGoes(c, from, to) == caller[c] = from /\ caller' = [caller EXCEPT ![c] = to]

-----------------------------------------------------------------------------
(* The call.                                                               *)

Submit(c, t, old) ==
    /\ \A d \in Calls : d < c => caller[d] # "none"
    /\ CallerGoes(c, "none", "waiting")
    /\ future' = [future EXCEPT ![c] = "pending"]
    /\ backlog' = Append(backlog, c)
    /\ tenant' = [tenant EXCEPT ![c] = t]
    /\ retryOf' = [retryOf EXCEPT ![c] = old]
    /\ UNCHANGED <<reason, deferVars>>

NewCall(c, t) == Submit(c, t, NoCall)

\* The reconciler tries a call again that drain returned.
Retry(c, old) ==
    /\ tenant[old] \in CallTenants /\ old \in Range(drained[tenant[old]])
    /\ \A d \in Calls : retryOf[d] # old
    /\ Submit(c, tenant[old], old)

\* Mutant of Begin: one that was cancelled is run all the same.
BeginCancelled(c) ==
    /\ backlog # <<>> /\ c = Head(backlog)
    /\ Cardinality({d \in Calls : future[d] = "running"}) < Workers
    /\ backlog' = Tail(backlog)
    /\ future' = [future EXCEPT ![c] = "running"]
    /\ UNCHANGED <<caller, reason, callVars, deferVars>>

\* A worker takes the next item of the backlog, and skips it if it was cancelled.
Begin(c) ==
    /\ backlog # <<>> /\ c = Head(backlog)
    /\ Cardinality({d \in Calls : future[d] = "running"}) < Workers
    /\ backlog' = Tail(backlog)
    /\ future' = [future EXCEPT ![c] = IF @ = "cancelled" THEN @ ELSE "running"]
    /\ UNCHANGED <<caller, reason, callVars, deferVars>>

\* The callable returns or raises, whoever still waits for it.
End(c) ==
    /\ future[c] = "running"
    /\ \E how \in Ended : future' = [future EXCEPT ![c] = how]
    /\ UNCHANGED <<backlog, caller, reason, callVars, deferVars>>

\* Mutant of Answer: any end of the callable is answered with its value.
AnswerEnded(c) ==
    /\ future[c] \in Ended
    /\ CallerGoes(c, "waiting", "value")
    /\ UNCHANGED <<future, backlog, reason, callVars, deferVars>>

\* future.result returns the value ...
Answer(c) ==
    /\ future[c] = "done"
    /\ CallerGoes(c, "waiting", "value")
    /\ UNCHANGED <<future, backlog, reason, callVars, deferVars>>

\* ... or raises what the callable raised ...
Reraise(c) ==
    /\ future[c] = "raised"
    /\ CallerGoes(c, "waiting", "degraded")
    /\ reason' = [reason EXCEPT ![c] = "transient_error"]
    /\ UNCHANGED <<future, backlog, callVars, deferVars>>

\* Mutant of TimeOut: result is called without a timeout.
TimeOutNever(c) ==
    /\ future[c] = "timed_out"
    /\ CallerGoes(c, "waiting", "late")
    /\ UNCHANGED <<future, backlog, reason, callVars, deferVars>>

\* ... or TimeoutError at the deadline, which is also what a callable's own
\* TimeoutError is taken for.
TimeOut(c) ==
    /\ future[c] \in {"pending", "running", "timed_out"}
    /\ CallerGoes(c, "waiting", "late")
    /\ UNCHANGED <<future, backlog, reason, callVars, deferVars>>

\* future.cancel, by when the call may have been begun or have ended.
Cancel(c) ==
    /\ CallerGoes(c, "late", "degraded")
    /\ future' = [future EXCEPT ![c] = IF @ = "pending" THEN "cancelled" ELSE @]
    /\ reason' = [reason EXCEPT ![c] = "deadline_exceeded"]
    /\ UNCHANGED <<backlog, callVars, deferVars>>

\* The degraded call is deferred, and the request goes on with the fallback.
Defer(c) ==
    LET t == tenant[c]
    IN  /\ CallerGoes(c, "degraded", "fallback")
        /\ deferred' = [deferred EXCEPT ![t] = TrimPush(@, c, MaxDeferred)]
        /\ deferLog' = [deferLog EXCEPT ![t] = Append(@, c)]
        /\ UNCHANGED <<future, backlog, reason, callVars, drained>>

Request(c) == Answer(c) \/ Reraise(c) \/ TimeOut(c) \/ Cancel(c) \/ Defer(c)

\* Mutant of Drain: the newest entries go.
DrainNewest(t) ==
    \E limit \in 1..Len(deferred[t]) :
        LET kept == Len(deferred[t]) - limit
        IN  /\ drained' = [drained EXCEPT ![t] = @ \o SubSeq(deferred[t], kept + 1,
                                                             Len(deferred[t]))]
            /\ deferred' = [deferred EXCEPT ![t] = SubSeq(@, 1, kept)]
            /\ UNCHANGED <<future, backlog, caller, reason, callVars, deferLog>>

\* drain: the reconciler takes up to limit of the oldest entries.
Drain(t) ==
    \E limit \in 1..Len(deferred[t]) :
        /\ drained' = [drained EXCEPT ![t] = @ \o SubSeq(deferred[t], 1, limit)]
        /\ deferred' = [deferred EXCEPT ![t] = SubSeq(@, limit + 1, Len(@))]
        /\ UNCHANGED <<future, backlog, caller, reason, callVars, deferLog>>

SlowNext ==
    \/ \E c \in Calls, t \in CallTenants : NewCall(c, t)
    \/ \E c, old \in Calls : Retry(c, old)
    \/ \E c \in Calls : Begin(c) \/ End(c) \/ Request(c)
    \/ \E t \in CallTenants : Drain(t)

SlowSpec == SlowInit /\ [][SlowNext]_slowVars

\* The requests' threads go on, and deadlines pass; a callable may never return.
FairSlowSpec == SlowSpec /\ \A c \in Calls : WF_slowVars(Request(c))

-----------------------------------------------------------------------------
(* What the deadline and the queue promise.                                *)

Deferred(t) == Range(deferLog[t])
FallenOf(t) == {c \in Calls : tenant[c] = t /\ caller[c] = "fallback"}

\* What a buffer holds that was fed with a list, trimmed or a deque.
Trimmed(log, max) ==
    LET buf[n \in 0..Len(log)] == IF n = 0 THEN <<>> ELSE TrimPush(buf[n - 1], log[n], max)
    IN  buf[Len(log)]
Dequeued(log, max) ==
    LET buf[n \in 0..Len(log)] == IF n = 0 THEN <<>> ELSE DequePush(buf[n - 1], log[n], max)
    IN  buf[Len(log)]

\* The four buffers keep the same: fed with the same entries, the trimmed list and
\* the deque hold the newest, and the views of both agree for any limit.
RingsAgree(log) ==
    \A max \in 1..MaxDeferred :
        /\ Trimmed(log, max) = Dequeued(log, max)
        /\ \A limit \in 1..(max + 1) :
              NewestByLimit(Trimmed(log, max), limit) = ReversedUpTo(Dequeued(log, max), limit)

\* A tenant's calls that took the fallback are each in the queue, were drained in
\* the order they were deferred, or were pushed out by as many newer ones of the same
\* tenant as the queue holds: "the work disappeared" (slow_call_queue.py) is not how
\* it ends otherwise.  The other buffers of the kind would hold the same.
DeferralsKept ==
    \A t \in CallTenants :
        LET log == deferLog[t]
            out == drained[t]
        IN  /\ RingsAgree(log)
            /\ Deferred(t) = FallenOf(t)
            /\ Len(deferred[t]) <= MaxDeferred
            /\ IsSuffix(deferred[t], log)
            /\ \A i \in DOMAIN log :
                  \/ log[i] \in Range(out) \cup Range(deferred[t])
                  \/ Len(log) - i >= MaxDeferred
            /\ \A i, j \in DOMAIN out, k, l \in DOMAIN log :
                  i < j /\ out[i] = log[k] /\ out[j] = log[l] => k < l

RetriesDue ==
    /\ \A c \in Calls : retryOf[c] \in Calls =>
          LET old == retryOf[c] IN
          /\ caller[old] = "fallback"
          /\ future[old] = "done" => reason[old] = "deadline_exceeded"
    /\ \A c \in Calls : future[c] = "cancelled" => reason[c] = "deadline_exceeded"

SettledStays ==
    \A c \in Calls : future[c] \in Ended \cup {"cancelled"} => future'[c] = future[c]

\* What was deferred may be done already or be done yet: a call is completed a
\* second time only if its deadline had passed when the first attempt completed.  One
\* that was answered is never tried again; one that was cancelled had missed its
\* deadline and never runs, and none that has ended is run again by the pool, which
\* may hold it in its backlog all the while (with_deadline, drain).
TwiceOnlyIfLate == []RetriesDue /\ [][SettledStays]_slowVars

\* with_deadline answers whatever becomes of the callable, of the pool's workers and
\* of the calls before it in the backlog.
CallersReturn ==
    \A c \in Calls : caller[c] = "waiting" ~> caller[c] \in {"value", "fallback"}

-----------------------------------------------------------------------------
(* An inductive invariant.                                                 *)

Fallen == {c \in Calls : caller[c] = "fallback"}

\* What waits in the backlog has not begun, and waits once.
BacklogWaits ==
    /\ IsInjective(backlog)
    /\ \A c \in Range(backlog) : future[c] \in {"pending", "cancelled"}

\* Why a caller is where it is.
CallerHasReason(c) ==
    /\ caller[c] = "none" => future[c] = "none"
    /\ caller[c] \in {"none", "waiting", "late"} => reason[c] = "none"
    /\ caller[c] \in {"degraded", "fallback"} =>
          \/ reason[c] = "deadline_exceeded"
          \/ reason[c] = "transient_error" /\ future[c] = "raised"
    /\ future[c] = "cancelled" => reason[c] = "deadline_exceeded"

\* The queue, what it was given and what it gave are calls that took the fallback.
QueueOfFallen ==
    /\ deferred \in [CallTenants -> Seq(Fallen)]
    /\ deferLog \in [CallTenants -> Seq(Fallen)]
    /\ drained \in [CallTenants -> Seq(Fallen)]

RetriesOfFallen == \A c \in Calls : retryOf[c] \in Calls => retryOf[c] \in Fallen

CallsInv ==
    /\ SlowTypeOK /\ BacklogWaits
    /\ \A c \in Calls : CallerHasReason(c)
    /\ QueueOfFallen /\ RetriesOfFallen

\* The queue is the end of what was deferred; of the rest, each was drained, in the
\* order of the log, or was pushed out, which takes as many as the queue holds.
QueueInStep(log, queue, out) ==
    LET gone == Len(log) - Len(queue) IN
    /\ IsInjective(log)
    /\ gone >= 0 /\ Len(queue) <= MaxDeferred
    /\ \A j \in 1..Len(queue) : queue[j] = log[gone + j]
    /\ \A i \in 1..gone : log[i] \in Range(out) \/ Len(log) - i >= MaxDeferred
    /\ \A i \in 1..Len(out) : \E k \in 1..gone : out[i] = log[k]
    /\ \A i, j \in 1..Len(out), k, l \in 1..Len(log) :
          i < j /\ out[i] = log[k] /\ out[j] = log[l] => k < l

DeferralsInStep ==
    \A t \in CallTenants : Deferred(t) = FallenOf(t) /\ QueueInStep(deferLog[t], deferred[t], drained[t])

SlowInv == CallsInv /\ DeferralsInStep
=============================================================================
