----------------------------- MODULE RingBuffers -----------------------------
(***************************************************************************)
(* The bounded buffer per tenant that four parts keep: quarantined events  *)
(* (context_engine/quarantine.py), deferred calls (slow_call_queue.py),    *)
(* proposals (orchestrator/planner.py) and recent events                   *)
(* (orchestrator/event_listener.py).  The first three are lists that are   *)
(* trimmed, the last is a deque with a maxlen; each has a lock of its own. *)
(***************************************************************************)
EXTENDS Integers, SequencesExt

\* Mutant of TrimPush: the trim comes before the append.
TrimPushEarly(buf, x, max) ==
    Append(IF Len(buf) > max THEN SubSeq(buf, Len(buf) - max + 1, Len(buf)) ELSE buf, x)

\* append, then del buf[: len(buf) - max]
TrimPush(buf, x, max) ==
    LET long == Append(buf, x)
    IN  IF Len(long) > max THEN SubSeq(long, Len(long) - max + 1, Len(long)) ELSE long

\* append to a deque(maxlen=max)
DequePush(buf, x, max) == Append(IF Len(buf) = max THEN Tail(buf) ELSE buf, x)

\* list(reversed(buf[-limit:])), for a limit of 1 or more, as the endpoints ask for
NewestByLimit(buf, limit) ==
    Reverse(SubSeq(buf, IF Len(buf) > limit THEN Len(buf) - limit + 1 ELSE 1, Len(buf)))

\* items.reverse(); items[:limit]
ReversedUpTo(buf, limit) ==
    SubSeq(Reverse(buf), 1, IF Len(buf) > limit THEN limit ELSE Len(buf))
=============================================================================
