----------------------------- MODULE WebhookLog -----------------------------
(***************************************************************************)
(* The event log of the webhooks (core/events.py) and the task that turns   *)
(* it into delivery rows (webhook.dispatch in worker/webhooks.py).          *)
(*                                                                         *)
(* The log is a Redis list: an event is pushed at its head and the list is  *)
(* trimmed to its newest MaxLen events.  The cursor is a number: how many   *)
(* places of the list, from its head, count as read.  Beat sends a dispatch *)
(* task every 30 seconds and nothing keeps two of them from overlapping.    *)
(***************************************************************************)
EXTENDS Naturals, Sequences, SequencesExt, FiniteSets

CONSTANTS
  Dispatcher,  \* worker processes that run a dispatch task
  MaxEvents,   \* bounds the events published
  MaxLen,      \* EVENTS_LOG_MAX_LEN
  Batch,       \* DISPATCH_BATCH
  MaxKills     \* bounds the dispatchers that die

ASSUME LogAssumption ==
  /\ MaxEvents \in Nat /\ MaxLen \in Nat \ {0} /\ Batch \in Nat \ {0}
  /\ MaxKills \in Nat

VARIABLES
  published,  \* events so far, named 1, 2, ...
  log,        \* the list, newest first
  cursor,     \* the cursor key
  rows,       \* events with a committed delivery row
  pc,         \* where each dispatcher is
  total,      \* the LLEN each has read
  from,       \* the cursor each has read
  events,     \* the events each has read, oldest first
  kills       \* dispatchers that died

seenVars == <<total, from, events>>
vars == <<published, log, cursor, rows, pc, seenVars, kills>>

Event == 1 .. MaxEvents

Init ==
  /\ published = 0
  /\ log = <<>>
  /\ cursor = 0
  /\ rows = {}
  /\ pc = [d \in Dispatcher |-> "idle"]
  /\ total = [d \in Dispatcher |-> 0]
  /\ from = [d \in Dispatcher |-> 0]
  /\ events = [d \in Dispatcher |-> <<>>]
  /\ kills = 0

Move(d, a, b) == pc[d] = a /\ pc' = [pc EXCEPT ![d] = b]

\* What a dispatcher has read dies with its run.
Forget(d) ==
  /\ total' = [total EXCEPT ![d] = 0]
  /\ from' = [from EXCEPT ![d] = 0]
  /\ events' = [events EXCEPT ![d] = <<>>]

-----------------------------------------------------------------------------
(* publish_event: LPUSH, then LTRIM. *)

Push ==
  /\ published < MaxEvents
  /\ published' = published + 1
  /\ log' = <<published'>> \o log
  /\ UNCHANGED <<cursor, rows, pc, seenVars, kills>>

Trim ==
  /\ Len(log) > MaxLen
  /\ log' = SubSeq(log, 1, MaxLen)
  /\ UNCHANGED <<published, cursor, rows, pc, seenVars, kills>>

-----------------------------------------------------------------------------
(* dispatch_events. *)

ReadTotal(d) ==
  /\ Move(d, "idle", "counted")
  /\ total' = [total EXCEPT ![d] = Len(log)]
  /\ UNCHANGED <<published, log, cursor, rows, from, events, kills>>

ReadCursor(d) ==
  /\ pc[d] = "counted"
  /\ from' = [from EXCEPT ![d] = cursor]
  /\ pc' = [pc EXCEPT ![d] = IF total[d] <= cursor THEN "behind" ELSE "reading"]
  /\ UNCHANGED <<published, log, cursor, rows, total, events, kills>>

NothingNewIgnored(d) ==
  /\ Move(d, "behind", "idle")
  /\ Forget(d)
  /\ UNCHANGED <<published, log, cursor, rows, kills>>

\* The list is no longer than the cursor: the cursor is set to its length.
NothingNew(d) ==
  /\ Move(d, "behind", "idle")
  /\ cursor' = total[d]
  /\ Forget(d)
  /\ UNCHANGED <<published, log, rows, kills>>

\* LRANGE from the cursor to the last place, reversed.
ReadEvents(d) ==
  /\ Move(d, "reading", "read")
  /\ events' = [events EXCEPT ![d] = Reverse(SubSeq(log, from[d] + 1,
                  IF total[d] < Len(log) THEN total[d] ELSE Len(log)))]
  /\ UNCHANGED <<published, log, cursor, rows, total, from, kills>>

Taken(d) == IF Len(events[d]) < Batch THEN Len(events[d]) ELSE Batch

\* A row and a task for each event of the batch a subscription wants, in one
\* transaction.
CommitRows(d) ==
  /\ Move(d, "read", "committed")
  /\ rows' = rows \cup {events[d][i] : i \in 1 .. Taken(d)}
  /\ UNCHANGED <<published, log, cursor, seenVars, kills>>

SetCursor(d) ==
  /\ Move(d, "committed", "idle")
  /\ cursor' = from[d] + Taken(d)
  /\ Forget(d)
  /\ UNCHANGED <<published, log, rows, kills>>

\* The process dies; what it has not committed is rolled back.
Kill(d) ==
  /\ kills < MaxKills
  /\ kills' = kills + 1
  /\ pc[d] # "idle"
  /\ pc' = [pc EXCEPT ![d] = "idle"]
  /\ Forget(d)
  /\ UNCHANGED <<published, log, cursor, rows>>

-----------------------------------------------------------------------------
Dispatch(d) ==
  \/ ReadTotal(d) \/ ReadCursor(d) \/ NothingNew(d)
  \/ ReadEvents(d) \/ CommitRows(d) \/ SetCursor(d)

Next ==
  \/ Push \/ Trim
  \/ \E d \in Dispatcher : Dispatch(d) \/ Kill(d)

Spec == Init /\ [][Next]_vars

\* Beat keeps sending dispatch tasks, workers run them, and a publisher that
\* has pushed trims.
FairSpec == Spec /\ WF_vars(Trim) /\ \A d \in Dispatcher : WF_vars(Dispatch(d))

-----------------------------------------------------------------------------
(* Properties. *)

\* Once nothing is published any more the cursor reaches the end of the list
\* and stays there, whatever overlapping dispatchers, dead ones and trims made
\* of it (webhooks.py 63-69, 107).
CursorCatchesUp == <>[](cursor = Len(log))

\* What the cursor counts as read has been dispatched: a cursor at the end of
\* the list leaves no event in it without a delivery row (webhooks.py 54, 62).
ReadMeansDispatched ==
  cursor = Len(log) /\ (\A d \in Dispatcher : pc[d] = "idle")
  => \A i \in 1 .. Len(log) : log[i] \in rows
=============================================================================
