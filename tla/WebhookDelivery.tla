--------------------------- MODULE WebhookDelivery ---------------------------
(***************************************************************************)
(* ONE row of webhook_delivery and the tasks that work on it                *)
(* (worker/webhooks.py, api/routes/admin/webhooks.py): the dispatcher that  *)
(* creates it, the tasks webhook.deliver that post it and plan their next   *)
(* attempt, the sweep webhook.retry_due that sends rows whose attempt is    *)
(* overdue again, the administrator's replay and the subscription's end.    *)
(*                                                                         *)
(* A task loads the row, posts, and commits what it changed of what it had  *)
(* loaded: the ORM writes a column only where the new value differs from    *)
(* the loaded one.  Several tasks may do so at a time.  A failed attempt    *)
(* plans the next one twice: as next_retry_at of the row, which the sweep   *)
(* reads, and as a delayed task.                                            *)
(***************************************************************************)
EXTENDS Naturals, FiniteSets

CONSTANTS
  Task,       \* webhook.deliver tasks: bounds those that exist at a time
  Retries,    \* length of the retry schedule
  Faults,     \* which faults of the environment may happen
  MaxFaults   \* bounds how many

ASSUME DeliveryAssumption ==
  /\ Retries \in Nat \ {0}
  /\ Faults \subseteq {"kill", "host", "send", "redeliver"}
  /\ MaxFaults \in Nat

VARIABLES
  row,        \* the committed row: its status, attempt and next_retry_at
  sub,        \* the subscription exists
  pc,         \* where each task is
  loaded,     \* the row as each task loaded it
  dispatcher, \* "ready", "sent" or "done" with the row
  sweep,      \* "idle", or "sent" with its commit to come
  replay,     \* "idle", "keeps" or "clears" a next_retry_at it has loaded, or
              \* "committed" with the task to send
  lost,       \* history: a task was lost
  faults      \* faults so far

vars == <<row, sub, pc, loaded, dispatcher, sweep, replay, lost,
          faults>>

Status == {"none", "pending", "success", "failed", "dead"}

\* attempt is only compared with the length of the schedule, so it stops one
\* past it.  next_retry_at is absent, in the future or in the past.
Attempt == 0 .. Retries + 1
Row == [status : Status, attempt : Attempt, next : {"none", "later", "due"}]

Absent == [status |-> "none", attempt |-> 0, next |-> "none"]

\* The task will still do something.
InFlight == {"queued", "posting", "removing", "unsent", "delayed"}

\* Type invariant: a task posts only what it found.
TypeOK ==
  /\ row \in Row
  /\ sub \in BOOLEAN
  /\ pc \in [Task -> InFlight \cup {"unused"}]
  /\ loaded \in [Task -> Row]
  /\ \A t \in Task :
       pc[t] \in {"posting", "removing"} => loaded[t].status # "none"
  /\ dispatcher \in {"ready", "sent", "done"}
  /\ sweep \in {"idle", "sent"}
  /\ replay \in {"idle", "keeps", "clears", "committed"}
  /\ lost \in BOOLEAN
  /\ faults \in 0 .. MaxFaults

Init ==
  /\ row = Absent
  /\ sub = TRUE
  /\ pc = [t \in Task |-> "unused"]
  /\ loaded = [t \in Task |-> Absent]
  /\ dispatcher = "ready"
  /\ sweep = "idle" /\ replay = "idle"
  /\ lost = FALSE
  /\ faults = 0

Move(t, a, b) == pc[t] = a /\ pc' = [pc EXCEPT ![t] = b]

\* The task ends and forgets what it loaded.
End(t, a) == Move(t, a, "unused") /\ loaded' = [loaded EXCEPT ![t] = Absent]

\* send_task: a new task waits for a worker.
Send(t) == Move(t, "unused", "queued") /\ UNCHANGED loaded

-----------------------------------------------------------------------------
(* dispatch_events: the task is sent before the row is committed. *)

DispatchSend ==
  /\ dispatcher = "ready"
  /\ dispatcher' = "sent"
  /\ \E t \in Task : Send(t)
  /\ UNCHANGED <<row, sub, sweep, replay, lost, faults>>

DispatchCommit ==
  /\ dispatcher = "sent"
  /\ dispatcher' = "done"
  /\ row' = [row EXCEPT !.status = "pending"]
  /\ UNCHANGED <<sub, pc, loaded, sweep, replay, lost, faults>>

-----------------------------------------------------------------------------
(* deliver_webhook. *)

RowMissing(t) ==
  /\ row.status = "none"
  /\ End(t, "queued")
  /\ UNCHANGED <<row, sub, dispatcher, sweep, replay, lost, faults>>

\* The row is loaded and will be posted, whatever its status, unless the
\* subscription is gone.
Load(t) ==
  /\ row.status # "none"
  /\ Move(t, "queued", IF sub THEN "posting" ELSE "removing")
  /\ loaded' = [loaded EXCEPT ![t] = row]
  /\ UNCHANGED <<row, sub, dispatcher, sweep, replay, lost, faults>>

\* The attempt of a task is the one it loaded plus one.
NextAttempt(t) ==
  IF loaded[t].attempt > Retries THEN Retries + 1 ELSE loaded[t].attempt + 1

\* A column is written where the new value differs from the loaded one.
Written(t, column, new) == IF loaded[t][column] = new THEN row[column] ELSE new

SubscriptionGone(t) ==
  /\ End(t, "removing")
  /\ row' = [row EXCEPT !.status = Written(t, "status", "dead")]
  /\ UNCHANGED <<sub, dispatcher, sweep, replay, lost, faults>>

PostAccepted(t) ==
  /\ End(t, "posting")
  /\ row' = [status  |-> Written(t, "status", "success"),
             attempt |-> NextAttempt(t),
             next    |-> Written(t, "next", "none")]
  /\ UNCHANGED <<sub, dispatcher, sweep, replay, lost, faults>>

\* The schedule is exhausted.
PostDead(t) ==
  /\ loaded[t].attempt + 1 > Retries
  /\ End(t, "posting")
  /\ row' = [status  |-> Written(t, "status", "dead"),
             attempt |-> NextAttempt(t),
             next    |-> Written(t, "next", "none")]
  /\ UNCHANGED <<sub, dispatcher, sweep, replay, lost, faults>>

PostFailedSweepOnly(t) ==
  /\ loaded[t].attempt + 1 <= Retries
  /\ End(t, "posting")
  /\ row' = [status  |-> Written(t, "status", "failed"),
             attempt |-> NextAttempt(t),
             next    |-> "later"]
  /\ UNCHANGED <<sub, dispatcher, sweep, replay, lost, faults>>

PostFailedForever(t) ==
  /\ Move(t, "posting", "unsent")
  /\ row' = [status  |-> Written(t, "status", "failed"),
             attempt |-> NextAttempt(t),
             next    |-> "later"]
  /\ loaded' = [loaded EXCEPT ![t] = Absent]
  /\ UNCHANGED <<sub, dispatcher, sweep, replay, lost, faults>>

\* No answer, or not 2xx: the row is FAILED until its next attempt.
PostFailed(t) ==
  /\ loaded[t].attempt + 1 <= Retries
  /\ Move(t, "posting", "unsent")
  /\ row' = [status  |-> Written(t, "status", "failed"),
             attempt |-> NextAttempt(t),
             next    |-> "later"]
  /\ loaded' = [loaded EXCEPT ![t] = Absent]
  /\ UNCHANGED <<sub, dispatcher, sweep, replay, lost, faults>>

\* After the commit: the same delivery with a countdown.
SendDelayed(t) ==
  /\ Move(t, "unsent", "delayed")
  /\ UNCHANGED <<row, sub, loaded, dispatcher, sweep, replay, lost,
                 faults>>

-----------------------------------------------------------------------------
(* Time. *)

CountdownEnds(t) ==
  /\ Move(t, "delayed", "queued")
  /\ UNCHANGED <<row, sub, loaded, dispatcher, sweep, replay, lost,
                 faults>>

RetryFallsDue ==
  /\ row.next = "later"
  /\ row' = [row EXCEPT !.next = "due"]
  /\ UNCHANGED <<sub, pc, loaded, dispatcher, sweep, replay, lost,
                 faults>>

-----------------------------------------------------------------------------
(* retry_due_deliveries: the task is sent before next_retry_at is cleared. *)

SweepSend ==
  /\ sweep = "idle"
  /\ row.status = "failed" /\ row.next = "due"
  /\ sweep' = "sent"
  /\ \E t \in Task : Send(t)
  /\ UNCHANGED <<row, sub, dispatcher, replay, lost, faults>>

SweepCommit ==
  /\ sweep = "sent"
  /\ sweep' = "idle"
  /\ row' = [row EXCEPT !.next = "none"]
  /\ UNCHANGED <<sub, pc, loaded, dispatcher, replay, lost, faults>>

-----------------------------------------------------------------------------
(* The administrator. *)

ReplayLoad ==
  /\ replay = "idle"
  /\ row.status \in {"failed", "dead"}
  /\ replay' = IF row.next = "none" THEN "keeps" ELSE "clears"
  /\ UNCHANGED <<row, sub, pc, loaded, dispatcher, sweep, lost,
                 faults>>

\* attempt is not reset: the replay of a dead row is one attempt.
ReplayCommit ==
  /\ replay \in {"keeps", "clears"}
  /\ replay' = "committed"
  /\ row' = [row EXCEPT !.status = "pending",
                        !.next = IF replay = "clears" THEN "none" ELSE @]
  /\ UNCHANGED <<sub, pc, loaded, dispatcher, sweep, lost, faults>>

ReplaySend ==
  /\ replay = "committed"
  /\ replay' = "idle"
  /\ \E t \in Task : Send(t)
  /\ UNCHANGED <<row, sub, dispatcher, sweep, lost, faults>>

DeleteSubscription ==
  /\ sub
  /\ sub' = FALSE
  /\ UNCHANGED <<row, pc, loaded, dispatcher, sweep, replay, lost,
                 faults>>

-----------------------------------------------------------------------------
(* Faults. *)

Fault(kind) ==
  /\ kind \in Faults /\ faults < MaxFaults
  /\ faults' = faults + 1

\* The process dies or the database fails before the commit: the message is
\* acknowledged, the row as it was.
Kill(t) ==
  /\ Fault("kill")
  /\ \E a \in {"posting", "removing"} : End(t, a)
  /\ lost' = TRUE
  /\ UNCHANGED <<row, sub, dispatcher, sweep, replay>>

\* The sweep's transaction is rolled back after its task was sent.
SweepKill ==
  /\ Fault("kill")
  /\ sweep = "sent"
  /\ sweep' = "idle"
  /\ UNCHANGED <<row, sub, pc, loaded, dispatcher, replay, lost>>

\* The host dies: the message is delivered again.
HostCrash(t) ==
  /\ Fault("host")
  /\ \E a \in {"posting", "removing"} : Move(t, a, "queued")
  /\ loaded' = [loaded EXCEPT ![t] = Absent]
  /\ UNCHANGED <<row, sub, dispatcher, sweep, replay, lost>>

\* The delayed task is never sent.
SendLost(t) ==
  /\ Fault("send")
  /\ End(t, "unsent")
  /\ lost' = TRUE
  /\ UNCHANGED <<row, sub, dispatcher, sweep, replay>>

\* A countdown longer than the visibility timeout: the broker gives the
\* waiting message to another worker as well.
Redeliver(t) ==
  /\ Fault("redeliver")
  /\ pc[t] = "delayed"
  /\ \E u \in Task : Move(u, "unused", "delayed")
  /\ UNCHANGED <<row, sub, loaded, dispatcher, sweep, replay, lost>>

-----------------------------------------------------------------------------
Deliver(t) ==
  \/ RowMissing(t) \/ SubscriptionGone(t) \/ Load(t)
  \/ PostAccepted(t) \/ PostDead(t) \/ PostFailed(t)
  \/ SendDelayed(t) \/ CountdownEnds(t)

Disaster(t) == Kill(t) \/ HostCrash(t) \/ SendLost(t) \/ Redeliver(t)

Next ==
  \/ DispatchSend \/ DispatchCommit
  \/ \E t \in Task : Deliver(t) \/ Disaster(t)
  \/ RetryFallsDue
  \/ SweepSend \/ SweepCommit \/ SweepKill
  \/ ReplayLoad \/ ReplayCommit \/ ReplaySend
  \/ DeleteSubscription

Spec == Init /\ [][Next]_vars

\* Workers run their tasks, time passes, beat sends the sweep and a handler
\* that has begun goes on.
Fairness ==
  /\ \A t \in Task : WF_vars(Deliver(t))
  /\ WF_vars(DispatchCommit) /\ WF_vars(RetryFallsDue)
  /\ WF_vars(SweepSend) /\ WF_vars(SweepCommit)
  /\ WF_vars(ReplayCommit) /\ WF_vars(ReplaySend)

FairSpec == Spec /\ Fairness

-----------------------------------------------------------------------------
(* Properties. *)

Outstanding == \E t \in Task : pc[t] \in InFlight

\* A row waits for its next attempt only while the sweep will find it or a task
\* is on its way, however the sweep's commit, the delayed tasks and a replay
\* cross.  One is left waiting for nobody only after a task was lost
\* (webhooks.py 187-194, 202-233).
FailedIsCovered ==
  row.status = "failed" /\ row.next = "none" /\ ~ Outstanding => lost

\* Attempts come to an end, though the sweep and the delayed tasks run side by
\* side and overwrite each other's count, unless somebody replays for ever
\* (webhooks.py 178-195).
DeliveryEnds ==
  \/ []<><<ReplayLoad>>_vars
  \/ <>[](~ Outstanding /\ (row.status = "failed" => lost))
=============================================================================
