------------------------ MODULE WebhookDeliveryProofs ------------------------
(***************************************************************************)
(* What holds of a webhook delivery for any number of concurrent tasks and  *)
(* any length of the retry schedule.                                        *)
(***************************************************************************)
EXTENDS WebhookDelivery, TLAPS

\* A task that will leave a FAILED row only for another status, or to plan the
\* next attempt: it will load the row, or it has loaded a status that what it
\* writes at the end differs from.
Owner(t) ==
  \/ pc[t] \in {"queued", "unsent", "delayed"}
  \/ /\ pc[t] \in {"posting", "removing"}
     /\ loaded[t].status \in {"pending", "failed"}

\* The inductive invariant: a FAILED row has an owner until a task is lost.
OwnedInv == row.status = "failed" => lost \/ \E t \in Task : Owner(t)

DeliveryInv == TypeOK /\ OwnedInv

-----------------------------------------------------------------------------
(* Types. *)

\* What a task writes into the row is a row.
LEMMA WrittenType ==
  ASSUME TypeOK, NEW t \in Task, NEW s \in Status,
         NEW n \in {"none", "later", "due"}
  PROVE  /\ Written(t, "status", s) \in Status
         /\ Written(t, "next", n) \in {"none", "later", "due"}
         /\ NextAttempt(t) \in Attempt
<1>1. row \in Row /\ loaded[t] \in Row
  BY DEF TypeOK
<1>2. row.status \in Status /\ row.next \in {"none", "later", "due"}
  BY <1>1 DEF Row
<1>3. loaded[t].attempt \in 0 .. Retries + 1
  BY <1>1 DEF Row, Attempt
<1>4. NextAttempt(t) \in Attempt
  BY <1>3, DeliveryAssumption DEF NextAttempt, Attempt
<1>5. QED
  BY <1>2, <1>4 DEF Written

\* A row that does not exist yet is a row as well.
LEMMA AbsentType == Absent \in Row
BY DeliveryAssumption DEF Absent, Row, Status, Attempt

\* The steps of a task keep the types.
LEMMA DeliverType ==
  ASSUME TypeOK, NEW t \in Task, Deliver(t)
  PROVE  TypeOK'
<1> USE DEF Move, End, InFlight
<1>1. CASE RowMissing(t)
  BY <1>1, AbsentType DEF RowMissing, TypeOK
<1>2. CASE SubscriptionGone(t)
  <2>1. row' \in Row
    BY <1>2, WrittenType DEF SubscriptionGone, TypeOK, Row, Status
  <2>2. QED
    BY <1>2, <2>1, AbsentType DEF SubscriptionGone, TypeOK
<1>3. CASE Load(t)
  BY <1>3 DEF Load, TypeOK
<1>4. CASE PostAccepted(t)
  <2>1. row' \in Row
    BY <1>4, WrittenType DEF PostAccepted, Row, Status
  <2>2. QED
    BY <1>4, <2>1, AbsentType DEF PostAccepted, TypeOK
<1>5. CASE PostDead(t)
  <2>1. row' \in Row
    BY <1>5, WrittenType DEF PostDead, Row, Status
  <2>2. QED
    BY <1>5, <2>1, AbsentType DEF PostDead, TypeOK
<1>6. CASE PostFailed(t)
  <2>1. row' \in Row
    BY <1>6, WrittenType DEF PostFailed, Row, Status
  <2>2. QED
    BY <1>6, <2>1, AbsentType DEF PostFailed, TypeOK
<1>7. CASE SendDelayed(t)
  BY <1>7 DEF SendDelayed, TypeOK
<1>8. CASE CountdownEnds(t)
  BY <1>8 DEF CountdownEnds, TypeOK
<1>9. QED
  BY <1>1, <1>2, <1>3, <1>4, <1>5, <1>6, <1>7, <1>8 DEF Deliver

\* So do the faults that hit a task.
LEMMA DisasterType ==
  ASSUME TypeOK, NEW t \in Task, Disaster(t)
  PROVE  TypeOK'
<1> USE DeliveryAssumption DEF Move, End, InFlight, Fault
<1>1. CASE Kill(t)
  BY <1>1, AbsentType DEF Kill, TypeOK
<1>2. CASE HostCrash(t)
  BY <1>2, AbsentType DEF HostCrash, TypeOK
<1>3. CASE SendLost(t)
  BY <1>3, AbsentType DEF SendLost, TypeOK
<1>4. CASE Redeliver(t)
  BY <1>4 DEF Redeliver, TypeOK
<1>5. QED
  BY <1>1, <1>2, <1>3, <1>4 DEF Disaster

\* Every step keeps the types.
LEMMA TypeStep ==
  ASSUME TypeOK, [Next]_vars
  PROVE  TypeOK'
<1> USE DEF Move, Send, InFlight
<1>1. CASE DispatchSend \/ SweepSend \/ ReplaySend
  BY <1>1 DEF DispatchSend, SweepSend, ReplaySend, TypeOK
<1>2. CASE DispatchCommit \/ RetryFallsDue \/ SweepCommit \/ ReplayCommit
  <2>1. row' \in Row
    BY <1>2
       DEF DispatchCommit, RetryFallsDue, SweepCommit, ReplayCommit, TypeOK,
           Row, Status
  <2>2. QED
    BY <1>2, <2>1
       DEF DispatchCommit, RetryFallsDue, SweepCommit, ReplayCommit, TypeOK
<1>3. CASE SweepKill
  BY <1>3, DeliveryAssumption DEF SweepKill, Fault, TypeOK
<1>4. CASE ReplayLoad \/ DeleteSubscription
  BY <1>4 DEF ReplayLoad, DeleteSubscription, TypeOK
<1>5. CASE UNCHANGED vars
  BY <1>5 DEF vars, TypeOK
<1>6. QED
  BY <1>1, <1>2, <1>3, <1>4, <1>5, DeliverType, DisasterType DEF Next

-----------------------------------------------------------------------------
(* Ownership. *)

\* The end of one task takes nothing from the others.
LEMMA OthersKept ==
  ASSUME NEW t \in Task, TypeOK,
         NEW a, End(t, a),
         NEW u \in Task, u # t, Owner(u)
  PROVE  Owner(u)'
<1>1. pc'[u] = pc[u] /\ loaded'[u] = loaded[u]
  BY DEF Move, End, TypeOK
<1>2. QED
  BY <1>1 DEF Owner

\* The steps of a task keep a FAILED row owned.
LEMMA DeliverOwned ==
  ASSUME DeliveryInv, NEW t \in Task, Deliver(t)
  PROVE  OwnedInv'
<1> SUFFICES ASSUME row'.status = "failed", ~ lost'
             PROVE  \E u \in Task : Owner(u)'
  BY DEF OwnedInv
<1> USE DEF DeliveryInv
<1>1. row \in Row /\ loaded[t] \in Row
  BY DEF TypeOK
<1>2. CASE RowMissing(t)
  BY <1>2 DEF RowMissing
<1>4. CASE Load(t)
  <2>1. row.status = "failed" /\ ~ lost
    BY <1>4 DEF Load
  <2>2. pc'[t] \in {"posting", "removing"} /\ loaded'[t] = row
    BY <1>4 DEF Load, Move, TypeOK
  <2>3. QED
    BY <2>1, <2>2 DEF Owner
<1>5. CASE PostFailed(t)
  <2>1. pc'[t] = "unsent"
    BY <1>5 DEF PostFailed, Move, TypeOK
  <2>2. QED
    BY <2>1 DEF Owner
<1>6. CASE SendDelayed(t)
  <2>1. pc'[t] = "delayed"
    BY <1>6 DEF SendDelayed, Move, TypeOK
  <2>2. QED
    BY <2>1 DEF Owner
<1>7. CASE CountdownEnds(t)
  <2>1. pc'[t] = "queued"
    BY <1>7 DEF CountdownEnds, Move, TypeOK
  <2>2. QED
    BY <2>1 DEF Owner
<1>8. ASSUME NEW s \in {"success", "dead"},
             row'.status = Written(t, "status", s),
             NEW a \in {"posting", "removing"}, End(t, a), lost' = lost
      PROVE  \E u \in Task : Owner(u)'
  <2>1. loaded[t].status = s /\ row.status = "failed" /\ ~ lost
    BY <1>8 DEF Written
  <2>2. PICK u \in Task : Owner(u)
    BY <2>1 DEF OwnedInv
  <2>3. u # t
    BY <1>8, <2>1, <2>2 DEF Owner, End, Move
  <2>4. Owner(u)'
    BY <1>8, <2>2, <2>3, OthersKept
  <2>5. QED
    BY <2>4
<1>9. CASE PostAccepted(t)
  BY <1>8, <1>9 DEF PostAccepted
<1>10. CASE PostDead(t)
  BY <1>8, <1>10 DEF PostDead
<1>11. CASE SubscriptionGone(t)
  <2>1. row'.status = Written(t, "status", "dead")
    BY <1>1, <1>11 DEF SubscriptionGone, Row
  <2>2. QED
    BY <1>8, <1>11, <2>1 DEF SubscriptionGone
<1>12. QED
  BY <1>2, <1>4, <1>5, <1>6, <1>7, <1>9, <1>10, <1>11 DEF Deliver

\* Every step keeps a FAILED row owned.
LEMMA OwnedStep ==
  ASSUME DeliveryInv, [Next]_vars
  PROVE  OwnedInv'
<1> USE DEF DeliveryInv
<1>1. ASSUME NEW t \in Task, Disaster(t) PROVE OwnedInv'
  <2>1. CASE Kill(t) \/ SendLost(t)
    BY <2>1 DEF Kill, SendLost, OwnedInv
  <2>2. CASE HostCrash(t)
    <3>1. pc'[t] = "queued"
      BY <2>2 DEF HostCrash, Move, TypeOK
    <3>2. QED
      BY <3>1 DEF OwnedInv, Owner
  <2>3. CASE Redeliver(t)
    <3>1. PICK u \in Task : Move(u, "unused", "delayed")
      BY <2>3 DEF Redeliver
    <3>2. pc'[u] = "delayed"
      BY <3>1 DEF Move, TypeOK
    <3>3. QED
      BY <3>2 DEF OwnedInv, Owner
  <2>4. QED
    BY <1>1, <2>1, <2>2, <2>3 DEF Disaster
<1>2. ASSUME DispatchSend \/ SweepSend \/ ReplaySend PROVE OwnedInv'
  <2>1. PICK t \in Task : Send(t)
    BY <1>2 DEF DispatchSend, SweepSend, ReplaySend
  <2>2. pc'[t] = "queued"
    BY <2>1 DEF Send, Move, TypeOK
  <2>3. QED
    BY <2>2 DEF OwnedInv, Owner
<1>3. CASE DispatchCommit \/ ReplayCommit
  <2>1. row'.status = "pending"
    BY <1>3 DEF DispatchCommit, ReplayCommit, TypeOK, Row
  <2>2. QED
    BY <2>1 DEF OwnedInv
<1>4. CASE \/ RetryFallsDue \/ SweepCommit \/ SweepKill \/ ReplayLoad
           \/ DeleteSubscription \/ UNCHANGED vars
  <2>1. row'.status = row.status
    <3>1. \/ row' = row
          \/ row' = [row EXCEPT !.next = "due"]
          \/ row' = [row EXCEPT !.next = "none"]
      BY <1>4 DEF RetryFallsDue, SweepCommit, SweepKill, ReplayLoad,
                  DeleteSubscription, vars
    <3>2. QED
      BY <3>1 DEF TypeOK, Row
  <2>2. UNCHANGED <<pc, loaded, lost>>
    BY <1>4 DEF RetryFallsDue, SweepCommit, SweepKill, ReplayLoad,
                DeleteSubscription, vars
  <2>3. QED
    BY <2>1, <2>2 DEF OwnedInv, Owner
<1>5. QED
  BY <1>1, <1>2, <1>3, <1>4, DeliverOwned DEF Next

-----------------------------------------------------------------------------
\* A FAILED row is owned in every reachable state, until a task is lost.
LEMMA DeliveryInvariant == Spec => []DeliveryInv
<1>1. Init => DeliveryInv
  <2> SUFFICES ASSUME Init PROVE DeliveryInv
    OBVIOUS
  <2>1. TypeOK
    <3>1. /\ pc \in [Task -> InFlight \cup {"unused"}]
          /\ \A t \in Task : pc[t] \notin {"posting", "removing"}
      BY DEF Init
    <3>2. row \in Row /\ loaded \in [Task -> Row]
      BY AbsentType DEF Init
    <3>3. faults \in 0 .. MaxFaults
      BY DeliveryAssumption DEF Init
    <3>4. QED
      BY <3>1, <3>2, <3>3 DEF Init, TypeOK
  <2>2. OwnedInv
    BY DEF Init, OwnedInv, Absent
  <2>3. QED
    BY <2>1, <2>2 DEF DeliveryInv
<1>2. DeliveryInv /\ [Next]_vars => DeliveryInv'
  BY TypeStep, OwnedStep DEF DeliveryInv
<1>3. QED
  BY <1>1, <1>2, PTL DEF Spec

\* The row and the tasks keep their types, and a task posts only a row that
\* exists (webhooks.py 130-136).
THEOREM DeliveryTypeCorrect == Spec => []TypeOK
<1>1. DeliveryInv => TypeOK
  BY DEF DeliveryInv
<1>2. QED
  BY <1>1, DeliveryInvariant, PTL

\* A row is left FAILED for nobody only after a task was lost, for any number
\* of tasks that deliver it side by side (webhooks.py 178-195, 202-233).
THEOREM FailedCovered == Spec => []FailedIsCovered
<1>1. DeliveryInv => FailedIsCovered
  BY DEF DeliveryInv, OwnedInv, Owner, FailedIsCovered, Outstanding, InFlight
<1>2. QED
  BY <1>1, DeliveryInvariant, PTL
=============================================================================
