--------------------------- MODULE PipelineProofs ---------------------------
(***************************************************************************)
(* What holds of the pipeline for any number of tasks, workers, retries,    *)
(* units and faults, and for every kind of asset.                           *)
(***************************************************************************)
EXTENDS Pipeline, FiniteSetTheorems, TLAPS

-----------------------------------------------------------------------------
(* Type correctness. *)

\* What a task forgets is replaced by values of the same types.
LEMMA ForgetType ==
  ASSUME TypeOK, NEW t \in Task, Forget(t)
  PROVE  /\ prev' \in [Task -> Status]
         /\ seen' \in [Task -> BOOLEAN]
         /\ read' \in [Task -> SUBSET Unit]
         /\ due' \in [Task -> SUBSET Unit]
BY DEF TypeOK, Forget, Status

\* The end of a step keeps the types of what it writes: shared by the five
\* steps that may succeed (runner.py 168-202).
LEMMA StepSucceededType ==
  ASSUME TypeOK, NEW t \in Task, StepSucceeded(t)
  PROVE  /\ status' \in Status
         /\ del' = del
         /\ pc' \in [Task -> Label]
         /\ from' = from /\ retries' = retries
         /\ step' \in [Task -> Step]
         /\ prev' \in [Task -> Status]
         /\ seen' \in [Task -> BOOLEAN]
         /\ read' \in [Task -> SUBSET Unit]
         /\ due' \in [Task -> SUBSET Unit]
         /\ indexed' \in BOOLEAN
         /\ faults' = faults
<1>1. StepAfter[step[t]] \in Step
  BY DEF TypeOK, Step, StepAfter
<1>2. step' \in [Task -> Step]
  BY <1>1 DEF TypeOK, StepSucceeded
<1>3. pc' \in [Task -> Label]
  BY DEF TypeOK, StepSucceeded, Goto, Label, InFlight, Active, InStep
<1>4. status' \in Status
  BY DEF TypeOK, StepSucceeded, Status
<1>5. /\ prev' \in [Task -> Status]
      /\ seen' \in [Task -> BOOLEAN]
      /\ read' \in [Task -> SUBSET Unit]
      /\ due' \in [Task -> SUBSET Unit]
  BY ForgetType DEF StepSucceeded
<1>6. indexed' \in BOOLEAN
  BY DEF TypeOK, StepSucceeded
<1>7. QED
  BY <1>2, <1>3, <1>4, <1>5, <1>6 DEF StepSucceeded

\* The end of a failed step keeps the types: autoretry never counts beyond
\* max_retries (runner.py 142-167, tasks.py 117-128).
LEMMA StepFailedType ==
  ASSUME TypeOK, NEW t \in Task, NEW upstream \in BOOLEAN,
         StepFailed(t, upstream)
  PROVE  /\ status' \in Status
         /\ del' = del
         /\ pc' \in [Task -> Label]
         /\ from' = from /\ step' = step
         /\ retries' \in [Task -> 0 .. MaxRetries]
         /\ prev' \in [Task -> Status]
         /\ seen' \in [Task -> BOOLEAN]
         /\ read' \in [Task -> SUBSET Unit]
         /\ due' \in [Task -> SUBSET Unit]
         /\ indexed' = indexed
         /\ faults' = faults
<1>1. retries' \in [Task -> 0 .. MaxRetries]
  BY PipelineAssumption DEF TypeOK, StepFailed, TaskRaised
<1>2. pc' \in [Task -> Label]
  BY DEF TypeOK, StepFailed, TaskRaised, Goto, Label, InFlight, Active, InStep
<1>3. /\ prev' \in [Task -> Status]
      /\ seen' \in [Task -> BOOLEAN]
      /\ read' \in [Task -> SUBSET Unit]
      /\ due' \in [Task -> SUBSET Unit]
  BY ForgetType DEF StepFailed, TaskRaised
<1>4. QED
  BY <1>1, <1>2, <1>3 DEF StepFailed, TaskRaised, Status

\* A task's move to a label is well typed.
LEMMA GotoType ==
  ASSUME TypeOK, NEW t \in Task, NEW l \in Label, Goto(t, l)
  PROVE  pc' \in [Task -> Label]
BY DEF TypeOK, Goto

\* The database, the caches and the task records keep their types.
THEOREM TypeCorrect == Spec => []TypeOK
<1>1. Init => TypeOK
  <2> SUFFICES ASSUME Init PROVE TypeOK
    OBVIOUS
  <2>1. pc \in [Task -> Label]
    BY DEF Init, Label, InFlight
  <2>2. /\ retries \in [Task -> 0 .. MaxRetries]
        /\ faults \in 0 .. MaxFaults
    BY PipelineAssumption DEF Init
  <2>3. QED
    BY <2>1, <2>2 DEF Init, TypeOK, Status, Step
<1>2. TypeOK /\ [Next]_vars => TypeOK'
  <2> SUFFICES ASSUME TypeOK, [Next]_vars PROVE TypeOK'
    OBVIOUS
  <2> USE DEF vars, taskVars, dataVars
  <2>1. ASSUME NEW t \in Task, NEW s \in RetryFrom, RetryAsset(t, s)
        PROVE  TypeOK'
    <3>1. s \in Step
      BY PipelineAssumption DEF Step
    <3>2. pc' \in [Task -> Label]
      BY <2>1, GotoType DEF RetryAsset, Label, InFlight
    <3>3. QED
      BY <2>1, <3>1, <3>2 DEF RetryAsset, TypeOK, Status
  <2>2. ASSUME NEW t \in Task, SendTask(t) PROVE TypeOK'
    <3>1. pc' \in [Task -> Label]
      BY <2>2, GotoType DEF SendTask, Label, InFlight
    <3>2. QED
      BY <2>2, <3>1 DEF SendTask, TypeOK
  <2>3. CASE DeleteAsset
    BY <2>3 DEF DeleteAsset, TypeOK, Status
  <2>4. CASE DeleteVectors
    BY <2>4 DEF DeleteVectors, TypeOK
  <2>5. CASE PurgeFail
    BY <2>5, PipelineAssumption DEF PurgeFail, Fault, TypeOK
  <2>6. ASSUME NEW t \in Task, RunStep(t) PROVE TypeOK'
    <3>1. CASE TakeTask(t)
      <4>1. pc' \in [Task -> Label]
        BY <3>1, GotoType DEF TakeTask, Label, InFlight, Active
      <4>2. QED
        BY <3>1, <4>1 DEF TakeTask, TypeOK
    <3>2. CASE BeginStep(t)
      <4>1. pc' \in [Task -> Label]
        BY <3>2, GotoType DEF BeginStep, Label, InFlight, Active, InStep
      <4>2. QED
        BY <3>2, <4>1 DEF BeginStep, TypeOK, Status
    <3>3. CASE AssetGone(t)
      <4>1. pc' \in [Task -> Label]
        BY <3>3, GotoType DEF AssetGone, Label
      <4>2. QED
        BY <3>3, <4>1 DEF AssetGone, TypeOK
    <3>4. CASE ParseDone(t)
      <4>1. hasCache' \in BOOLEAN
        BY <3>4 DEF ParseDone, MetaWritten, TypeOK
      <4>2. QED
        BY <3>4, <4>1, StepSucceededType DEF ParseDone, TypeOK
    <3>5. CASE ParseBusy(t)
      <4>1. pc' \in [Task -> Label]
        BY <3>5, GotoType DEF ParseBusy, Label, InFlight, Active
      <4>2. status' \in Status
        BY <3>5 DEF ParseBusy, TypeOK
      <4>3. QED
        BY <3>5, <4>1, <4>2, ForgetType DEF ParseBusy, TypeOK
    <3>6. CASE ChunkSkip(t)
      BY <3>6, StepSucceededType DEF ChunkSkip, TypeOK
    <3>7. CASE ChunkRead(t)
      <4>1. pc' \in [Task -> Label]
        BY <3>7, GotoType DEF ChunkRead, Label, InFlight, Active, InStep
      <4>2. QED
        BY <3>7, <4>1 DEF ChunkRead, TypeOK
    <3>8. CASE ChunkCommit(t)
      <4>1. hasCache' \in BOOLEAN
        BY <3>8 DEF ChunkCommit, MetaWritten, TypeOK
      <4>2. PICK g \in FreshGen : units' = (units \ read[t]) \cup ({g} \X Batch)
        BY <3>8 DEF ChunkCommit
      <4>3. units' \in SUBSET Unit /\ marked' \in SUBSET Unit
        BY <3>8, <4>2 DEF ChunkCommit, TypeOK, FreshGen, Unit
      <4>4. QED
        BY <3>8, <4>1, <4>3, StepSucceededType DEF ChunkCommit, TypeOK
    <3>9. CASE GraphDone(t)
      <4>1. hasCache' \in BOOLEAN
        BY <3>9 DEF GraphDone, MetaWritten, TypeOK
      <4>2. QED
        BY <3>9, <4>1, StepSucceededType DEF GraphDone, TypeOK
    <3>10. CASE EmbedRead(t)
      <4>1. pc' \in [Task -> Label]
        BY <3>10, GotoType DEF EmbedRead, Label, InFlight, Active, InStep
      <4>2. PICK r \in EmbedChoice : /\ read' = [read EXCEPT ![t] = r]
                                     /\ due' = [due EXCEPT ![t] = r \ marked]
        BY <3>10 DEF EmbedRead
      <4>3. r \in SUBSET Unit
        BY PipelineAssumption DEF EmbedChoice, TypeOK
      <4>4. read' \in [Task -> SUBSET Unit] /\ due' \in [Task -> SUBSET Unit]
        BY <4>2, <4>3 DEF TypeOK
      <4>5. QED
        BY <3>10, <4>1, <4>4 DEF EmbedRead, TypeOK
    <3>11. CASE EmbedNothing(t)
      BY <3>11, StepFailedType DEF EmbedNothing, TypeOK
    <3>12. CASE EmbedStore(t)
      <4>1. pc' \in [Task -> Label]
        BY <3>12, GotoType DEF EmbedStore, Label, InFlight, Active, InStep
      <4>2. QED
        BY <3>12, <4>1 DEF EmbedStore, TypeOK
    <3>13. CASE EmbedStale(t)
      BY <3>13, StepFailedType DEF EmbedStale, TypeOK
    <3>14. CASE EmbedCommit(t)
      BY <3>14, StepSucceededType DEF EmbedCommit, TypeOK
    <3>15. CASE IndexNothing(t)
      BY <3>15, StepFailedType DEF IndexNothing, TypeOK
    <3>16. CASE IndexRead(t)
      <4>1. pc' \in [Task -> Label]
        BY <3>16, GotoType DEF IndexRead, Label, InFlight, Active, InStep
      <4>2. QED
        BY <3>16, <4>1 DEF IndexRead, TypeOK
    <3>17. CASE IndexDelete(t)
      <4>1. pc' \in [Task -> Label]
        BY <3>17, GotoType DEF IndexDelete, Label, InFlight, Active, InStep
      <4>2. QED
        BY <3>17, <4>1 DEF IndexDelete, TypeOK
    <3>18. CASE IndexUpsert(t)
      <4>1. pc' \in [Task -> Label]
        BY <3>18, GotoType DEF IndexUpsert, Label, InFlight, Active, InStep
      <4>2. vectors' \in SUBSET Unit
        BY <3>18 DEF IndexUpsert, TypeOK
      <4>3. QED
        BY <3>18, <4>1, <4>2 DEF IndexUpsert, TypeOK
    <3>19. CASE IndexCommit(t)
      BY <3>19, StepSucceededType DEF IndexCommit, TypeOK
    <3>20. ASSUME NEW upstream \in BOOLEAN, StepFail(t, upstream)
           PROVE  TypeOK'
      BY <3>20, StepFailedType DEF StepFail, TypeOK
    <3>21. ASSUME NEW upstream \in BOOLEAN, NEW done \in SUBSET due[t],
                  EmbedFailed(t, done, upstream)
           PROVE  TypeOK'
      <4>1. marked' \in SUBSET Unit
        BY <3>21 DEF EmbedFailed, TypeOK
      <4>2. QED
        BY <3>21, <4>1, StepFailedType DEF EmbedFailed, TypeOK
    <3>22. CASE FileDone(t)
      <4>1. pc' \in [Task -> Label]
        BY <3>22, GotoType DEF FileDone, Label
      <4>2. QED
        BY <3>22, <4>1 DEF FileDone, TypeOK
    <3>23. CASE SendAgain(t)
      <4>1. pc' \in [Task -> Label]
        BY <3>23, GotoType DEF SendAgain, Label, InFlight
      <4>2. retries' \in [Task -> 0 .. MaxRetries]
        BY <3>23, PipelineAssumption DEF SendAgain, TypeOK
      <4>3. QED
        BY <3>23, <4>1, <4>2 DEF SendAgain, TypeOK
    <3>24. QED
      BY <2>6, <3>1, <3>2, <3>3, <3>4, <3>5, <3>6, <3>7, <3>8, <3>9, <3>10,
         <3>11, <3>12, <3>13, <3>14, <3>15, <3>16, <3>17, <3>18, <3>19, <3>20,
         <3>21, <3>22, <3>23 DEF RunStep
  <2>7. ASSUME NEW t \in Task, Disaster(t) PROVE TypeOK'
    <3>1. ASSUME NEW kind, Fault(kind) PROVE faults' \in 0 .. MaxFaults
      BY <3>1, PipelineAssumption DEF Fault, TypeOK
    <3>2. ASSUME Forget(t)
          PROVE  /\ prev' \in [Task -> Status]
                 /\ seen' \in [Task -> BOOLEAN]
                 /\ read' \in [Task -> SUBSET Unit]
                 /\ due' \in [Task -> SUBSET Unit]
      BY <3>2, ForgetType
    <3>3. ASSUME NEW recorded \in BOOLEAN, DbFault(t, recorded) PROVE TypeOK'
      <4>1. pc' \in [Task -> Label] /\ status' \in Status
        BY <3>3, GotoType DEF DbFault, Label, Status, TypeOK
      <4>2. QED
        BY <3>1, <3>2, <3>3, <4>1 DEF DbFault, TypeOK
    <3>4. CASE Kill(t)
      <4>1. pc' \in [Task -> Label]
        BY <3>4, GotoType DEF Kill, Label
      <4>2. QED
        BY <3>1, <3>2, <3>4, <4>1 DEF Kill, TypeOK
    <3>5. CASE HostCrash(t)
      <4>1. pc' \in [Task -> Label]
        BY <3>5, GotoType DEF HostCrash, Label, InFlight
      <4>2. QED
        BY <3>1, <3>2, <3>5, <4>1 DEF HostCrash, TypeOK
    <3>6. CASE SendLost(t)
      <4>1. pc' \in [Task -> Label]
        BY <3>6, GotoType DEF SendLost, Label
      <4>2. QED
        BY <3>1, <3>6, <4>1 DEF SendLost, TypeOK
    <3>7. QED
      BY <2>7, <3>3, <3>4, <3>5, <3>6 DEF Disaster
  <2>8. ASSUME NEW t \in Task, NEW u \in Task, Redeliver(t, u) PROVE TypeOK'
    <3>1. pc' \in [Task -> Label]
      BY <2>8, GotoType DEF Redeliver, Label, InFlight
    <3>2. faults' \in 0 .. MaxFaults
      BY <2>8, PipelineAssumption DEF Redeliver, Fault, TypeOK
    <3>3. QED
      BY <2>8, <3>1, <3>2 DEF Redeliver, TypeOK
  <2>9. CASE UNCHANGED vars
    BY <2>9 DEF TypeOK
  <2>10. QED
    BY <2>1, <2>2, <2>3, <2>4, <2>5, <2>6, <2>7, <2>8, <2>9 DEF Next
<1>3. QED
  BY <1>1, <1>2, PTL DEF Spec

-----------------------------------------------------------------------------
(* No asset waits without a reason. *)

\* An asset waits, and the tasks that account for it.
Waiting == del = "live" /\ status \in {"pending", "processing"}
Accountable == InFlight \cup {"abandoned", "lost"}

\* Whatever a task's move does to the asset, it accounts for it afterwards.
LEMMA MoveAccounts ==
  ASSUME TypeOK, NEW t \in Task, NEW l \in Accountable, Goto(t, l)
  PROVE  StallIsAccounted'
BY DEF TypeOK, Goto, StallIsAccounted, Accountable

\* An asset that does not wait needs no account.
LEMMA NotWaiting ==
  ASSUME Waiting' => FALSE
  PROVE  StallIsAccounted'
BY DEF Waiting, StallIsAccounted

\* A step that ends leaves the asset settled or the task on its way
\* (runner.py 142-202).
LEMMA EndedStepAccounts ==
  ASSUME TypeOK, NEW t \in Task,
         \/ StepSucceeded(t)
         \/ \E upstream \in BOOLEAN : StepFailed(t, upstream)
  PROVE  StallIsAccounted'
<1>1. CASE StepSucceeded(t) /\ step[t] = LastStep
  BY <1>1, NotWaiting DEF StepSucceeded, Waiting
<1>2. CASE StepSucceeded(t) /\ step[t] # LastStep
  <2>1. Goto(t, "between")
    BY <1>2 DEF StepSucceeded
  <2>2. QED
    BY <2>1, MoveAccounts DEF Accountable, InFlight, Active
<1>3. ASSUME NEW upstream \in BOOLEAN, StepFailed(t, upstream)
      PROVE  StallIsAccounted'
  BY <1>3, NotWaiting DEF StepFailed, Waiting
<1>4. QED
  BY <1>1, <1>2, <1>3

\* A live asset is never left waiting unless PostgreSQL failed under its task
\* or the task was lost (runner.py, tasks.py, assets.py).
THEOREM StallAccounted == Spec => []StallIsAccounted
<1>1. Init => StallIsAccounted
  <2> SUFFICES ASSUME Init PROVE StallIsAccounted
    OBVIOUS
  <2>1. PICK first \in Task :
          pc = [t \in Task |-> IF t = first THEN "unsent" ELSE "unused"]
    BY DEF Init
  <2>2. pc[first] \in InFlight
    BY <2>1 DEF InFlight
  <2>3. QED
    BY <2>2 DEF StallIsAccounted
<1>2. TypeOK /\ StallIsAccounted /\ [Next]_vars => StallIsAccounted'
  <2> SUFFICES ASSUME TypeOK, StallIsAccounted, [Next]_vars
               PROVE  StallIsAccounted'
    OBVIOUS
  <2> USE DEF vars, taskVars
  <2>1. ASSUME NEW t \in Task, NEW s \in RetryFrom, RetryAsset(t, s)
        PROVE  StallIsAccounted'
    BY <2>1, MoveAccounts DEF RetryAsset, Accountable, InFlight
  <2>2. ASSUME NEW t \in Task, SendTask(t) PROVE StallIsAccounted'
    BY <2>2, MoveAccounts DEF SendTask, Accountable, InFlight
  <2>3. CASE DeleteAsset \/ DeleteVectors \/ PurgeFail
    BY <2>3, NotWaiting DEF DeleteAsset, DeleteVectors, PurgeFail, Waiting
  <2>4. ASSUME NEW t \in Task, RunStep(t) PROVE StallIsAccounted'
    <3>1. CASE \/ TakeTask(t) \/ BeginStep(t) \/ ParseBusy(t) \/ SendAgain(t)
               \/ ChunkRead(t) \/ EmbedRead(t) \/ EmbedStore(t)
               \/ IndexRead(t) \/ IndexDelete(t) \/ IndexUpsert(t)
      <4>1. \E l \in Accountable : Goto(t, l)
        BY <3>1 DEF TakeTask, BeginStep, ParseBusy, SendAgain, ChunkRead, EmbedRead,
                    EmbedStore, IndexRead, IndexDelete, IndexUpsert,
                    Accountable, InFlight, Active, InStep
      <4>2. QED
        BY <4>1, MoveAccounts
    <3>2. CASE AssetGone(t)
      BY <3>2, NotWaiting DEF AssetGone, Waiting
    <3>3. CASE \/ ParseDone(t) \/ ChunkSkip(t) \/ ChunkCommit(t)
               \/ GraphDone(t) \/ EmbedCommit(t) \/ IndexCommit(t)
      BY <3>3, EndedStepAccounts
         DEF ParseDone, ChunkSkip, ChunkCommit, GraphDone, EmbedCommit,
             IndexCommit
    <3>4. CASE EmbedNothing(t) \/ EmbedStale(t) \/ IndexNothing(t)
      <4>1. StepFailed(t, FALSE)
        BY <3>4 DEF EmbedNothing, EmbedStale, IndexNothing
      <4>2. QED
        BY <4>1, EndedStepAccounts
    <3>5. ASSUME NEW upstream \in BOOLEAN,
                 \/ StepFail(t, upstream)
                 \/ \E done \in SUBSET due[t] : EmbedFailed(t, done, upstream)
          PROVE  StallIsAccounted'
      <4>1. StepFailed(t, upstream)
        BY <3>5 DEF StepFail, EmbedFailed
      <4>2. QED
        BY <4>1, EndedStepAccounts
    <3>6. CASE FileDone(t)
      BY <3>6 DEF FileDone, StallIsAccounted, Goto, TypeOK, InFlight, Active, InStep
    <3>7. QED
      BY <2>4, <3>1, <3>2, <3>3, <3>4, <3>5, <3>6 DEF RunStep
  <2>5. ASSUME NEW t \in Task, Disaster(t) PROVE StallIsAccounted'
    <3>1. ASSUME NEW recorded \in BOOLEAN, DbFault(t, recorded)
          PROVE  StallIsAccounted'
      <4>1. CASE recorded
        BY <3>1, <4>1, NotWaiting DEF DbFault, Waiting
      <4>2. CASE ~ recorded
        BY <3>1, <4>2, MoveAccounts DEF DbFault, Accountable
      <4>3. QED
        BY <4>1, <4>2
    <3>2. CASE Kill(t) \/ HostCrash(t) \/ SendLost(t)
      <4>1. \E l \in Accountable : Goto(t, l)
        BY <3>2 DEF Kill, HostCrash, SendLost, Accountable, InFlight
      <4>2. QED
        BY <4>1, MoveAccounts
    <3>3. QED
      BY <2>5, <3>1, <3>2 DEF Disaster
  <2>6. ASSUME NEW t \in Task, NEW u \in Task, Redeliver(t, u) PROVE StallIsAccounted'
    BY <2>6, MoveAccounts DEF Redeliver, Accountable, InFlight
  <2>7. CASE UNCHANGED vars
    BY <2>7 DEF StallIsAccounted
  <2>8. QED
    BY <2>1, <2>2, <2>3, <2>4, <2>5, <2>6, <2>7 DEF Next
<1>3. QED
  BY <1>1, <1>2, TypeCorrect, PTL DEF Spec

-----------------------------------------------------------------------------
(* READY is never shown before an index step succeeded. *)

\* Inductive: a status read when a step began may be put back later, so the
\* previous statuses must be accounted for as well; a task files only what it
\* has indexed.
ReadyInv ==
  /\ ReadyHasBeenIndexed
  /\ \A t \in Task : prev[t] = "ready" => indexed
  /\ \A t \in Task : pc[t] = "filing" => indexed

\* A deferred parse puts back only a READY that an index step has earned
\* (runner.py 112-119, 133-141).
LEMMA ReadyEarned == Spec => []ReadyInv
<1>1. Init => ReadyInv
  BY DEF Init, ReadyInv, ReadyHasBeenIndexed
<1>2. TypeOK /\ ReadyInv /\ [Next]_vars => ReadyInv'
  <2> SUFFICES ASSUME TypeOK, ReadyInv, [Next]_vars PROVE ReadyInv'
    OBVIOUS
  <2> USE DEF vars, taskVars
  <2>1. ASSUME NEW t \in Task, prev' = prev \/ Forget(t),
               indexed' = indexed \/ indexed',
               status' = status \/ status' # "ready",
               \/ pc' = pc
               \/ \E l : Goto(t, l) /\ l # "filing"
               \/ indexed'
        PROVE  ReadyInv'
    <3>1. \A u \in Task : prev'[u] = "ready" => prev[u] = "ready"
      BY <2>1 DEF Forget, TypeOK
    <3>2. indexed => indexed'
      BY <2>1
    <3>3. \A u \in Task : pc'[u] = "filing" => pc[u] = "filing" \/ indexed'
      BY <2>1 DEF Goto, TypeOK
    <3>4. status' = "ready" => indexed'
      BY <2>1, <3>2 DEF ReadyInv, ReadyHasBeenIndexed
    <3>5. QED
      BY <3>1, <3>2, <3>3, <3>4 DEF ReadyInv, ReadyHasBeenIndexed
  <2>2. ASSUME NEW t \in Task, StepSucceeded(t) PROVE ReadyInv'
    <3>1. Forget(t) /\ indexed' = (indexed \/ step[t] = "index")
      BY <2>2 DEF StepSucceeded
    <3>2. CASE step[t] = LastStep
      <4>1. indexed'
        BY <3>1, <3>2 DEF LastStep
      <4>2. QED
        BY <4>1 DEF ReadyInv, ReadyHasBeenIndexed
    <3>3. CASE step[t] # LastStep
      <4>1. status' = status /\ Goto(t, "between")
        BY <2>2, <3>3 DEF StepSucceeded
      <4>2. indexed' = indexed
        BY <3>1, <3>3 DEF LastStep, TypeOK
      <4>3. QED
        BY <2>1, <3>1, <4>1, <4>2
    <3>4. QED
      BY <3>2, <3>3
  <2>3. ASSUME NEW t \in Task, NEW upstream \in BOOLEAN,
               StepFailed(t, upstream)
        PROVE  ReadyInv'
    <3>1. Forget(t) /\ indexed' = indexed /\ status' = "failed"
      BY <2>3 DEF StepFailed, TaskRaised
    <3>2. Goto(t, "queued") \/ Goto(t, "dead")
      BY <2>3 DEF StepFailed, TaskRaised
    <3>3. QED
      BY <2>1, <3>1, <3>2
  <2>4. ASSUME NEW t \in Task,
               \/ \E s \in RetryFrom : RetryAsset(t, s)
               \/ SendTask(t)
        PROVE  ReadyInv'
    BY <2>1, <2>4 DEF RetryAsset, SendTask
  <2>5. CASE DeleteAsset \/ DeleteVectors \/ PurgeFail
    BY <2>5 DEF DeleteAsset, DeleteVectors, PurgeFail, ReadyInv, ReadyHasBeenIndexed
  <2>6. ASSUME NEW t \in Task, RunStep(t) PROVE ReadyInv'
    <3>1. CASE BeginStep(t)
      BY <3>1 DEF BeginStep, Goto, TypeOK, ReadyInv, ReadyHasBeenIndexed
    <3>2. CASE ParseBusy(t)
      BY <3>2 DEF ParseBusy, Goto, Forget, TypeOK, ReadyInv, ReadyHasBeenIndexed
    <3>3. CASE \/ TakeTask(t) \/ AssetGone(t) \/ FileDone(t) \/ SendAgain(t)
               \/ ChunkRead(t) \/ EmbedRead(t) \/ EmbedStore(t)
               \/ IndexRead(t) \/ IndexDelete(t) \/ IndexUpsert(t)
      <4>1. UNCHANGED <<status, prev, indexed>>
        BY <3>3 DEF TakeTask, AssetGone, FileDone, SendAgain, ChunkRead, EmbedRead,
                    EmbedStore, IndexRead, IndexDelete, IndexUpsert
      <4>2. \E l : Goto(t, l) /\ l # "filing"
        BY <3>3 DEF TakeTask, AssetGone, FileDone, SendAgain, ChunkRead, EmbedRead,
                    EmbedStore, IndexRead, IndexDelete, IndexUpsert
      <4>3. QED
        BY <2>1, <4>1, <4>2
    <3>4. CASE \/ ParseDone(t) \/ ChunkSkip(t) \/ ChunkCommit(t)
               \/ GraphDone(t) \/ EmbedCommit(t) \/ IndexCommit(t)
      BY <2>2, <3>4 DEF ParseDone, ChunkSkip, ChunkCommit, GraphDone,
                        EmbedCommit, IndexCommit
    <3>5. CASE EmbedNothing(t) \/ EmbedStale(t) \/ IndexNothing(t)
      <4>1. StepFailed(t, FALSE)
        BY <3>5 DEF EmbedNothing, EmbedStale, IndexNothing
      <4>2. QED
        BY <2>3, <4>1
    <3>6. ASSUME NEW upstream \in BOOLEAN,
                 \/ StepFail(t, upstream)
                 \/ \E done \in SUBSET due[t] : EmbedFailed(t, done, upstream)
          PROVE  ReadyInv'
      BY <2>3, <3>6 DEF StepFail, EmbedFailed
    <3>7. QED
      BY <2>6, <3>1, <3>2, <3>3, <3>4, <3>5, <3>6 DEF RunStep
  <2>7. ASSUME NEW t \in Task, Disaster(t) PROVE ReadyInv'
    <3>1. ASSUME NEW recorded \in BOOLEAN, DbFault(t, recorded)
          PROVE  ReadyInv'
      BY <2>1, <3>1 DEF DbFault
    <3>2. CASE Kill(t) \/ HostCrash(t) \/ SendLost(t)
      BY <2>1, <3>2 DEF Kill, HostCrash, SendLost
    <3>3. QED
      BY <2>7, <3>1, <3>2 DEF Disaster
  <2>8. ASSUME NEW t \in Task, NEW u \in Task, Redeliver(t, u) PROVE ReadyInv'
    BY <2>1, <2>8 DEF Redeliver
  <2>9. CASE UNCHANGED vars
    BY <2>9 DEF ReadyInv, ReadyHasBeenIndexed
  <2>10. QED
    BY <2>2, <2>3, <2>4, <2>5, <2>6, <2>7, <2>8, <2>9 DEF Next
<1>3. QED
  BY <1>1, <1>2, TypeCorrect, PTL DEF Spec

\* READY is shown only after an index step succeeded (runner.py 133-141).
THEOREM ReadyIndexed == Spec => []ReadyHasBeenIndexed
<1>1. ReadyInv => ReadyHasBeenIndexed
  BY DEF ReadyInv
<1>2. QED
  BY <1>1, ReadyEarned, PTL

-----------------------------------------------------------------------------
(* The tasks implement the asset a user may rely on. *)

\* Where a task is that a fault took away.
TakenAway == {"abandoned", "lost"}

\* What a task's move does to the tasks that will still act on the asset.
LEMMA HandsMove ==
  ASSUME TypeOK, NEW t \in Task, NEW l \in Label, Goto(t, l), pc[t] \notin TakenAway
  PROVE  /\ Hands' = IF l \in InFlight THEN Hands \cup {t} ELSE Hands \ {t}
         /\ Dropped' = (Dropped \/ l \in TakenAway)
<1>1. \A u \in Task : pc'[u] = IF u = t THEN l ELSE pc[u]
  BY DEF TypeOK, Goto
<1>2. Hands' = IF l \in InFlight THEN Hands \cup {t} ELSE Hands \ {t}
  BY <1>1 DEF Hands
<1>3. Dropped' <=> Dropped \/ l \in TakenAway
  BY <1>1 DEF Dropped, TakenAway
<1>4. QED
  BY <1>2, <1>3, Zenon DEF Dropped

\* A task in flight stays in flight.
LEMMA StaysInHands ==
  ASSUME TypeOK, NEW t \in Hands, NEW l \in InFlight, Goto(t, l)
  PROVE  Hands' = Hands /\ Dropped' = Dropped
<1>1. t \in Task /\ pc[t] \notin TakenAway /\ l \in Label /\ l \notin TakenAway
  BY DEF Hands, TakenAway, InFlight, Active, InStep, Label
<1>2. /\ Hands' = IF l \in InFlight THEN Hands \cup {t} ELSE Hands \ {t}
      /\ Dropped' = (Dropped \/ l \in TakenAway)
  BY <1>1, HandsMove
<1>3. Dropped' <=> Dropped
  BY <1>1, <1>2
<1>4. QED
  BY <1>2, <1>3, Zenon DEF Dropped

\* A task ends.
LEMMA LeavesHands ==
  ASSUME TypeOK, NEW t \in Hands, NEW l \in Label \ InFlight, Goto(t, l)
  PROVE  Hands' = Hands \ {t} /\ Dropped' = (Dropped \/ l \in TakenAway)
BY HandsMove DEF Hands, TakenAway, InFlight, Active, InStep

\* What is written to the status is shown, unless the asset is deleted.
LEMMA StatusIsShown ==
  ASSUME TypeOK, del' = del
  PROVE  Asset!Show(status')
BY DEF TypeOK, Status, Asset!Show, Shown

\* The end of a step that succeeds.
LEMMA SucceededSeen ==
  ASSUME TypeOK, NEW t \in Hands, StepSucceeded(t)
  PROVE  Asset!Next \/ UNCHANGED Asset!lifeVars
<1>1. t \in Task
  BY DEF Hands
<1>2. CASE step[t] = LastStep
  <2>1. Goto(t, "filing") /\ status' = "ready" /\ del' = del /\ indexed' = TRUE
    BY <1>2 DEF StepSucceeded, LastStep
  <2>2. "filing" \in Label \ InFlight /\ "filing" \notin TakenAway
    BY DEF Label, InFlight, Active, InStep, TakenAway
  <2>3. Hands' = Hands \ {t} /\ Dropped' = (Dropped \/ "filing" \in TakenAway)
    BY <2>1, <2>2, LeavesHands
  <2>4. Dropped' = Dropped
    BY <2>2, <2>3 DEF Dropped
  <2>5. Asset!Show("ready")
    BY <2>1, StatusIsShown
  <2>6. Asset!Succeed(t)
    BY <2>1, <2>3, <2>4, <2>5 DEF Asset!Succeed
  <2>7. QED
    BY <1>1, <2>6 DEF Asset!Next
<1>3. CASE step[t] # LastStep
  <2>1. Goto(t, "between") /\ status' = status /\ del' = del
    BY <1>3 DEF StepSucceeded
  <2>2. Hands' = Hands /\ Dropped' = Dropped
    BY <2>1, StaysInHands DEF InFlight, Active
  <2>3. indexed' = indexed
    BY <1>3 DEF StepSucceeded, LastStep, TypeOK
  <2>4. QED
    BY <2>1, <2>2, <2>3 DEF Asset!lifeVars, Shown
<1>4. QED
  BY <1>2, <1>3

\* The end of a step that fails.
LEMMA FailedSeen ==
  ASSUME TypeOK, NEW t \in Hands, NEW upstream \in BOOLEAN, StepFailed(t, upstream)
  PROVE  Asset!Next
<1>1. status' = "failed" /\ del' = del /\ indexed' = indexed
  BY DEF StepFailed, TaskRaised
<1>2. Asset!Show("failed")
  BY <1>1, StatusIsShown
<1>3. Goto(t, "queued") \/ Goto(t, "dead")
  BY DEF StepFailed, TaskRaised
<1>4. QED
  <2>1. "dead" \in Label \ InFlight /\ "dead" \notin TakenAway
    BY DEF Label, InFlight, Active, InStep, TakenAway
  <2>2. Hands' \in {Hands, Hands \ {t}} /\ Dropped' = Dropped
    <3>1. CASE Goto(t, "queued")
      BY <3>1, StaysInHands DEF InFlight
    <3>2. CASE Goto(t, "dead")
      <4>1. Hands' = Hands \ {t} /\ Dropped' = (Dropped \/ "dead" \in TakenAway)
        BY <2>1, <3>2, LeavesHands
      <4>2. QED
        BY <2>1, <4>1 DEF Dropped
    <3>3. QED
      BY <1>3, <3>1, <3>2
  <2>3. Asset!Fail(t)
    BY <1>1, <1>2, <2>2 DEF Asset!Fail
  <2>4. QED
    BY <2>3 DEF Asset!Next, Hands

\* A task goes on and nothing is seen of it.
LEMMA GoesUnseen ==
  ASSUME TypeOK, NEW t \in Hands, NEW l \in InFlight, Goto(t, l),
         UNCHANGED <<status, del, indexed>>
  PROVE  UNCHANGED Asset!lifeVars
<1>1. Hands' = Hands /\ Dropped' = Dropped
  BY StaysInHands
<1>2. Shown' = Shown
  BY DEF Shown
<1>3. QED
  BY <1>1, <1>2 DEF Asset!lifeVars

\* A task is lost and the status stays.
LEMMA LostSeen ==
  ASSUME TypeOK, NEW t \in Hands, NEW l \in TakenAway, Goto(t, l),
         UNCHANGED <<status, del, indexed>>
  PROVE  Asset!Next
<1>1. l \in Label \ InFlight
  BY DEF TakenAway, Label, InFlight, Active, InStep
<1>2. Hands' = Hands \ {t} /\ Dropped' = TRUE
  BY <1>1, LeavesHands
<1>3. Shown' = Shown
  BY DEF Shown
<1>4. Asset!Drop(t)
  BY <1>2, <1>3 DEF Asset!Drop
<1>5. QED
  BY <1>4 DEF Asset!Next, Hands

\* The broker hands out a message again: of a task that files, or that still works.
LEMMA AgainSeen ==
  ASSUME TypeOK, NEW t \in Task, Goto(t, "queued"), pc[t] \notin TakenAway,
         Hands # {} \/ indexed, UNCHANGED <<status, del, indexed>>
  PROVE  Asset!Next
<1>1. "queued" \in Label /\ "queued" \in InFlight /\ "queued" \notin TakenAway
  BY DEF Label, InFlight, TakenAway
<1>2. Hands' = Hands \cup {t} /\ Dropped' = (Dropped \/ "queued" \in TakenAway)
  BY <1>1, HandsMove
<1>3. Dropped' = Dropped /\ Shown' = Shown
  BY <1>1, <1>2 DEF Dropped, Shown
<1>4. Asset!Again(t)
  BY <1>2, <1>3 DEF Asset!Again
<1>5. QED
  BY <1>4 DEF Asset!Next

\* The API side: requests, sends and deletions.
LEMMA ApiSeen ==
  ASSUME TypeOK,
         \/ \E t \in Task : (\E s \in RetryFrom : RetryAsset(t, s)) \/ SendTask(t)
         \/ DeleteAsset \/ DeleteVectors \/ PurgeFail
  PROVE  Asset!Next \/ UNCHANGED Asset!lifeVars
<1>1. ASSUME NEW t \in Task, NEW s \in RetryFrom, RetryAsset(t, s)
      PROVE  Asset!Next
  <2>1. /\ del = "live" /\ pc[t] = "unused" /\ Goto(t, "unsent")
        /\ status' = "pending" /\ UNCHANGED <<del, indexed>>
    BY <1>1 DEF RetryAsset
  <2>2. /\ "unsent" \in Label /\ "unsent" \in InFlight
        /\ "unsent" \notin TakenAway /\ "unused" \notin TakenAway
    BY DEF Label, InFlight, TakenAway
  <2>3. Hands' = Hands \cup {t} /\ Dropped' = (Dropped \/ "unsent" \in TakenAway)
    BY <2>1, <2>2, HandsMove
  <2>4. Dropped' = Dropped
    BY <2>2, <2>3 DEF Dropped
  <2>5. Shown # "deleted" /\ Asset!Show("pending")
    BY <2>1, StatusIsShown DEF Shown, TypeOK, Status
  <2>6. Asset!Request(t)
    BY <2>1, <2>3, <2>4, <2>5 DEF Asset!Request
  <2>7. QED
    BY <2>6 DEF Asset!Next
<1>2. ASSUME NEW t \in Task, SendTask(t)
      PROVE  UNCHANGED Asset!lifeVars
  BY <1>2, GoesUnseen DEF SendTask, Hands, InFlight
<1>3. CASE DeleteAsset
  <2>1. Shown' = "deleted" /\ pc' = pc /\ indexed' = indexed
    BY <1>3 DEF DeleteAsset, Shown, taskVars
  <2>2. Hands' = Hands /\ Dropped' = Dropped
    BY <2>1 DEF Hands, Dropped
  <2>3. Asset!Delete
    BY <2>1, <2>2 DEF Asset!Delete
  <2>4. QED
    BY <2>3 DEF Asset!Next
<1>4. CASE DeleteVectors \/ PurgeFail
  <2>1. Shown' = Shown /\ pc' = pc /\ indexed' = indexed
    BY <1>4 DEF DeleteVectors, PurgeFail, Shown, taskVars
  <2>2. Hands' = Hands /\ Dropped' = Dropped
    BY <2>1 DEF Hands, Dropped
  <2>3. QED
    BY <2>1, <2>2 DEF Asset!lifeVars
<1>5. QED
  BY <1>1, <1>2, <1>3, <1>4

\* A deferred parse puts back what it found: a READY only if it was earned.
LEMMA DeferralSeen ==
  ASSUME TypeOK, ReadyInv, NEW t \in Task, ParseBusy(t)
  PROVE  Asset!Next \/ UNCHANGED Asset!lifeVars
<1>1. /\ t \in Hands /\ Goto(t, "deferring") /\ "deferring" \in InFlight
      /\ UNCHANGED <<del, indexed>>
  BY DEF ParseBusy, At, Hands, InFlight, Active, InStep
<1>2. CASE prev[t] = "processing"
  BY <1>1, <1>2, GoesUnseen DEF ParseBusy
<1>3. CASE prev[t] # "processing"
  <2>1. status' = prev[t] /\ prev[t] \in {"pending", "failed", "ready"}
    BY <1>3 DEF ParseBusy, TypeOK, Status
  <2>2. prev[t] = "ready" => indexed
    BY DEF ReadyInv
  <2>3. Asset!Show(prev[t])
    BY <1>1, <2>1, StatusIsShown
  <2>4. Hands' = Hands /\ Dropped' = Dropped
    BY <1>1, StaysInHands
  <2>5. Asset!Defer(t)
    BY <1>1, <2>1, <2>2, <2>3, <2>4 DEF Asset!Defer
  <2>6. QED
    BY <2>5 DEF Asset!Next
<1>4. QED
  BY <1>2, <1>3

\* The steps of a task.
LEMMA RunSeen ==
  ASSUME TypeOK, ReadyInv, NEW t \in Task, RunStep(t)
  PROVE  Asset!Next \/ UNCHANGED Asset!lifeVars
<1> USE DEF taskVars
<1>1. CASE \/ TakeTask(t) \/ SendAgain(t) \/ ChunkRead(t) \/ EmbedRead(t)
           \/ EmbedStore(t) \/ IndexRead(t) \/ IndexDelete(t) \/ IndexUpsert(t)
  <2>1. t \in Hands /\ UNCHANGED <<status, del, indexed>>
    BY <1>1 DEF TakeTask, SendAgain, ChunkRead, EmbedRead, EmbedStore, IndexRead, IndexDelete,
                IndexUpsert, At, Hands, InFlight, Active, InStep
  <2>2. \E l \in InFlight : Goto(t, l)
    BY <1>1 DEF TakeTask, SendAgain, ChunkRead, EmbedRead, EmbedStore, IndexRead,
                IndexDelete, IndexUpsert, InFlight, Active, InStep
  <2>3. QED
    BY <2>1, <2>2, GoesUnseen
<1>2. CASE BeginStep(t)
  <2>1. /\ t \in Hands /\ Goto(t, "running") /\ "running" \in InFlight
        /\ del = "live" /\ status' = "processing" /\ UNCHANGED <<del, indexed>>
    BY <1>2 DEF BeginStep, Hands, InFlight, Active, InStep
  <2>2. Hands' = Hands /\ Dropped' = Dropped
    BY <2>1, StaysInHands
  <2>3. Shown # "deleted" /\ Asset!Show("processing")
    BY <2>1, StatusIsShown DEF Shown, TypeOK, Status
  <2>4. Asset!Work(t)
    BY <2>1, <2>2, <2>3 DEF Asset!Work
  <2>5. QED
    BY <2>4 DEF Asset!Next
<1>3. CASE AssetGone(t)
  <2>1. /\ t \in Hands /\ Goto(t, "dead")
        /\ del # "live" /\ UNCHANGED <<status, del, indexed>>
    BY <1>3 DEF AssetGone, Hands, InFlight, Active
  <2>2. "dead" \in Label \ InFlight /\ "dead" \notin TakenAway
    BY DEF Label, InFlight, Active, InStep, TakenAway
  <2>3. Hands' = Hands \ {t} /\ Dropped' = (Dropped \/ "dead" \in TakenAway)
    BY <2>1, <2>2, LeavesHands
  <2>4. Dropped' = Dropped
    BY <2>2, <2>3 DEF Dropped
  <2>5. Shown = "deleted" /\ Shown' = Shown
    BY <2>1 DEF Shown
  <2>6. Asset!GiveUp(t)
    BY <2>1, <2>3, <2>4, <2>5 DEF Asset!GiveUp
  <2>7. QED
    BY <2>6 DEF Asset!Next
<1>4. CASE ParseBusy(t)
  BY <1>4, DeferralSeen
<1>5. CASE \/ ParseDone(t) \/ ChunkSkip(t) \/ ChunkCommit(t)
           \/ GraphDone(t) \/ EmbedCommit(t) \/ IndexCommit(t)
  <2>1. t \in Hands
    BY <1>5 DEF ParseDone, ChunkSkip, ChunkCommit, GraphDone, EmbedCommit, IndexCommit,
                At, Hands, InFlight, Active, InStep
  <2>2. StepSucceeded(t)
    BY <1>5 DEF ParseDone, ChunkSkip, ChunkCommit, GraphDone, EmbedCommit, IndexCommit
  <2>3. QED
    BY <2>1, <2>2, SucceededSeen
<1>6. CASE EmbedNothing(t) \/ EmbedStale(t) \/ IndexNothing(t)
  <2>1. t \in Hands
    BY <1>6 DEF EmbedNothing, EmbedStale, IndexNothing, At, Hands, InFlight, Active, InStep
  <2>2. StepFailed(t, FALSE)
    BY <1>6 DEF EmbedNothing, EmbedStale, IndexNothing
  <2>3. QED
    BY <2>1, <2>2, FailedSeen
<1>7. ASSUME NEW upstream \in BOOLEAN,
             \/ StepFail(t, upstream)
             \/ \E done \in SUBSET due[t] : EmbedFailed(t, done, upstream)
      PROVE  Asset!Next
  <2>1. t \in Hands
    BY <1>7 DEF StepFail, EmbedFailed, At, Hands, InFlight, Active, InStep
  <2>2. StepFailed(t, upstream)
    BY <1>7 DEF StepFail, EmbedFailed
  <2>3. QED
    BY <2>1, <2>2, FailedSeen
<1>8. CASE FileDone(t)
  <2>1. /\ pc[t] = "filing" /\ Goto(t, "done") /\ UNCHANGED <<status, del, indexed>>
    BY <1>8 DEF FileDone
  <2>2. /\ "done" \in Label \ InFlight /\ "done" \notin TakenAway
        /\ "filing" \notin InFlight \cup TakenAway
    BY DEF Label, InFlight, Active, InStep, TakenAway
  <2>3. Hands' = Hands \ {t} /\ Dropped' = (Dropped \/ "done" \in TakenAway)
    BY <2>1, <2>2, HandsMove
  <2>4. Hands' = Hands /\ Dropped' = Dropped /\ Shown' = Shown
    BY <2>1, <2>2, <2>3 DEF Hands, Dropped, Shown
  <2>5. QED
    BY <2>1, <2>4 DEF Asset!lifeVars
<1>9. QED
  BY <1>1, <1>2, <1>3, <1>4, <1>5, <1>6, <1>7, <1>8 DEF RunStep

\* What goes wrong around a task.
LEMMA DisasterSeen ==
  ASSUME TypeOK, ReadyInv, NEW t \in Task, Disaster(t)
  PROVE  Asset!Next \/ UNCHANGED Asset!lifeVars
<1>1. ASSUME DbFault(t, TRUE)
      PROVE  Asset!Next
  <2>1. /\ t \in Hands /\ Goto(t, "dead")
        /\ status' = "failed" /\ UNCHANGED <<del, indexed>>
    BY <1>1 DEF DbFault, Hands, InFlight, Active
  <2>2. "dead" \in Label \ InFlight /\ "dead" \notin TakenAway
    BY DEF Label, InFlight, Active, InStep, TakenAway
  <2>3. Hands' = Hands \ {t} /\ Dropped' = (Dropped \/ "dead" \in TakenAway)
    BY <2>1, <2>2, LeavesHands
  <2>4. Dropped' = Dropped
    BY <2>2, <2>3 DEF Dropped
  <2>5. Asset!Fail(t)
    BY <2>1, <2>3, <2>4, StatusIsShown DEF Asset!Fail
  <2>6. QED
    BY <2>5 DEF Asset!Next
<1>2. ASSUME DbFault(t, FALSE) \/ Kill(t) \/ SendLost(t)
      PROVE  Asset!Next
  <2>1. t \in Hands /\ UNCHANGED <<status, del, indexed>>
    BY <1>2 DEF DbFault, Kill, SendLost, Hands, InFlight, Active
  <2>2. \E l \in TakenAway : Goto(t, l)
    BY <1>2 DEF DbFault, Kill, SendLost, TakenAway
  <2>3. QED
    BY <2>1, <2>2, LostSeen
<1>3. CASE HostCrash(t)
  <2>1. CASE pc[t] = "filing"
    BY <1>3, <2>1, AgainSeen DEF HostCrash, ReadyInv, TakenAway
  <2>2. CASE pc[t] # "filing"
    BY <1>3, <2>2, GoesUnseen DEF HostCrash, Hands, InFlight, Busy
  <2>3. QED
    BY <2>1, <2>2
<1>4. QED
  BY <1>1, <1>2, <1>3 DEF Disaster

\* A message is delivered a second time beside the worker that holds it.
LEMMA RedeliverSeen ==
  ASSUME TypeOK, ReadyInv, NEW t \in Task, NEW u \in Task, Redeliver(t, u)
  PROVE  Asset!Next
<1>1. /\ Goto(u, "queued") /\ pc[u] \notin TakenAway
      /\ UNCHANGED <<status, del, indexed>>
  BY DEF Redeliver, TakenAway
<1>2. pc[t] = "filing" \/ pc[t] \in InFlight
  BY DEF Redeliver, Busy, InFlight
<1>3. Hands # {} \/ indexed
  BY <1>2 DEF Hands, ReadyInv
<1>4. QED
  BY <1>1, <1>3, AgainSeen

\* The tasks implement the asset a user may rely on: whatever runs beside them, what is
\* shown as READY has been indexed, what waits is in a task's hand or was dropped by a
\* fault, and a deleted asset stays deleted (runner.py, tasks.py, assets.py).
THEOREM AssetIsLifecycle == Spec => IsAssetLifecycle
<1>1. Init => Asset!Init
  <2> SUFFICES ASSUME Init PROVE Asset!Init
    OBVIOUS
  <2>1. PICK first \in Task :
          pc = [t \in Task |-> IF t = first THEN "unsent" ELSE "unused"]
    BY DEF Init
  <2>2. Hands = {first}
    BY <2>1 DEF Hands, InFlight, Active, InStep
  <2>3. Dropped = FALSE
    BY <2>1 DEF Dropped
  <2>4. Shown = "pending" /\ indexed = FALSE
    BY DEF Init, Shown
  <2>5. QED
    BY <2>2, <2>3, <2>4 DEF Asset!Init
<1>2. TypeOK /\ ReadyInv /\ [Next]_vars => [Asset!Next]_(Asset!lifeVars)
  <2>1. ASSUME UNCHANGED vars PROVE UNCHANGED Asset!lifeVars
    BY <2>1 DEF vars, taskVars, Asset!lifeVars, Shown, Hands, Dropped
  <2>2. QED
    BY <2>1, ApiSeen, RunSeen, DisasterSeen, RedeliverSeen DEF Next
<1>3. QED
  BY <1>1, <1>2, TypeCorrect, ReadyEarned, PTL DEF Spec, IsAssetLifecycle, Asset!Spec

\* What the abstract asset promises, whoever implements it.
THEOREM LifecycleKeepsPromise == Asset!Spec => []Asset!Promise
<1>1. Asset!Init => Asset!Promise
  BY DEF Asset!Init, Asset!Promise
<1>2. Asset!Promise /\ [Asset!Next]_(Asset!lifeVars) => Asset!Promise'
  BY DEF Asset!Promise, Asset!Next, Asset!lifeVars, Asset!Request, Asset!Work, Asset!Succeed,
         Asset!Fail, Asset!Defer, Asset!GiveUp, Asset!Again, Asset!Drop, Asset!Delete, Asset!Show
<1>3. QED
  BY <1>1, <1>2, PTL DEF Asset!Spec

\* The tasks keep that promise.
COROLLARY PromiseKept == Spec => []Asset!Promise
BY AssetIsLifecycle, LifecycleKeepsPromise, PTL DEF IsAssetLifecycle

-----------------------------------------------------------------------------
(* Row locks keep the rows an embed step marks. *)

\* A step that neither rebuilds units nor marks nor flushes any keeps them.
LEMMA MarksUntouched ==
  ASSUME MarksKeepTheirRows, units' = units, marked' = marked,
         \A u \in Task :
           pc'[u] = "stored" => pc[u] = "stored" /\ due'[u] = due[u]
  PROVE  MarksKeepTheirRows'
BY DEF MarksKeepTheirRows

\* A task that leaves or never was in "stored" adds no lock.
LEMMA NoNewLock ==
  ASSUME TypeOK, NEW t \in Task, NEW l, l # "stored", Goto(t, l),
         due' = due \/ Forget(t)
  PROVE  \A u \in Task :
           pc'[u] = "stored" => pc[u] = "stored" /\ due'[u] = due[u]
BY DEF TypeOK, Goto, Forget

\* The end of a step drops its locks (runner.py 142-202).
LEMMA EndedStepNoLock ==
  ASSUME TypeOK, NEW t \in Task,
         \/ StepSucceeded(t)
         \/ \E upstream \in BOOLEAN : StepFailed(t, upstream)
  PROVE  \A u \in Task :
           pc'[u] = "stored" => u # t /\ pc[u] = "stored" /\ due'[u] = due[u]
<1>1. Forget(t)
  BY DEF StepSucceeded, StepFailed, TaskRaised
<1>2. \E l \in {"filing", "between", "queued", "dead"} : Goto(t, l)
  BY DEF StepSucceeded, StepFailed, TaskRaised
<1>3. QED
  BY <1>1, <1>2 DEF TypeOK, Goto, Forget

\* A rebuild waits for the rows another task's embed step has marked, and an
\* embed step commits marks only of rows that are there (steps.py 414, 630-654).
THEOREM MarksKept == Spec => []MarksKeepTheirRows
<1>1. Init => MarksKeepTheirRows
  BY DEF Init, MarksKeepTheirRows
<1>2. TypeOK /\ MarksKeepTheirRows /\ [Next]_vars => MarksKeepTheirRows'
  <2> SUFFICES ASSUME TypeOK, MarksKeepTheirRows, [Next]_vars
               PROVE  MarksKeepTheirRows'
    OBVIOUS
  <2> USE DEF vars, taskVars, dataVars
  <2>1. ASSUME NEW t \in Task, StepSucceeded(t) \/ StepFailed(t, FALSE),
               units' = units, marked' = marked
        PROVE  MarksKeepTheirRows'
    BY <2>1, EndedStepNoLock, MarksUntouched
  <2>2. ASSUME NEW t \in Task,
               \/ \E s \in RetryFrom : RetryAsset(t, s)
               \/ SendTask(t)
        PROVE  MarksKeepTheirRows'
    <3>1. \E l \in {"unsent", "queued"} : Goto(t, l)
      BY <2>2 DEF RetryAsset, SendTask
    <3>2. units' = units /\ marked' = marked /\ due' = due
      BY <2>2 DEF RetryAsset, SendTask
    <3>3. QED
      BY <3>1, <3>2, NoNewLock, MarksUntouched
  <2>3. CASE DeleteAsset \/ DeleteVectors \/ PurgeFail
    BY <2>3, MarksUntouched DEF DeleteAsset, DeleteVectors, PurgeFail
  <2>4. ASSUME NEW t \in Task, RunStep(t) PROVE MarksKeepTheirRows'
    <3>1. CASE \/ TakeTask(t) \/ BeginStep(t) \/ AssetGone(t) \/ FileDone(t)
               \/ ParseBusy(t) \/ SendAgain(t) \/ ChunkRead(t) \/ IndexRead(t)
               \/ IndexDelete(t) \/ IndexUpsert(t)
      <4>1. \E l \in {"between", "running", "dead", "done", "deferring", "queued",
                      "rebuilding", "indexing", "cleared", "upserted"} : Goto(t, l)
        BY <3>1 DEF TakeTask, BeginStep, AssetGone, FileDone, ParseBusy, SendAgain,
                    ChunkRead, IndexRead, IndexDelete, IndexUpsert
      <4>2. units' = units /\ marked' = marked /\ (due' = due \/ Forget(t))
        BY <3>1 DEF TakeTask, BeginStep, AssetGone, FileDone, ParseBusy, SendAgain,
                    ChunkRead, IndexRead, IndexDelete, IndexUpsert
      <4>3. QED
        BY <4>1, <4>2, NoNewLock, MarksUntouched
    <3>2. CASE EmbedRead(t)
      <4>1. \A u \in Task :
              pc'[u] = "stored" => pc[u] = "stored" /\ due'[u] = due[u]
        BY <3>2 DEF EmbedRead, Goto, TypeOK
      <4>2. QED
        BY <3>2, <4>1, MarksUntouched DEF EmbedRead
    <3>3. CASE EmbedStore(t)
      <4>1. ASSUME Kind # "image", NEW u \in Task, pc'[u] = "stored"
            PROVE  due'[u] \subseteq units'
        <5>1. CASE u = t
          BY <3>3, <4>1, <5>1 DEF EmbedStore
        <5>2. CASE u # t
          BY <3>3, <4>1, <5>2 DEF EmbedStore, Goto, TypeOK, MarksKeepTheirRows
        <5>3. QED
          BY <5>1, <5>2
      <4>2. marked' \subseteq units'
        BY <3>3 DEF EmbedStore, MarksKeepTheirRows
      <4>3. QED
        BY <4>1, <4>2 DEF MarksKeepTheirRows
    <3>4. CASE ParseDone(t) \/ ChunkSkip(t) \/ GraphDone(t) \/ IndexCommit(t)
      BY <2>1, <3>4 DEF ParseDone, ChunkSkip, GraphDone, IndexCommit
    <3>5. CASE EmbedNothing(t) \/ EmbedStale(t) \/ IndexNothing(t)
      BY <2>1, <3>5 DEF EmbedNothing, EmbedStale, IndexNothing
    <3>6. CASE ChunkCommit(t)
      <4>1. PICK g \in FreshGen : units' = (units \ read[t]) \cup ({g} \X Batch)
        BY <3>6 DEF ChunkCommit
      <4>2. marked' \subseteq units'
        BY <3>6, <4>1 DEF ChunkCommit, MarksKeepTheirRows
      <4>3. ASSUME Kind # "image", NEW u \in Task, pc'[u] = "stored"
            PROVE  due'[u] \subseteq units'
        <5>1. u # t /\ pc[u] = "stored" /\ due'[u] = due[u]
          BY <3>6, <4>3, EndedStepNoLock DEF ChunkCommit
        <5>2. due[u] \subseteq LockedByOthers(t)
          BY <4>3, <5>1 DEF LockedByOthers
        <5>3. due[u] \subseteq units /\ read[t] \cap LockedByOthers(t) = {}
          BY <3>6, <4>3, <5>1 DEF ChunkCommit, MarksKeepTheirRows
        <5>4. QED
          BY <4>1, <5>1, <5>2, <5>3
      <4>4. QED
        BY <4>2, <4>3 DEF MarksKeepTheirRows
    <3>7. CASE EmbedCommit(t)
      <4>1. due[t] \subseteq units
        BY <3>7 DEF EmbedCommit, MarksKeepTheirRows
      <4>2. marked' \subseteq units'
        BY <3>7, <4>1 DEF EmbedCommit, MarksKeepTheirRows
      <4>3. \A u \in Task :
              pc'[u] = "stored" => pc[u] = "stored" /\ due'[u] = due[u]
        BY <3>7, EndedStepNoLock DEF EmbedCommit
      <4>4. QED
        BY <3>7, <4>2, <4>3 DEF EmbedCommit, MarksKeepTheirRows
    <3>8. ASSUME NEW upstream \in BOOLEAN, StepFail(t, upstream)
          PROVE  MarksKeepTheirRows'
      BY <3>8, EndedStepNoLock, MarksUntouched DEF StepFail
    <3>9. ASSUME NEW upstream \in BOOLEAN, NEW done \in SUBSET due[t],
                 EmbedFailed(t, done, upstream)
          PROVE  MarksKeepTheirRows'
      <4>1. marked' \subseteq units'
        BY <3>9 DEF EmbedFailed, MarksKeepTheirRows
      <4>2. \A u \in Task :
              pc'[u] = "stored" => pc[u] = "stored" /\ due'[u] = due[u]
        BY <3>9, EndedStepNoLock DEF EmbedFailed
      <4>3. QED
        BY <3>9, <4>1, <4>2 DEF EmbedFailed, MarksKeepTheirRows
    <3>10. QED
      BY <2>4, <3>1, <3>2, <3>3, <3>4, <3>5, <3>6, <3>7, <3>8, <3>9
         DEF RunStep
  <2>5. ASSUME NEW t \in Task, Disaster(t) PROVE MarksKeepTheirRows'
    <3>1. \E l \in {"dead", "abandoned", "lost", "queued"} : Goto(t, l)
      BY <2>5 DEF Disaster, DbFault, Kill, HostCrash, SendLost
    <3>2. units' = units /\ marked' = marked
      BY <2>5 DEF Disaster, DbFault, Kill, HostCrash, SendLost
    <3>3. due' = due \/ Forget(t)
      BY <2>5 DEF Disaster, DbFault, Kill, HostCrash, SendLost
    <3>4. QED
      BY <3>1, <3>2, <3>3, NoNewLock, MarksUntouched
  <2>6. ASSUME NEW t \in Task, NEW u \in Task, Redeliver(t, u) PROVE MarksKeepTheirRows'
    <3>1. /\ Goto(u, "queued") /\ units' = units /\ marked' = marked /\ due' = due
      BY <2>6 DEF Redeliver
    <3>2. QED
      BY <3>1, NoNewLock, MarksUntouched
  <2>7. CASE UNCHANGED vars
    BY <2>7 DEF MarksKeepTheirRows
  <2>8. QED
    BY <2>2, <2>3, <2>4, <2>5, <2>6, <2>7 DEF Next
<1>3. QED
  BY <1>1, <1>2, TypeCorrect, PTL DEF Spec

-----------------------------------------------------------------------------
(* One worker: the tasks of an asset follow one another. *)

\* No two tasks are held by worker processes.
Alone ==
  \A t, u \in Task : pc[t] \in Active /\ pc[u] \in Active => t = u

\* A task is held by a worker process only after it was taken (tasks.py 117-150).
LEMMA TaskMoves ==
  ASSUME NEW t \in Task, RunStep(t) \/ Disaster(t)
  PROVE  /\ \E l \in Label : Goto(t, l) /\ (l \in Active => pc[t] \in Active \/ TakeTask(t))
         /\ TakeTask(t) \/ SendLost(t) \/ pc[t] \in Busy
<1> USE DEF Label, InFlight, Busy, Active, InStep
<1>1. CASE TakeTask(t)
  BY <1>1 DEF TakeTask
<1>2. CASE \/ BeginStep(t) \/ AssetGone(t) \/ FileDone(t) \/ ParseBusy(t)
           \/ SendAgain(t) \/ ChunkRead(t) \/ EmbedRead(t) \/ EmbedStore(t)
           \/ IndexRead(t) \/ IndexDelete(t) \/ IndexUpsert(t)
  BY <1>2 DEF BeginStep, AssetGone, FileDone, ParseBusy, SendAgain, ChunkRead,
              EmbedRead, EmbedStore, IndexRead, IndexDelete, IndexUpsert, At
<1>3. CASE \/ ParseDone(t) \/ ChunkSkip(t) \/ ChunkCommit(t)
           \/ GraphDone(t) \/ EmbedCommit(t) \/ IndexCommit(t)
  BY <1>3 DEF ParseDone, ChunkSkip, ChunkCommit, GraphDone, EmbedCommit, IndexCommit,
              StepSucceeded, At
<1>4. CASE EmbedNothing(t) \/ EmbedStale(t) \/ IndexNothing(t)
  BY <1>4 DEF EmbedNothing, EmbedStale, IndexNothing, StepFailed, TaskRaised, At
<1>5. CASE \E upstream \in BOOLEAN : StepFail(t, upstream)
  BY <1>5 DEF StepFail, StepFailed, TaskRaised, At
<1>6. CASE \E upstream \in BOOLEAN, done \in SUBSET due[t] : EmbedFailed(t, done, upstream)
  BY <1>6 DEF EmbedFailed, StepFailed, TaskRaised
<1>7. CASE Disaster(t)
  BY <1>7 DEF Disaster, DbFault, Kill, HostCrash, SendLost
<1>8. QED
  BY <1>1, <1>2, <1>3, <1>4, <1>5, <1>6, <1>7 DEF RunStep

\* With one worker a task is taken only when no task is held.
LEMMA TakenAlone ==
  ASSUME Workers = 1, TypeOK, NEW t \in Task, TakeTask(t)
  PROVE  \A u \in Task : pc[u] \notin Active
<1> DEFINE held == {u \in Task : pc[u] \in Busy}
<1>1. IsFiniteSet(held)
  BY PipelineAssumption, FS_Subset
<1>2. Cardinality(held) < 1
  BY DEF TakeTask
<1>3. held = {}
  <2> HIDE DEF held
  <2>1. Cardinality(held) \in Nat
    BY <1>1, FS_CardinalityType
  <2>2. Cardinality(held) = 0
    BY <1>2, <2>1
  <2>3. QED
    BY <1>1, <2>2, FS_EmptySet
<1>4. QED
  BY <1>3 DEF Busy

LEMMA AloneStep ==
  ASSUME Workers = 1, TypeOK, Alone, [Next]_vars
  PROVE  Alone'
<1> USE DEF vars, taskVars
<1>1. ASSUME NEW t \in Task, NEW l \in Label, Goto(t, l), l \notin Active
      PROVE  Alone'
  BY <1>1 DEF TypeOK, Goto, Alone
<1>2. ASSUME NEW t \in Task, NEW l \in Label, Goto(t, l), pc[t] \in Active
      PROVE  Alone'
  BY <1>2 DEF TypeOK, Goto, Alone
<1>3. ASSUME NEW t \in Task, TakeTask(t) PROVE Alone'
  BY <1>3, TakenAlone DEF TypeOK, TakeTask, Goto, Alone
<1>4. ASSUME NEW t \in Task,
             SendTask(t) \/ \E s \in RetryFrom : RetryAsset(t, s)
      PROVE  Alone'
  <2>1. \E l \in {"unsent", "queued"} : Goto(t, l)
    BY <1>4 DEF SendTask, RetryAsset
  <2>2. QED
    BY <1>1, <2>1 DEF Label, InFlight, Active, InStep
<1>5. ASSUME NEW t \in Task, RunStep(t) \/ Disaster(t) PROVE Alone'
  BY <1>1, <1>2, <1>3, <1>5, TaskMoves
<1>6. CASE DeleteAsset \/ DeleteVectors \/ PurgeFail \/ UNCHANGED vars
  BY <1>6 DEF DeleteAsset, DeleteVectors, PurgeFail, Alone
<1>7. ASSUME NEW t \in Task, NEW u \in Task, Redeliver(t, u) PROVE Alone'
  <2>1. Goto(u, "queued")
    BY <1>7 DEF Redeliver
  <2>2. QED
    BY <1>1, <2>1 DEF Label, InFlight, Active, InStep
<1>8. QED
  BY <1>4, <1>5, <1>6, <1>7 DEF Next

\* While one task moves within its step, the others rest.
LEMMA OthersRest ==
  ASSUME TypeOK, Alone, NEW t \in Task, pc[t] \in Active, RunStep(t) \/ Disaster(t)
  PROVE  \A u \in Task \ {t} : pc'[u] = pc[u] /\ pc'[u] \notin Active
<1>1. PICK l \in Label : Goto(t, l)
  BY TaskMoves
<1>2. QED
  BY <1>1 DEF TypeOK, Goto, Alone

-----------------------------------------------------------------------------
(* One worker: version_meta keeps what the embed step has put there. *)

\* What a running step read of version_meta is what is there.
Seeing == \A t \in Task : pc[t] \in InStep => seen[t] = hasCache

\* Of the five steps only embed changes the key; the others write back what
\* they read.
LEMMA SeeingStep ==
  ASSUME TypeOK, Alone, Seeing, [Next]_vars
  PROVE  Seeing' /\ (hasCache => hasCache')
<1> USE DEF vars, taskVars, dataVars
<1>1. ASSUME hasCache' = hasCache,
             \A u \in Task : pc'[u] \in InStep => pc[u] \in InStep /\ seen'[u] = seen[u]
      PROVE  Seeing' /\ (hasCache => hasCache')
  BY <1>1 DEF Seeing
<1>2. ASSUME NEW t \in Task, pc[t] \in InStep, StepSucceeded(t), RunStep(t),
             hasCache' \in {hasCache, seen[t], TRUE}
      PROVE  Seeing' /\ (hasCache => hasCache')
  <2>1. \A u \in Task \ {t} : pc'[u] \notin InStep
    BY <1>2, OthersRest DEF Active
  <2>2. pc'[t] \notin InStep
    BY <1>2 DEF StepSucceeded, Goto, TypeOK, InStep
  <2>3. seen[t] = hasCache
    BY <1>2 DEF Seeing
  <2>4. QED
    BY <1>2, <2>1, <2>2, <2>3 DEF Seeing, TypeOK
<1>3. ASSUME NEW t \in Task, SendTask(t) \/ \E s \in RetryFrom : RetryAsset(t, s)
      PROVE  Seeing' /\ (hasCache => hasCache')
  BY <1>1, <1>3 DEF SendTask, RetryAsset, Goto, TypeOK, InStep
<1>4. CASE DeleteAsset \/ DeleteVectors \/ PurgeFail \/ UNCHANGED vars
  BY <1>1, <1>4 DEF DeleteAsset, DeleteVectors, PurgeFail
<1>5. ASSUME NEW t \in Task, RunStep(t)
      PROVE  Seeing' /\ (hasCache => hasCache')
  <2>1. CASE BeginStep(t)
    <3>1. pc[t] \in Active
      BY <2>1 DEF BeginStep, Active
    <3>2. \A u \in Task \ {t} : pc'[u] \notin InStep
      BY <1>5, <3>1, OthersRest DEF Active
    <3>3. seen'[t] = hasCache /\ hasCache' = hasCache
      BY <2>1 DEF BeginStep, TypeOK
    <3>4. QED
      BY <3>2, <3>3 DEF Seeing
  <2>2. CASE \/ TakeTask(t) \/ AssetGone(t) \/ FileDone(t) \/ SendAgain(t)
             \/ ChunkRead(t) \/ EmbedRead(t) \/ EmbedStore(t)
             \/ IndexRead(t) \/ IndexDelete(t) \/ IndexUpsert(t)
    <3>1. hasCache' = hasCache /\ seen' = seen
      BY <2>2 DEF TakeTask, AssetGone, FileDone, SendAgain, ChunkRead, EmbedRead,
                  EmbedStore, IndexRead, IndexDelete, IndexUpsert
    <3>2. \E l : Goto(t, l) /\ (l \in InStep => pc[t] \in InStep)
      BY <2>2 DEF TakeTask, AssetGone, FileDone, SendAgain, ChunkRead, EmbedRead,
                  EmbedStore, IndexRead, IndexDelete, IndexUpsert, At, InStep
    <3>3. QED
      BY <1>1, <3>1, <3>2 DEF Goto, TypeOK
  <2>3. CASE \/ ParseDone(t) \/ ChunkSkip(t) \/ ChunkCommit(t)
             \/ GraphDone(t) \/ EmbedCommit(t) \/ IndexCommit(t)
    <3>1. pc[t] \in InStep /\ StepSucceeded(t)
      BY <2>3 DEF ParseDone, ChunkSkip, ChunkCommit, GraphDone, EmbedCommit,
                  IndexCommit, At, InStep
    <3>2. hasCache' \in {hasCache, seen[t], TRUE}
      BY <2>3 DEF ParseDone, ChunkSkip, ChunkCommit, GraphDone, EmbedCommit,
                  IndexCommit, MetaWritten
    <3>3. QED
      BY <1>2, <1>5, <3>1, <3>2
  <2>4. CASE EmbedNothing(t) \/ EmbedStale(t) \/ IndexNothing(t)
    <3>1. StepFailed(t, FALSE) /\ hasCache' = hasCache
      BY <2>4 DEF EmbedNothing, EmbedStale, IndexNothing
    <3>2. QED
      BY <1>1, <3>1 DEF StepFailed, TaskRaised, Goto, Forget, TypeOK, InStep
  <2>5. ASSUME NEW upstream \in BOOLEAN,
               \/ StepFail(t, upstream)
               \/ \E done \in SUBSET due[t] : EmbedFailed(t, done, upstream)
        PROVE  Seeing' /\ (hasCache => hasCache')
    <3>1. StepFailed(t, upstream) /\ hasCache' = hasCache
      BY <2>5 DEF StepFail, EmbedFailed
    <3>2. QED
      BY <1>1, <3>1 DEF StepFailed, TaskRaised, Goto, Forget, TypeOK, InStep
  <2>6. CASE ParseBusy(t)
    BY <1>1, <2>6 DEF ParseBusy, Goto, Forget, TypeOK, InStep
  <2>7. QED
    BY <1>5, <2>1, <2>2, <2>3, <2>4, <2>5, <2>6 DEF RunStep
<1>6. ASSUME NEW t \in Task, Disaster(t)
      PROVE  Seeing' /\ (hasCache => hasCache')
  <2>1. hasCache' = hasCache /\ (seen' = seen \/ Forget(t))
    BY <1>6 DEF Disaster, DbFault, Kill, HostCrash, SendLost
  <2>2. \E l \in {"dead", "abandoned", "lost", "queued"} : Goto(t, l)
    BY <1>6 DEF Disaster, DbFault, Kill, HostCrash, SendLost
  <2>3. QED
    BY <1>1, <2>1, <2>2 DEF Goto, Forget, TypeOK, InStep
<1>7. ASSUME NEW t \in Task, NEW u \in Task, Redeliver(t, u)
      PROVE  Seeing' /\ (hasCache => hasCache')
  BY <1>1, <1>7 DEF Redeliver, Goto, TypeOK, InStep
<1>8. QED
  BY <1>3, <1>4, <1>5, <1>6, <1>7 DEF Next

\* With one worker version_meta.embed is never lost, for every kind of asset and
\* whatever fails (steps.py 158, 473, runner.py 118-202).
THEOREM OneWorkerKeepsMeta == ASSUME Workers = 1 PROVE Spec => EmbedMetaIsKept
<1>1. Init => Alone /\ Seeing
  BY DEF Init, Alone, Seeing, Active, InStep
<1>2. TypeOK /\ Alone /\ Seeing /\ [Next]_vars => Alone' /\ Seeing' /\ (hasCache => hasCache')
  BY AloneStep, SeeingStep
<1>3. TypeOK /\ Alone /\ Seeing /\ [Next]_vars => [hasCache => hasCache']_vars
  BY <1>2
<1>4. QED
  BY <1>1, <1>2, <1>3, TypeCorrect, PTL DEF Spec, EmbedMetaIsKept

-----------------------------------------------------------------------------
(* One worker: the index follows the units. *)

Indexing == {"indexing", "cleared", "upserted"}

\* What the step of a task has done so far to the asset's vectors.
Clears(t) ==
  /\ pc[t] = "rebuilding" => step[t] = "chunk"
  /\ pc[t] \in {"embedding", "stored"} => step[t] = "embed"
  /\ pc[t] \in Indexing => step[t] = "index" /\ read[t] \subseteq units
  /\ pc[t] \in InStep => status # "ready"
  /\ pc[t] = "cleared" => vectors = {}
  /\ pc[t] = "upserted" => vectors \subseteq read[t]
  /\ At(t, "parse") /\ prev[t] = "ready" /\ del = "live" => vectors \subseteq units

\* Inductive: a READY asset has vectors of its units only, also the one whose
\* READY a deferred parse will put back, and the step that will make it READY
\* has removed the others.
Clearing == (\A t \in Task : Clears(t)) /\ IndexNeverStale

\* A task whose move leaves the asset's rows alone owes nothing new.
LEMMA NothingCleared ==
  ASSUME Clearing, TypeOK,
         units' = units, step' = step \/ \A t \in Task : pc'[t] \in InStep => step'[t] = step[t],
         read' = read \/ \A t \in Task : pc'[t] \in InStep => read'[t] = read[t],
         prev' = prev \/ \A t \in Task : pc'[t] \in InStep => prev'[t] = prev[t],
         status' = status \/ status' # "ready",
         vectors' = vectors \/ vectors' = {},
         del' = del \/ del' # "live",
         \A t \in Task : pc'[t] \in InStep => pc'[t] = pc[t]
  PROVE  Clearing'
<1>1. ASSUME NEW t \in Task, pc'[t] \in InStep PROVE Clears(t)'
  BY <1>1 DEF Clearing, Clears, Indexing, InStep, At
<1>2. ASSUME NEW t \in Task, pc'[t] \notin InStep PROVE Clears(t)'
  BY <1>2 DEF Clears, Indexing, InStep, At
<1>3. IndexNeverStale'
  BY DEF Clearing, IndexNeverStale
<1>4. QED
  BY <1>1, <1>2, <1>3 DEF Clearing

\* One task at work: what it owes, it alone can owe.
LEMMA OneClears ==
  ASSUME TypeOK, Alone, NEW t \in Task, pc[t] \in Active, RunStep(t) \/ Disaster(t),
         Clears(t)', IndexNeverStale'
  PROVE  Clearing'
<1>1. \A u \in Task \ {t} : pc'[u] \notin InStep
  BY OthersRest DEF Active
<1>2. ASSUME NEW u \in Task \ {t} PROVE Clears(u)'
  BY <1>1, <1>2 DEF Clears, Indexing, InStep, At
<1>3. QED
  BY <1>2 DEF Clearing

LEMMA ClearingStep ==
  ASSUME Workers = 1, TypeOK, Alone, Clearing, [Next]_vars
  PROVE  Clearing'
<1> USE DEF vars, taskVars, dataVars
<1>1. ASSUME NEW t \in Task, SendTask(t) \/ \E s \in RetryFrom : RetryAsset(t, s)
      PROVE  Clearing'
  <2>1. \A u \in Task : pc'[u] \in InStep => pc'[u] = pc[u]
    BY <1>1 DEF SendTask, RetryAsset, Goto, TypeOK, InStep
  <2>2. QED
    BY <1>1, <2>1, NothingCleared DEF SendTask, RetryAsset
<1>2. CASE DeleteAsset \/ DeleteVectors \/ PurgeFail
  BY <1>2, NothingCleared DEF DeleteAsset, DeleteVectors, PurgeFail
<1>3. ASSUME NEW t \in Task, NEW upstream \in BOOLEAN, StepFailed(t, upstream),
             units' = units, vectors' = vectors
      PROVE  Clearing'
  <2>1. PICK l \in {"queued", "dead"} : Goto(t, l)
    BY <1>3 DEF StepFailed, TaskRaised
  <2>2. \A u \in Task : pc'[u] \in InStep => u # t /\ pc'[u] = pc[u]
    BY <2>1 DEF Goto, TypeOK, InStep
  <2>3. \A u \in Task : pc'[u] \in InStep => read'[u] = read[u] /\ prev'[u] = prev[u]
    BY <1>3, <2>2 DEF StepFailed, TaskRaised, Forget, TypeOK
  <2>4. QED
    BY <1>3, <2>2, <2>3, NothingCleared DEF StepFailed, TaskRaised
<1>4. ASSUME NEW t \in Task, Disaster(t) PROVE Clearing'
  <2>1. PICK l \in {"dead", "abandoned", "lost", "queued"} : Goto(t, l)
    BY <1>4 DEF Disaster, DbFault, Kill, HostCrash, SendLost
  <2>2. \A u \in Task : pc'[u] \in InStep => u # t /\ pc'[u] = pc[u]
    BY <2>1 DEF Goto, TypeOK, InStep
  <2>3. /\ units' = units /\ vectors' = vectors /\ step' = step /\ del' = del
        /\ (read' = read /\ prev' = prev) \/ Forget(t)
        /\ status' = status \/ status' # "ready"
    BY <1>4 DEF Disaster, DbFault, Kill, HostCrash, SendLost
  <2>4. \A u \in Task : pc'[u] \in InStep => read'[u] = read[u] /\ prev'[u] = prev[u]
    BY <2>2, <2>3 DEF Forget, TypeOK
  <2>5. QED
    BY <2>2, <2>3, <2>4, NothingCleared
<1>5. ASSUME NEW t \in Task, RunStep(t) PROVE Clearing'
  <2>1. CASE TakeTask(t)
    <3>1. \A u \in Task : pc'[u] \notin InStep
      BY <2>1, TakenAlone DEF TakeTask, Goto, TypeOK, Active, InStep
    <3>2. QED
      BY <2>1, <3>1, NothingCleared DEF TakeTask
  <2>2. CASE AssetGone(t) \/ FileDone(t) \/ SendAgain(t)
    <3>1. \A u \in Task : pc'[u] \in InStep => pc'[u] = pc[u]
      BY <2>2 DEF AssetGone, FileDone, SendAgain, Goto, TypeOK, InStep
    <3>2. QED
      BY <2>2, <3>1, NothingCleared DEF AssetGone, FileDone, SendAgain
  <2>3. CASE BeginStep(t)
    <3>1. pc[t] \in Active /\ pc'[t] = "running" /\ status' # "ready"
      BY <2>3 DEF BeginStep, Goto, TypeOK, Active
    <3>2. IndexNeverStale'
      BY <3>1 DEF IndexNeverStale
    <3>3. prev'[t] = "ready" /\ del' = "live" => vectors' \subseteq units'
      BY <2>3 DEF BeginStep, TypeOK, Clearing, IndexNeverStale
    <3>4. Clears(t)'
      BY <3>1, <3>3 DEF Clears, Indexing, At
    <3>5. QED
      BY <1>5, <3>1, <3>2, <3>4, OneClears
  <2>4. CASE ParseBusy(t)
    <3>1. pc[t] \in Active /\ pc'[t] = "deferring"
      BY <2>4 DEF ParseBusy, At, Goto, TypeOK, Active, InStep
    <3>2. Clears(t)
      BY DEF Clearing
    <3>3. IndexNeverStale'
      BY <2>4, <3>2 DEF ParseBusy, At, Clears, Clearing, IndexNeverStale
    <3>4. Clears(t)'
      BY <3>1 DEF Clears, Indexing, InStep, At
    <3>5. QED
      BY <1>5, <3>1, <3>3, <3>4, OneClears
  <2>5. CASE ChunkRead(t) \/ EmbedRead(t) \/ EmbedStore(t) \/ IndexRead(t) \/ IndexDelete(t) \/ IndexUpsert(t)
    <3>1. pc[t] \in InStep /\ pc[t] \in Active
      BY <2>5 DEF ChunkRead, EmbedRead, EmbedStore, IndexRead, IndexDelete, IndexUpsert,
                  At, Active, InStep
    <3>2. status # "ready" /\ status' = status /\ Clears(t)
      BY <2>5, <3>1 DEF ChunkRead, EmbedRead, EmbedStore, IndexRead, IndexDelete, IndexUpsert,
                        Clearing, Clears
    <3>3. IndexNeverStale'
      BY <3>2 DEF IndexNeverStale
    <3>4. CASE ChunkRead(t)
      <4>1. pc'[t] = "rebuilding" /\ step'[t] = "chunk"
        BY <3>4 DEF ChunkRead, At, Goto, TypeOK
      <4>2. Clears(t)'
        BY <3>2, <4>1 DEF Clears, Indexing, At
      <4>3. QED
        BY <1>5, <3>1, <3>3, <4>2, OneClears
    <3>5. CASE EmbedRead(t) \/ EmbedStore(t)
      <4>1. pc'[t] \in {"embedding", "stored"} /\ step'[t] = "embed"
        BY <3>2, <3>5 DEF EmbedRead, EmbedStore, At, Goto, TypeOK, Clears
      <4>2. Clears(t)'
        BY <3>2, <4>1 DEF Clears, Indexing, At
      <4>3. QED
        BY <1>5, <3>1, <3>3, <4>2, OneClears
    <3>6. CASE IndexRead(t)
      <4>1. pc'[t] = "indexing" /\ step'[t] = "index" /\ read'[t] \subseteq units /\ units' = units
        BY <3>6 DEF IndexRead, At, Goto, TypeOK
      <4>2. Clears(t)'
        BY <3>2, <4>1 DEF Clears, Indexing, At
      <4>3. QED
        BY <1>5, <3>1, <3>3, <4>2, OneClears
    <3>7. CASE IndexDelete(t)
      <4>1. /\ pc[t] = "indexing" /\ pc'[t] = "cleared" /\ vectors' = {}
            /\ step' = step /\ read' = read /\ units' = units
        BY <3>7 DEF IndexDelete, Goto, TypeOK
      <4>2. Clears(t)'
        BY <3>2, <4>1 DEF Clears, Indexing, At
      <4>3. QED
        BY <1>5, <3>1, <3>3, <4>2, OneClears
    <3>8. CASE IndexUpsert(t)
      <4>1. /\ pc[t] = "cleared" /\ pc'[t] = "upserted" /\ vectors' = vectors \cup read[t]
            /\ step' = step /\ read' = read /\ units' = units
        BY <3>8 DEF IndexUpsert, Goto, TypeOK
      <4>2. vectors' \subseteq read[t]
        BY <3>2, <4>1 DEF Clears
      <4>3. Clears(t)'
        BY <3>2, <4>1, <4>2 DEF Clears, Indexing, At
      <4>4. QED
        BY <1>5, <3>1, <3>3, <4>3, OneClears
    <3>9. QED
      BY <2>5, <3>4, <3>5, <3>6, <3>7, <3>8
  <2>6. CASE \/ ParseDone(t) \/ ChunkSkip(t) \/ ChunkCommit(t)
             \/ GraphDone(t) \/ EmbedCommit(t) \/ IndexCommit(t)
    <3>1. pc[t] \in InStep /\ pc[t] \in Active /\ StepSucceeded(t)
      BY <2>6 DEF ParseDone, ChunkSkip, ChunkCommit, GraphDone, EmbedCommit,
                  IndexCommit, At, InStep, Active
    <3>2. pc'[t] \in {"between", "filing"}
      BY <3>1 DEF StepSucceeded, Goto, TypeOK
    <3>3. Clears(t)'
      BY <3>2 DEF Clears, Indexing, InStep, At
    <3>4. Clears(t) /\ status # "ready"
      BY <3>1 DEF Clearing, Clears
    <3>5. CASE step[t] # "index"
      <4>1. status' # "ready"
        BY <3>1, <3>4, <3>5 DEF StepSucceeded, LastStep
      <4>2. QED
        BY <1>5, <3>1, <3>3, <4>1, OneClears DEF IndexNeverStale
    <3>6. CASE step[t] = "index"
      <4>1. IndexCommit(t)
        BY <2>6, <3>4, <3>6 DEF ParseDone, ChunkSkip, ChunkCommit, GraphDone, EmbedCommit,
                                At, Clears
      <4>2. vectors' \subseteq units'
        BY <3>4, <4>1 DEF IndexCommit, Clears, Indexing
      <4>3. QED
        BY <1>5, <3>1, <3>3, <4>2, OneClears DEF IndexNeverStale
    <3>7. QED
      BY <3>5, <3>6
  <2>7. CASE EmbedNothing(t) \/ EmbedStale(t) \/ IndexNothing(t)
    <3>1. StepFailed(t, FALSE) /\ units' = units /\ vectors' = vectors
      BY <2>7 DEF EmbedNothing, EmbedStale, IndexNothing
    <3>2. QED
      BY <1>3, <3>1
  <2>8. ASSUME NEW upstream \in BOOLEAN,
               \/ StepFail(t, upstream)
               \/ \E done \in SUBSET due[t] : EmbedFailed(t, done, upstream)
        PROVE  Clearing'
    <3>1. StepFailed(t, upstream) /\ units' = units /\ vectors' = vectors
      BY <2>8 DEF StepFail, EmbedFailed
    <3>2. QED
      BY <1>3, <3>1
  <2>9. QED
    BY <1>5, <2>1, <2>2, <2>3, <2>4, <2>5, <2>6, <2>7, <2>8 DEF RunStep
<1>6. ASSUME NEW t \in Task, NEW u \in Task, Redeliver(t, u) PROVE Clearing'
  <2>1. \A v \in Task : pc'[v] \in InStep => pc'[v] = pc[v]
    BY <1>6 DEF Redeliver, Goto, TypeOK, InStep
  <2>2. QED
    BY <1>6, <2>1, NothingCleared DEF Redeliver
<1>7. CASE UNCHANGED vars
  BY <1>7, NothingCleared
<1>8. QED
  BY <1>1, <1>2, <1>4, <1>5, <1>6, <1>7 DEF Next

\* With one worker a READY asset is never found through a unit it no longer has,
\* for every kind of asset and whatever fails or is retried (steps.py 718-764,
\* runner.py 112-141).
THEOREM OneWorkerIndexNeverStale == ASSUME Workers = 1 PROVE Spec => []IndexNeverStale
<1>1. Init => Alone /\ Clearing
  BY DEF Init, Alone, Clearing, Clears, Indexing, IndexNeverStale, Active, InStep, At
<1>2. TypeOK /\ Alone /\ Clearing /\ [Next]_vars => Alone' /\ Clearing'
  BY AloneStep, ClearingStep
<1>3. Clearing => IndexNeverStale
  BY DEF Clearing
<1>4. QED
  BY <1>1, <1>2, <1>3, TypeCorrect, PTL DEF Spec

-----------------------------------------------------------------------------
(* One worker: what is READY can be searched. *)

\* An asset whose embed step takes all its units, and of which nobody asks for
\* the index step alone: a document embeds only what has no mark, and the cache
\* then lacks the rest.
EmbedsAll ==
  /\ Workers = 1
  /\ Kind # "document"
  /\ Kind = "image" => \A b, c \in Batch : b = c
  /\ "index" \notin RetryFrom

\* What the steps of a task have done so far for the asset's units.
Whole(t) ==
  /\ pc[t] = "rebuilding" => read[t] = units
  /\ pc[t] \in {"embedding", "stored"} =>
       read[t] = units /\ units \ marked \subseteq due[t] /\ units # {}
  /\ pc[t] = "stored" => cache = units
  /\ pc[t] \in Active /\ step[t] = "index" =>
       units # {} /\ units \subseteq marked /\ units \subseteq cache
  /\ pc[t] \in Indexing => read[t] = units
  /\ pc[t] = "upserted" /\ del = "live" => vectors = units

\* Inductive: a task comes to the index step only through the embed step, which
\* has marked and cached all units, and those of a READY asset are indexed.
Embedding ==
  /\ \A t \in Task : from[t] # "index"
  /\ \A t \in Task : Whole(t)
  /\ Kind = "image" => \A x, y \in units : x = y
  /\ ReadyIsSearchable

\* Who is not at work has done nothing, and binds nobody.
LEMMA NothingDone ==
  ASSUME Embedding,
         units' = units, marked' = marked, cache' = cache,
         \A t \in Task : from'[t] # "index",
         vectors' = vectors \/ del' # "live",
         status' = status \/ status' # "ready",
         del' = del \/ del' # "live",
         \A t \in Task : pc'[t] \in Active =>
            /\ pc'[t] = pc[t] /\ step'[t] = step[t] /\ read'[t] = read[t] /\ due'[t] = due[t]
  PROVE  Embedding'
<1>1. ASSUME NEW t \in Task, pc'[t] \in Active PROVE Whole(t)'
  BY <1>1 DEF Embedding, Whole
<1>2. ASSUME NEW t \in Task, pc'[t] \notin Active PROVE Whole(t)'
  BY <1>2 DEF Whole, Indexing, Active, InStep
<1>3. ReadyIsSearchable'
  BY DEF Embedding, ReadyIsSearchable
<1>4. QED
  BY <1>1, <1>2, <1>3 DEF Embedding

LEMMA OneWhole ==
  ASSUME TypeOK, Alone, Embedding, NEW t \in Task, pc[t] \in Active, RunStep(t) \/ Disaster(t),
         from' = from, Kind = "image" => \A x, y \in units' : x = y,
         Whole(t)', ReadyIsSearchable'
  PROVE  Embedding'
<1>1. \A u \in Task \ {t} : pc'[u] \notin Active
  BY OthersRest
<1>2. ASSUME NEW u \in Task \ {t} PROVE Whole(u)'
  BY <1>1, <1>2 DEF Whole, Indexing, Active, InStep
<1>3. \A u \in Task : from'[u] # "index"
  BY DEF Embedding
<1>4. QED
  BY <1>2, <1>3 DEF Embedding

LEMMA EmbeddingStep ==
  ASSUME EmbedsAll, TypeOK, Alone, Clearing, Embedding, [Next]_vars
  PROVE  Embedding'
<1> USE DEF vars, taskVars, dataVars
<1>1. ASSUME NEW t \in Task, SendTask(t) PROVE Embedding'
  <2>1. \A u \in Task : pc'[u] \in Active => pc'[u] = pc[u]
    BY <1>1 DEF SendTask, Goto, TypeOK, Active, InStep
  <2>2. QED
    BY <1>1, <2>1, NothingDone DEF SendTask, Embedding
<1>2. ASSUME NEW t \in Task, NEW s \in RetryFrom, RetryAsset(t, s) PROVE Embedding'
  <2>1. \A u \in Task : pc'[u] \in Active => pc'[u] = pc[u]
    BY <1>2 DEF RetryAsset, Goto, TypeOK, Active, InStep
  <2>2. ASSUME NEW u \in Task PROVE Whole(u)'
    <3>1. CASE pc'[u] \in Active
      BY <1>2, <2>1, <3>1 DEF RetryAsset, Embedding, Whole
    <3>2. CASE pc'[u] \notin Active
      BY <3>2 DEF Whole, Indexing, Active, InStep
    <3>3. QED
      BY <3>1, <3>2
  <2>3. \A u \in Task : from'[u] # "index"
    BY <1>2 DEF EmbedsAll, RetryAsset, Embedding, TypeOK
  <2>4. QED
    BY <1>2, <2>2, <2>3 DEF RetryAsset, Embedding, ReadyIsSearchable
<1>3. CASE DeleteAsset \/ DeleteVectors \/ PurgeFail
  BY <1>3, NothingDone DEF DeleteAsset, DeleteVectors, PurgeFail, Embedding
<1>4. ASSUME NEW t \in Task, NEW upstream \in BOOLEAN, StepFailed(t, upstream),
             pc[t] \in Active, RunStep(t), units' = units
      PROVE  Embedding'
  <2>1. pc'[t] \in {"queued", "dead"} /\ status' = "failed" /\ from' = from
    BY <1>4 DEF StepFailed, TaskRaised, Goto, TypeOK
  <2>2. Whole(t)'
    BY <2>1 DEF Whole, Indexing, Active, InStep
  <2>3. ReadyIsSearchable'
    BY <2>1 DEF ReadyIsSearchable
  <2>4. QED
    BY <1>4, <2>1, <2>2, <2>3, OneWhole DEF Embedding
<1>5. ASSUME NEW t \in Task, Disaster(t) PROVE Embedding'
  <2>1. PICK l \in {"dead", "abandoned", "lost", "queued"} : Goto(t, l)
    BY <1>5 DEF Disaster, DbFault, Kill, HostCrash, SendLost
  <2>2. \A u \in Task : pc'[u] \in Active => u # t /\ pc'[u] = pc[u]
    BY <2>1 DEF Goto, TypeOK, Active, InStep
  <2>3. /\ units' = units /\ marked' = marked /\ cache' = cache /\ vectors' = vectors
        /\ step' = step /\ from' = from /\ del' = del
        /\ (read' = read /\ due' = due) \/ Forget(t)
        /\ status' = status \/ status' # "ready"
    BY <1>5 DEF Disaster, DbFault, Kill, HostCrash, SendLost
  <2>4. \A u \in Task : pc'[u] \in Active => read'[u] = read[u] /\ due'[u] = due[u]
    BY <2>2, <2>3 DEF Forget, TypeOK
  <2>5. QED
    BY <2>2, <2>3, <2>4, NothingDone DEF Embedding
<1>6. ASSUME NEW t \in Task, RunStep(t) PROVE Embedding'
  <2>1. CASE TakeTask(t)
    <3>1. \A u \in Task \ {t} : pc'[u] \notin Active
      BY <2>1, TakenAlone DEF TakeTask, Goto, TypeOK, EmbedsAll
    <3>2. pc'[t] = "between" /\ step'[t] = from[t] /\ from[t] # "index"
      BY <2>1 DEF TakeTask, Goto, TypeOK, Embedding
    <3>3. Whole(t)'
      BY <3>2 DEF Whole, Indexing
    <3>4. ASSUME NEW u \in Task \ {t} PROVE Whole(u)'
      BY <3>1, <3>4 DEF Whole, Indexing, Active, InStep
    <3>5. QED
      BY <2>1, <3>3, <3>4 DEF TakeTask, Embedding, ReadyIsSearchable
  <2>3. CASE AssetGone(t) \/ FileDone(t) \/ SendAgain(t)
    <3>1. \A u \in Task : pc'[u] \in Active => pc'[u] = pc[u]
      BY <2>3 DEF AssetGone, FileDone, SendAgain, Goto, TypeOK, Active, InStep
    <3>2. QED
      BY <2>3, <3>1, NothingDone DEF AssetGone, FileDone, SendAgain, Embedding
  <2>4. Whole(t) /\ Clears(t) /\ (Kind = "image" => \A x, y \in units : x = y)
    BY DEF Embedding, Clearing
  <2>5. CASE BeginStep(t)
    <3>1. pc[t] \in Active /\ pc'[t] = "running" /\ status' # "ready"
      BY <2>5 DEF BeginStep, Goto, TypeOK, Active
    <3>2. Whole(t)'
      BY <2>4, <2>5, <3>1 DEF BeginStep, Whole, Indexing
    <3>3. QED
      BY <1>6, <2>4, <2>5, <3>1, <3>2, OneWhole DEF BeginStep, ReadyIsSearchable
  <2>6. CASE ParseBusy(t)
    BY <2>6 DEF ParseBusy, EmbedsAll
  <2>7. CASE ChunkRead(t) \/ EmbedRead(t) \/ EmbedStore(t) \/ IndexRead(t) \/ IndexDelete(t) \/ IndexUpsert(t)
    <3>1. pc[t] \in InStep /\ pc[t] \in Active
      BY <2>7 DEF ChunkRead, EmbedRead, EmbedStore, IndexRead, IndexDelete, IndexUpsert,
                  At, Active, InStep
    <3>2. status # "ready" /\ status' = status /\ units' = units /\ from' = from
      BY <2>4, <2>7, <3>1 DEF ChunkRead, EmbedRead, EmbedStore, IndexRead, IndexDelete,
                        IndexUpsert, Clears
    <3>3. ReadyIsSearchable'
      BY <3>2 DEF ReadyIsSearchable
    <3>4. Whole(t)'
      <4>1. CASE ChunkRead(t)
        <5>1. pc'[t] = "rebuilding" /\ step'[t] = "chunk" /\ read'[t] = units
          BY <4>1 DEF ChunkRead, At, Goto, TypeOK
        <5>2. QED
          BY <3>2, <5>1 DEF Whole, Indexing
      <4>2. CASE EmbedRead(t)
        <5>1. PICK r \in EmbedChoice : /\ read' = [read EXCEPT ![t] = r]
                                       /\ due' = [due EXCEPT ![t] = r \ marked]
          BY <4>2 DEF EmbedRead
        <5>2. r = units /\ units # {}
          <6>1. CASE Kind = "av"
            BY <5>1, <6>1 DEF EmbedChoice
          <6>2. CASE Kind = "image"
            <7>1. PICK x \in units : r = {x}
              BY <5>1, <6>2 DEF EmbedChoice
            <7>2. \A y \in units : y = x
              BY <2>4, <6>2, <7>1
            <7>3. QED
              BY <7>1, <7>2
          <6>3. QED
            BY <6>1, <6>2, PipelineAssumption DEF EmbedsAll
        <5>3. pc'[t] = "embedding" /\ step'[t] = "embed" /\ marked' = marked
          BY <4>2 DEF EmbedRead, At, Goto, TypeOK
        <5>4. read'[t] = units /\ due'[t] = units \ marked
          BY <5>1, <5>2 DEF TypeOK
        <5>5. QED
          BY <3>2, <5>2, <5>3, <5>4 DEF Whole, Indexing
      <4>3. CASE EmbedStore(t)
        <5>1. /\ pc[t] = "embedding" /\ pc'[t] = "stored" /\ step' = step /\ read' = read
              /\ due' = due /\ marked' = marked /\ cache' = read[t]
          BY <4>3 DEF EmbedStore, Goto, TypeOK
        <5>2. step[t] = "embed"
          BY <2>4, <5>1 DEF Clears
        <5>3. QED
          BY <2>4, <3>2, <5>1, <5>2 DEF Whole, Indexing
      <4>4. CASE IndexRead(t)
        <5>1. /\ step[t] = "index" /\ pc'[t] = "indexing" /\ step' = step
              /\ marked' = marked /\ cache' = cache /\ read'[t] = units \cap marked \cap cache
          BY <4>4 DEF IndexRead, At, Goto, TypeOK
        <5>2. units # {} /\ units \subseteq marked /\ units \subseteq cache
          BY <2>4, <3>1, <5>1 DEF Whole
        <5>3. QED
          BY <3>2, <5>1, <5>2 DEF Whole, Indexing
      <4>5. CASE IndexDelete(t)
        <5>1. /\ pc[t] = "indexing" /\ pc'[t] = "cleared" /\ step' = step /\ read' = read
              /\ marked' = marked /\ cache' = cache
          BY <4>5 DEF IndexDelete, Goto, TypeOK
        <5>2. QED
          BY <2>4, <3>1, <3>2, <5>1 DEF Whole, Indexing
      <4>6. CASE IndexUpsert(t)
        <5>1. /\ pc[t] = "cleared" /\ pc'[t] = "upserted" /\ step' = step /\ read' = read
              /\ marked' = marked /\ cache' = cache /\ vectors' = vectors \cup read[t]
          BY <4>6 DEF IndexUpsert, Goto, TypeOK
        <5>2. vectors' = units
          BY <2>4, <5>1 DEF Clears, Whole, Indexing
        <5>3. QED
          BY <2>4, <3>1, <3>2, <5>1, <5>2 DEF Whole, Indexing
      <4>7. QED
        BY <2>7, <4>1, <4>2, <4>3, <4>4, <4>5, <4>6
    <3>5. QED
      BY <1>6, <2>4, <3>1, <3>2, <3>3, <3>4, OneWhole
  <2>8. CASE \/ ParseDone(t) \/ ChunkSkip(t) \/ ChunkCommit(t)
             \/ GraphDone(t) \/ EmbedCommit(t) \/ IndexCommit(t)
    <3>1. pc[t] \in InStep /\ pc[t] \in Active /\ StepSucceeded(t)
      BY <2>8 DEF ParseDone, ChunkSkip, ChunkCommit, GraphDone, EmbedCommit,
                  IndexCommit, At, InStep, Active
    <3>2. /\ pc'[t] \in {"between", "filing"} /\ from' = from /\ del' = del
          /\ pc'[t] = "between" => step[t] # "index" /\ step'[t] = StepAfter[step[t]]
      BY <3>1 DEF StepSucceeded, Goto, TypeOK, LastStep
    <3>3. status # "ready"
      BY <2>4, <3>1 DEF Clears
    <3>4. step[t] # "index" => status' # "ready"
      BY <3>1, <3>3 DEF StepSucceeded, LastStep
    <3>5. Kind = "image" => \A x, y \in units' : x = y
      <4>1. CASE ChunkCommit(t)
        <5>1. PICK g \in FreshGen : units' = (units \ read[t]) \cup ({g} \X Batch)
          BY <4>1 DEF ChunkCommit
        <5>2. units' = {g} \X Batch
          BY <2>4, <4>1, <5>1 DEF ChunkCommit, Whole
        <5>3. QED
          BY <5>2 DEF EmbedsAll
      <4>2. CASE ~ ChunkCommit(t)
        <5>1. units' = units
          BY <2>8, <4>2 DEF ParseDone, ChunkSkip, GraphDone, EmbedCommit, IndexCommit
        <5>2. QED
          BY <2>4, <5>1
      <4>3. QED
        BY <4>1, <4>2
    <3>6. CASE EmbedCommit(t)
      <4>1. /\ pc[t] = "stored" /\ units' = units /\ cache' = cache
            /\ marked' = marked \cup due[t]
        BY <3>6 DEF EmbedCommit
      <4>2. units # {} /\ units' \subseteq marked' /\ units' \subseteq cache'
        BY <2>4, <4>1 DEF Whole
      <4>3. step[t] # "index"
        BY <2>4, <4>1 DEF Clears
      <4>4. Whole(t)'
        BY <3>2, <4>1, <4>2 DEF Whole, Indexing
      <4>5. QED
        BY <1>6, <3>1, <3>2, <3>4, <3>5, <4>3, <4>4, OneWhole DEF ReadyIsSearchable
    <3>7. CASE IndexCommit(t)
      <4>1. /\ pc[t] = "upserted" /\ units' = units /\ vectors' = vectors
        BY <3>7 DEF IndexCommit
      <4>2. step[t] = "index"
        BY <2>4, <4>1 DEF Clears, Indexing
      <4>3. Whole(t)'
        BY <3>2, <4>2 DEF Whole, Indexing, Active, InStep
      <4>4. ReadyIsSearchable'
        BY <2>4, <3>1, <3>2, <4>1, <4>2 DEF Whole, ReadyIsSearchable
      <4>5. QED
        BY <1>6, <3>1, <3>2, <3>5, <4>3, <4>4, OneWhole
    <3>8. CASE ParseDone(t) \/ ChunkSkip(t) \/ ChunkCommit(t) \/ GraphDone(t)
      <4>1. step[t] \in {"parse", "chunk", "graph"}
        BY <2>4, <3>8 DEF ParseDone, ChunkSkip, ChunkCommit, GraphDone, At, Clears
      <4>2. step'[t] # "index" \/ pc'[t] = "filing"
        BY <3>2, <4>1 DEF StepAfter
      <4>3. Whole(t)'
        BY <3>2, <4>2 DEF Whole, Indexing, Active, InStep
      <4>4. QED
        BY <1>6, <3>1, <3>2, <3>4, <3>5, <4>1, <4>3, OneWhole DEF ReadyIsSearchable
    <3>9. QED
      BY <2>8, <3>6, <3>7, <3>8
  <2>9. CASE EmbedNothing(t) \/ EmbedStale(t) \/ IndexNothing(t)
    <3>1. /\ StepFailed(t, FALSE) /\ units' = units /\ pc[t] \in Active
      BY <2>9 DEF EmbedNothing, EmbedStale, IndexNothing, At, Active, InStep
    <3>2. QED
      BY <1>4, <1>6, <3>1
  <2>10. ASSUME NEW upstream \in BOOLEAN,
               \/ StepFail(t, upstream)
               \/ \E done \in SUBSET due[t] : EmbedFailed(t, done, upstream)
        PROVE  Embedding'
    <3>1. StepFailed(t, upstream) /\ units' = units /\ pc[t] \in Active
      BY <2>10 DEF StepFail, EmbedFailed, At, Active, InStep
    <3>2. QED
      BY <1>4, <1>6, <3>1
  <2>11. QED
    BY <1>6, <2>1, <2>3, <2>5, <2>6, <2>7, <2>8, <2>9, <2>10 DEF RunStep
<1>7. ASSUME NEW t \in Task, NEW u \in Task, Redeliver(t, u) PROVE Embedding'
  <2>1. \A v \in Task : pc'[v] \in Active => pc'[v] = pc[v]
    BY <1>7 DEF Redeliver, Goto, TypeOK, Active, InStep
  <2>2. \A v \in Task : from'[v] # "index"
    BY <1>7 DEF Redeliver, TypeOK, Embedding
  <2>3. QED
    BY <1>7, <2>1, <2>2, NothingDone DEF Redeliver
<1>8. CASE UNCHANGED vars
  BY <1>8, NothingDone DEF Embedding
<1>9. QED
  BY <1>1, <1>2, <1>3, <1>5, <1>6, <1>7, <1>8 DEF Next

\* With one worker a READY image, audio or video has units, and each of them has
\* its vector, as long as no run is asked to begin at the index step
\* (steps.py 9, image_flow.py 215-252, media_flow.py 566-628).
THEOREM OneWorkerReadyIsSearchable == ASSUME EmbedsAll PROVE Spec => []ReadyIsSearchable
<1>1. Init => Alone /\ Clearing /\ Embedding
  BY DEF Init, Alone, Clearing, Clears, Embedding, Whole, Indexing, IndexNeverStale,
         ReadyIsSearchable, Active, InStep, At
<1>2. TypeOK /\ Alone /\ Clearing /\ Embedding /\ [Next]_vars
        => Alone' /\ Clearing' /\ Embedding'
  BY AloneStep, ClearingStep, EmbeddingStep DEF EmbedsAll
<1>3. Embedding => ReadyIsSearchable
  BY DEF Embedding
<1>4. QED
  BY <1>1, <1>2, <1>3, TypeCorrect, PTL DEF Spec
=============================================================================
