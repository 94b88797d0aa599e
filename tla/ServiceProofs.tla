---------------------------- MODULE ServiceProofs ----------------------------
(***************************************************************************)
(* What holds of the two components that share a service outside of the     *)
(* system: the worker processes that share MinerU (MineruSlots), for any    *)
(* number of processes and keys and for any lease time, whether or not a    *)
(* parse outlives it, and the questions that share a session of the ACP gateway (AgentTurns),  *)
(* for any number of questions, events and faults.                          *)
(***************************************************************************)
EXTENDS MineruSlots, AgentTurns, FiniteSetTheorems, SequenceTheorems, TLAPS

-----------------------------------------------------------------------------
(* MineruSlots: the leases. *)

\* A process with a lease knows its token.
Tokened == \A w \in Worker : pc[w] \in Leased => token[w] # Free

\* No two processes have the same token.
Distinct ==
  \A w, v \in Worker : token[w] # Free /\ token[w] = token[v] => w = v

\* While a process may have a job at MinerU and its lease runs, its key holds its
\* token and has all the time left that the process has not used.
Held ==
  \A w \in Worker :
    InTime(w) =>
      holder[key[w]] = token[w] /\ ttl[key[w]] + elapsed[w] = Ttl

\* The inductive invariant of the leases.
LeaseInv == TypeOK /\ Tokened /\ Distinct /\ Held

-----------------------------------------------------------------------------
(* One lemma per part of the invariant. *)

\* Zero is a tick count and names a key.
LEMMA Zero == 0 \in Slot /\ 0 \in 0 .. Ttl
BY SlotsAssumption DEF Slot

\* Looking at the keys one after the other (mineru_slots.py 46-53, 59-67).
LEMMA NextKeyType ==
  ASSUME TypeOK, NEW w \in Worker, NextKey(w),
         UNCHANGED <<token, key, elapsed, holder, ttl, jobs, orphans>>
  PROVE  TypeOK'
<1>1. pc' \in [Worker -> Leased \cup {"idle", "probing", "acquiring"}]
  BY DEF NextKey, TypeOK
<1>2. at' \in [Worker -> Slot]
  BY DEF NextKey, TypeOK
<1>3. QED
  BY <1>1, <1>2 DEF TypeOK

\* A worker's own step keeps the types.
LEMMA WorkerStepType ==
  ASSUME TypeOK, Tokened, NEW w \in Worker, WorkerStep(w)
  PROVE  TypeOK'
<1> USE Zero DEF procVars, Move, StopClock, DropLease, Leased, Parsing
<1>1. CASE ProbeFree(w)
  BY <1>1 DEF ProbeFree, TypeOK
<1>2. CASE ProbeTaken(w) \/ AcquireTaken(w)
  BY <1>2, NextKeyType DEF ProbeTaken, AcquireTaken
<1>3. CASE Acquire(w)
  <2>1. PICK k \in Fresh : /\ holder' = [holder EXCEPT ![at[w]] = k]
                           /\ token' = [token EXCEPT ![w] = k]
    BY <1>3 DEF Acquire
  <2>2. /\ holder' \in [Slot -> Token \cup {Free}]
        /\ token' \in [Worker -> Token \cup {Free}]
    BY <2>1 DEF Fresh, TypeOK
  <2>3. ttl' \in [Slot -> 0 .. Ttl]
    BY <1>3, SlotsAssumption DEF Acquire, TypeOK
  <2>4. QED
    BY <1>3, <2>2, <2>3 DEF Acquire, TypeOK
<1>4. CASE CreateJob(w)
  <2>1. token[w] \in Token
    BY <1>4 DEF CreateJob, TypeOK, Tokened
  <2>2. QED
    BY <1>4, <2>1 DEF CreateJob, TypeOK
<1>5. CASE UploadFailed(w)
  BY <1>5 DEF UploadFailed, TypeOK
<1>6. CASE WaitDone(w)
  BY <1>6 DEF WaitDone, TypeOK
<1>7. CASE WaitFailed(w)
  BY <1>7 DEF WaitFailed, TypeOK
<1>8. CASE CancelJob(w)
  BY <1>8 DEF CancelJob, TypeOK
<1>9. CASE DownloadEnded(w)
  BY <1>9 DEF DownloadEnded, TypeOK
<1>10. CASE Release(w)
  BY <1>10 DEF Release, TypeOK
<1>11. QED
  BY <1>1, <1>2, <1>3, <1>4, <1>5, <1>6, <1>7, <1>8, <1>9, <1>10
     DEF WorkerStep

\* So does a fault.
LEMMA FaultType ==
  ASSUME TypeOK, Tokened, NEW w \in Worker, Fault(w)
  PROVE  TypeOK'
<1> USE Zero DEF procVars, Move, StopClock, DropLease, Leased, Parsing
<1>1. CASE AcquireLost(w)
  <2>1. holder' \in [Slot -> Token \cup {Free}]
    BY <1>1 DEF AcquireLost, Fresh, TypeOK
  <2>2. ttl' \in [Slot -> 0 .. Ttl]
    BY <1>1, SlotsAssumption DEF AcquireLost, TypeOK
  <2>3. QED
    BY <1>1, <2>1, <2>2 DEF AcquireLost, TypeOK
<1>2. CASE ReleaseFailed(w)
  BY <1>2 DEF ReleaseFailed, TypeOK
<1>3. CASE CreateLost(w)
  <2>1. token[w] \in Token
    BY <1>3 DEF CreateLost, TypeOK, Tokened
  <2>2. QED
    BY <1>3, <2>1 DEF CreateLost, TypeOK
<1>4. CASE CancelFailed(w)
  BY <1>4 DEF CancelFailed, TypeOK
<1>5. CASE Crash(w)
  BY <1>5 DEF Crash, TypeOK
<1>6. QED
  BY <1>1, <1>2, <1>3, <1>4, <1>5 DEF Fault

\* Every step keeps the types.
LEMMA TypeStep ==
  ASSUME TypeOK, Tokened, [Next]_vars
  PROVE  TypeOK'
<1>1. ASSUME NEW w \in Worker, StartParse(w) PROVE TypeOK'
  BY <1>1, Zero DEF StartParse, Move, TypeOK
<1>2. CASE Tick
  <2>1. elapsed' \in [Worker -> 0 .. Ttl]
    BY <1>2, SlotsAssumption DEF Tick, TypeOK, InTime
  <2>2. ttl' \in [Slot -> 0 .. Ttl]
    BY <1>2, SlotsAssumption DEF Tick, TypeOK
  <2>3. holder' \in [Slot -> Token \cup {Free}]
    BY <1>2 DEF Tick, TypeOK
  <2>4. QED
    BY <1>2, <2>1, <2>2, <2>3 DEF Tick, TypeOK
<1>3. CASE JobEnds
  BY <1>3 DEF JobEnds, procVars, TypeOK
<1>4. CASE UNCHANGED vars
  BY <1>4 DEF vars, procVars, TypeOK
<1>5. QED
  BY <1>1, <1>2, <1>3, <1>4, WorkerStepType, FaultType DEF Next

-----------------------------------------------------------------------------
(* Leases. *)

\* A step that takes or gives no lease, and restarts no clock, keeps them all.
LEMMA LeaseFrame ==
  ASSUME LeaseInv, UNCHANGED <<token, key, holder, ttl>>,
         \A v \in Worker : pc'[v] \in Leased => pc[v] \in Leased,
         \A v \in Worker :
           pc'[v] \in Parsing => pc[v] \in Parsing /\ elapsed'[v] = elapsed[v]
  PROVE  Tokened' /\ Distinct' /\ Held'
BY DEF LeaseInv, Tokened, Distinct, Held, InTime

\* A process that gives up its token, with or without its key, takes no key
\* from another process: the release script compares tokens
\* (mineru_slots.py 14-18).
LEMMA DropKeepsOthers ==
  ASSUME LeaseInv, NEW w \in Worker, pc[w] \in Leased, DropLease(w),
         pc' = [pc EXCEPT ![w] = "idle"], UNCHANGED <<key, ttl>>,
         \/ holder' = holder
         \/ holder' = [holder EXCEPT ![key[w]] = IF @ = token[w] THEN Free ELSE @]
  PROVE  Tokened' /\ Distinct' /\ Held'
<1>1. \A v \in Worker : v # w => pc'[v] = pc[v] /\ token'[v] = token[v]
                                 /\ elapsed'[v] = elapsed[v]
  BY DEF LeaseInv, TypeOK, DropLease, StopClock
<1>2. pc'[w] = "idle" /\ token'[w] = Free
  BY DEF LeaseInv, TypeOK, DropLease
<1>3. "idle" \notin Leased /\ Parsing \subseteq Leased
  BY DEF Leased, Parsing
<1>4. Tokened' /\ Distinct'
  BY <1>1, <1>2, <1>3 DEF LeaseInv, Tokened, Distinct
<1>5. ASSUME NEW v \in Worker, InTime(v)'
      PROVE  holder'[key'[v]] = token'[v] /\ ttl'[key'[v]] + elapsed'[v] = Ttl
  <2>1. v # w /\ pc[v] \in Parsing /\ InTime(v)
    BY <1>1, <1>2, <1>3, <1>5 DEF InTime
  <2>2. holder[key[v]] = token[v] /\ ttl[key[v]] + elapsed[v] = Ttl
    BY <2>1 DEF LeaseInv, Held
  <2>3. token[v] # token[w] /\ key[v] \in Slot
    BY <2>1, <1>3 DEF LeaseInv, TypeOK, Tokened, Distinct
  <2>4. holder'[key[v]] = holder[key[v]]
    BY <2>2, <2>3 DEF LeaseInv, TypeOK
  <2>5. QED
    BY <1>1, <2>1, <2>2, <2>4
<1>6. QED
  BY <1>4, <1>5 DEF Held

\* SET NX takes no key that another process holds.
LEMMA AcquireKeepsOthers ==
  ASSUME LeaseInv, NEW w \in Worker, Acquire(w)
  PROVE  Tokened' /\ Distinct' /\ Held'
<1>1. PICK k \in Fresh : /\ holder' = [holder EXCEPT ![at[w]] = k]
                         /\ token' = [token EXCEPT ![w] = k]
  BY DEF Acquire
<1>2. k # Free /\ \A v \in Worker : token[v] # k
  BY SlotsAssumption DEF Fresh
<1>3. /\ pc'[w] = "uploading" /\ token'[w] = k /\ key'[w] = at[w]
      /\ elapsed'[w] = 0
      /\ \A v \in Worker : v # w => /\ pc'[v] = pc[v] /\ token'[v] = token[v]
                                    /\ key'[v] = key[v]
                                    /\ elapsed'[v] = elapsed[v]
  BY <1>1 DEF Acquire, Move, StopClock, LeaseInv, TypeOK
<1>4. Tokened' /\ Distinct'
  BY <1>2, <1>3 DEF LeaseInv, Tokened, Distinct
<1>5. at[w] \in Slot /\ holder[at[w]] = Free /\ ttl' = [ttl EXCEPT ![at[w]] = Ttl]
  BY DEF Acquire, LeaseInv, TypeOK
<1>6. ASSUME NEW v \in Worker, InTime(v)'
      PROVE  holder'[key'[v]] = token'[v] /\ ttl'[key'[v]] + elapsed'[v] = Ttl
  <2>1. CASE v = w
    BY <2>1, <1>1, <1>3, <1>5, SlotsAssumption DEF LeaseInv, TypeOK
  <2>2. CASE v # w
    <3>1. InTime(v) /\ pc[v] \in Leased
      BY <2>2, <1>3, <1>6 DEF InTime, Leased
    <3>2. holder[key[v]] = token[v] /\ token[v] # Free /\ key[v] \in Slot
      BY <3>1 DEF LeaseInv, TypeOK, Tokened, Held
    <3>3. key[v] # at[w]
      BY <3>2, <1>5
    <3>4. holder'[key[v]] = token[v] /\ ttl'[key[v]] = ttl[key[v]]
      BY <3>2, <3>3, <1>1, <1>5 DEF LeaseInv, TypeOK
    <3>5. QED
      BY <2>2, <3>1, <3>4, <1>3 DEF LeaseInv, Held
  <2>3. QED
    BY <2>1, <2>2
<1>7. QED
  BY <1>4, <1>6 DEF Held

\* A key does not expire before the lease of its process has run out.
LEMMA TickKeepsLeases ==
  ASSUME LeaseInv, Tick
  PROVE  Tokened' /\ Distinct' /\ Held'
<1>1. Tokened' /\ Distinct'
  BY DEF Tick, LeaseInv, Tokened, Distinct
<1>2. ASSUME NEW v \in Worker, InTime(v)'
      PROVE  holder'[key'[v]] = token'[v] /\ ttl'[key'[v]] + elapsed'[v] = Ttl
  <2>1. elapsed[v] \in 0 .. Ttl /\ elapsed'[v] = IF InTime(v) THEN elapsed[v] + 1 ELSE elapsed[v]
    BY DEF Tick, LeaseInv, TypeOK
  <2>2. pc'[v] = pc[v] /\ pc'[v] \in Parsing /\ elapsed'[v] < Ttl
    BY <1>2 DEF InTime, Tick
  <2>3. InTime(v) /\ elapsed'[v] = elapsed[v] + 1
    BY <2>1, <2>2, SlotsAssumption DEF InTime
  <2>4. /\ holder[key[v]] = token[v]
        /\ ttl[key[v]] + elapsed[v] = Ttl
        /\ key[v] \in Slot /\ ttl[key[v]] \in 0 .. Ttl
    BY <2>3 DEF LeaseInv, TypeOK, Held
  <2>5. ttl[key[v]] > 1
    BY <2>1, <2>2, <2>3, <2>4, SlotsAssumption
  <2>6. holder'[key[v]] = token[v] /\ ttl'[key[v]] = ttl[key[v]] - 1
    BY <2>4, <2>5, SlotsAssumption DEF Tick
  <2>7. QED
    BY <2>1, <2>3, <2>4, <2>6, SlotsAssumption DEF Tick
<1>3. QED
  BY <1>1, <1>2 DEF Held

\* Every step keeps the leases.
LEMMA LeaseStep ==
  ASSUME LeaseInv, [Next]_vars
  PROVE  LeaseInv'
<1>1. TypeOK'
  BY TypeStep DEF LeaseInv
<1>2. Tokened' /\ Distinct' /\ Held'
  <2> USE DEF vars, procVars, Move, StopClock, Leased, Parsing
  <2>1. ASSUME NEW w \in Worker,
               \/ StartParse(w) \/ ProbeFree(w) \/ CreateJob(w)
               \/ UploadFailed(w) \/ WaitDone(w) \/ WaitFailed(w)
               \/ CancelJob(w) \/ DownloadEnded(w) \/ CreateLost(w)
               \/ CancelFailed(w)
        PROVE  Tokened' /\ Distinct' /\ Held'
    <3>1. UNCHANGED <<token, key, holder, ttl>>
      BY <2>1 DEF StartParse, ProbeFree, CreateJob, UploadFailed, WaitDone,
                  WaitFailed, CancelJob, DownloadEnded, CreateLost, CancelFailed
    <3>2. \A v \in Worker : v # w => pc'[v] = pc[v] /\ elapsed'[v] = elapsed[v]
      BY <2>1 DEF StartParse, ProbeFree, CreateJob, UploadFailed, WaitDone,
                  WaitFailed, CancelJob, DownloadEnded, CreateLost,
                  CancelFailed, LeaseInv, TypeOK
    <3>3. \/ pc'[w] \notin Leased
          \/ pc[w] \in Leased /\ pc'[w] \notin Parsing
          \/ pc[w] \in Parsing /\ elapsed'[w] = elapsed[w]
      BY <2>1 DEF StartParse, ProbeFree, CreateJob, UploadFailed, WaitDone,
                  WaitFailed, CancelJob, DownloadEnded, CreateLost,
                  CancelFailed, LeaseInv, TypeOK
    <3>4. QED
      BY <3>1, <3>2, <3>3, LeaseFrame
  <2>2. ASSUME NEW w \in Worker, ProbeTaken(w) \/ AcquireTaken(w)
        PROVE  Tokened' /\ Distinct' /\ Held'
    <3>1. UNCHANGED <<token, key, holder, ttl, elapsed>>
      BY <2>2 DEF ProbeTaken, AcquireTaken
    <3>2. \A v \in Worker : pc'[v] \in Leased => pc'[v] = pc[v]
      BY <2>2 DEF ProbeTaken, AcquireTaken, NextKey, LeaseInv, TypeOK
    <3>3. QED
      BY <3>1, <3>2, LeaseFrame
  <2>3. ASSUME NEW w \in Worker, Release(w) \/ ReleaseFailed(w) \/ Crash(w)
        PROVE  Tokened' /\ Distinct' /\ Held'
    <3>1. pc[w] \in Leased /\ pc' = [pc EXCEPT ![w] = "idle"] /\ DropLease(w)
      BY <2>3 DEF Release, ReleaseFailed, Crash
    <3>2. /\ UNCHANGED <<key, ttl>>
          /\ \/ holder' = holder
             \/ holder' = [holder EXCEPT ![key[w]] =
                                             IF @ = token[w] THEN Free ELSE @]
      BY <2>3 DEF Release, ReleaseFailed, Crash
    <3>3. QED
      BY <3>1, <3>2, DropKeepsOthers
  <2>4. ASSUME NEW w \in Worker, AcquireLost(w)
        PROVE  Tokened' /\ Distinct' /\ Held'
    <3>1. /\ UNCHANGED <<token, key, elapsed>>
          /\ \A v \in Worker : pc'[v] \in Leased => pc'[v] = pc[v]
          /\ holder[at[w]] = Free
          /\ ttl' = [ttl EXCEPT ![at[w]] = Ttl]
          /\ \E k \in Fresh : holder' = [holder EXCEPT ![at[w]] = k]
      BY <2>4 DEF AcquireLost, LeaseInv, TypeOK
    <3>2. Tokened' /\ Distinct'
      BY <3>1 DEF LeaseInv, Tokened, Distinct
    <3>3. ASSUME NEW v \in Worker, InTime(v)'
          PROVE  /\ holder'[key'[v]] = token'[v]
                 /\ ttl'[key'[v]] + elapsed'[v] = Ttl
      <4>1. /\ holder[key[v]] = token[v] /\ token[v] # Free
            /\ ttl[key[v]] + elapsed[v] = Ttl
        BY <3>1, <3>3 DEF LeaseInv, Tokened, Held, InTime
      <4>2. key[v] # at[w] /\ key[v] \in Slot
        BY <3>1, <4>1 DEF LeaseInv, TypeOK
      <4>3. QED
        BY <3>1, <4>1, <4>2 DEF LeaseInv, TypeOK
    <3>4. QED
      BY <3>2, <3>3 DEF Held
  <2>5. CASE Tick
    BY <2>5, TickKeepsLeases
  <2>6. CASE JobEnds \/ UNCHANGED vars
    <3>1. UNCHANGED <<pc, token, key, holder, ttl, elapsed>>
      BY <2>6 DEF JobEnds
    <3>2. QED
      BY <3>1, LeaseFrame
  <2>7. QED
    BY <2>1, <2>2, <2>3, <2>4, <2>5, <2>6, AcquireKeepsOthers
       DEF Next, WorkerStep, Fault
<1>3. QED
  BY <1>1, <1>2 DEF LeaseInv

\* The leases are sound whatever faults happen.
LEMMA LeaseInvariant == Spec => []LeaseInv
<1>1. Init => LeaseInv
  BY Zero, SlotsAssumption
     DEF Init, LeaseInv, TypeOK, Tokened, Distinct, Held, InTime, Leased, Parsing
<1>2. LeaseInv /\ [Next]_vars => LeaseInv'
  BY LeaseStep
<1>3. QED
  BY <1>1, <1>2, PTL DEF Spec

\* Slots, keys and processes keep their types.
THEOREM SlotsTypeCorrect == Spec => []TypeOK
<1>1. LeaseInv => TypeOK
  BY DEF LeaseInv
<1>2. QED
  BY <1>1, LeaseInvariant, PTL

\* A process with a job at MinerU holds its key until its lease runs out, whatever
\* is released late or crashes (mineru_slots.py 14-18, 54-55).
THEOREM ParsingHolds == Spec => []ParsingHoldsKey
<1>1. LeaseInv => ParsingHoldsKey
  BY DEF LeaseInv, Held, ParsingHoldsKey
<1>2. QED
  BY <1>1, LeaseInvariant, PTL

-----------------------------------------------------------------------------
(* Jobs. *)

\* Every job at MinerU that no fault has left behind has a process that waits
\* for it or is cancelling it.
Awaited(k) ==
  \E w \in Worker : pc[w] \in {"waiting", "cancelling"} /\ token[w] = k
JobsInv == \A k \in jobs \ orphans : Awaited(k)

\* Every step keeps the jobs awaited (mineru_client.py 211-244).
LEMMA JobsStep ==
  ASSUME LeaseInv, JobsInv, [Next]_vars
  PROVE  JobsInv'
<1> USE DEF vars, procVars, Move, StopClock, DropLease
<1>1. ASSUME NEW w \in Worker, pc[w] \notin {"waiting", "cancelling"},
             jobs' \ orphans' \subseteq jobs \ orphans,
             \A v \in Worker : v # w => pc'[v] = pc[v] /\ token'[v] = token[v]
      PROVE  JobsInv'
  BY <1>1 DEF JobsInv, Awaited
<1>2. ASSUME NEW w \in Worker,
             \/ StartParse(w) \/ ProbeFree(w) \/ ProbeTaken(w)
             \/ AcquireTaken(w) \/ UploadFailed(w) \/ DownloadEnded(w)
      PROVE  JobsInv'
  BY <1>1, <1>2
     DEF StartParse, ProbeFree, ProbeTaken, AcquireTaken, NextKey, UploadFailed,
         DownloadEnded, LeaseInv, TypeOK
<1>3. ASSUME NEW w \in Worker,
             \/ Acquire(w) \/ Release(w) \/ AcquireLost(w) \/ ReleaseFailed(w)
      PROVE  JobsInv'
  BY <1>1, <1>3
     DEF Acquire, Release, AcquireLost, ReleaseFailed, LeaseInv, TypeOK
<1>4. ASSUME NEW w \in Worker, CreateJob(w) PROVE JobsInv'
  <2>1. pc'[w] = "waiting" /\ token'[w] = token[w]
    BY <1>4 DEF CreateJob, LeaseInv, TypeOK
  <2>2. \A v \in Worker : v # w => pc'[v] = pc[v] /\ token'[v] = token[v]
    BY <1>4 DEF CreateJob, LeaseInv, TypeOK
  <2>3. /\ jobs' = jobs \cup {token[w]} /\ orphans' = orphans
        /\ pc[w] = "uploading"
    BY <1>4 DEF CreateJob
  <2>4. QED
    BY <2>1, <2>2, <2>3 DEF JobsInv, Awaited
<1>5. ASSUME NEW w \in Worker,
             WaitDone(w) \/ CancelJob(w) \/ CancelFailed(w) \/ Crash(w)
      PROVE  JobsInv'
  <2>1. /\ jobs' \ orphans' \subseteq jobs \ orphans
        /\ token[w] \notin jobs' \ orphans'
    BY <1>5 DEF WaitDone, CancelJob, CancelFailed, Crash
  <2>2. \A v \in Worker : v # w => pc'[v] = pc[v] /\ token'[v] = token[v]
    BY <1>5 DEF WaitDone, CancelJob, CancelFailed, Crash, LeaseInv, TypeOK
  <2>3. QED
    BY <2>1, <2>2 DEF JobsInv, Awaited
<1>6. ASSUME NEW w \in Worker, WaitFailed(w) PROVE JobsInv'
  <2>1. /\ pc'[w] = "cancelling" /\ token' = token
        /\ jobs' = jobs /\ orphans' = orphans
    BY <1>6 DEF WaitFailed, LeaseInv, TypeOK
  <2>2. \A v \in Worker : v # w => pc'[v] = pc[v]
    BY <1>6 DEF WaitFailed, LeaseInv, TypeOK
  <2>3. QED
    BY <2>1, <2>2 DEF JobsInv, Awaited
<1>7. ASSUME NEW w \in Worker, CreateLost(w) PROVE JobsInv'
  <2>1. jobs' \ orphans' \subseteq jobs \ orphans /\ pc[w] = "uploading"
    BY <1>7 DEF CreateLost
  <2>2. \A v \in Worker : v # w => pc'[v] = pc[v] /\ token'[v] = token[v]
    BY <1>7 DEF CreateLost, LeaseInv, TypeOK
  <2>3. QED
    BY <2>1, <2>2, <1>1
<1>8. CASE Tick \/ JobEnds \/ UNCHANGED vars
  <2>1. jobs' \ orphans' \subseteq jobs \ orphans /\ UNCHANGED <<pc, token>>
    BY <1>8 DEF Tick, JobEnds
  <2>2. QED
    BY <2>1 DEF JobsInv, Awaited
<1>9. QED
  BY <1>2, <1>3, <1>4, <1>5, <1>6, <1>7, <1>8 DEF Next, WorkerStep, Fault

\* As many jobs as keys, and one for each overdue process: the process of every
\* other job holds a key of its own.
LEMMA JobsCounted ==
  ASSUME LeaseInv, JobsInv
  PROVE  AttendedWithinCapacity
<1> DEFINE Tokens == {holder[i] : i \in Slot}
<1> DEFINE LateTokens == {token[w] : w \in Overdue}
<1> DEFINE Attended == jobs \ orphans
<1>1. IsFiniteSet(Slot) /\ Cardinality(Slot) = Capacity
  <2>1. Capacity - 1 \in Int /\ 0 \in Int
    BY SlotsAssumption
  <2>2. QED
    BY <2>1, FS_Interval, SlotsAssumption DEF Slot
<1>2. IsFiniteSet(Tokens) /\ Cardinality(Tokens) <= Cardinality(Slot)
  <2>1. holder \in Surjection(Slot, Tokens)
    BY DEF LeaseInv, TypeOK, Surjection
  <2>2. QED
    BY <1>1, <2>1, FS_Surjection
<1>3. IsFiniteSet(Overdue)
  BY SlotsAssumption, FS_Subset DEF Overdue
<1>4. IsFiniteSet(LateTokens) /\ Cardinality(LateTokens) <= Cardinality(Overdue)
  <2> DEFINE of == [w \in Overdue |-> token[w]]
  <2>1. of \in Surjection(Overdue, LateTokens)
    BY DEF Surjection
  <2> HIDE DEF of, LateTokens
  <2>2. QED
    BY <1>3, <2>1, FS_Surjection
<1>5. Attended \subseteq Tokens \cup LateTokens
  <2> SUFFICES ASSUME NEW k \in Attended PROVE k \in Tokens \cup LateTokens
    OBVIOUS
  <2>1. PICK w \in Worker : pc[w] \in {"waiting", "cancelling"} /\ token[w] = k
    BY DEF JobsInv, Awaited
  <2>2. InTime(w) \/ w \in Overdue
    BY <2>1, SlotsAssumption DEF LeaseInv, TypeOK, InTime, Overdue, Parsing
  <2>3. CASE InTime(w)
    BY <2>1, <2>3 DEF LeaseInv, TypeOK, Held
  <2>4. CASE w \in Overdue
    BY <2>1, <2>4
  <2>5. QED
    BY <2>2, <2>3, <2>4
<1> HIDE DEF Tokens, LateTokens, Attended
<1>6. /\ IsFiniteSet(Tokens \cup LateTokens)
      /\ Cardinality(Tokens \cup LateTokens) <= Cardinality(Tokens) + Cardinality(LateTokens)
  <2>1. /\ IsFiniteSet(Tokens \cup LateTokens)
        /\ Cardinality(Tokens \cup LateTokens) =
              Cardinality(Tokens) + Cardinality(LateTokens) - Cardinality(Tokens \cap LateTokens)
    BY <1>2, <1>4, FS_Union
  <2>2. /\ Cardinality(Tokens) \in Nat /\ Cardinality(LateTokens) \in Nat
        /\ Cardinality(Tokens \cap LateTokens) \in Nat
    BY <1>2, <1>4, FS_CardinalityType, FS_Subset
  <2>3. QED
    BY <2>1, <2>2
<1>7. IsFiniteSet(Attended) /\ Cardinality(Attended) <= Cardinality(Tokens \cup LateTokens)
  BY <1>5, <1>6, FS_Subset
<1>8. /\ Cardinality(Attended) \in Nat /\ Cardinality(Tokens \cup LateTokens) \in Nat
      /\ Cardinality(Tokens) \in Nat /\ Cardinality(LateTokens) \in Nat
      /\ Cardinality(Slot) \in Nat /\ Cardinality(Overdue) \in Nat
  BY <1>1, <1>2, <1>3, <1>4, <1>6, <1>7, FS_CardinalityType
<1>9. Cardinality(Attended) <= Capacity + Cardinality(Overdue)
  BY <1>1, <1>2, <1>4, <1>6, <1>7, <1>8
<1>10. QED
  BY <1>9 DEF Attended, AttendedWithinCapacity

\* MinerU never works on more jobs than max_concurrency besides those a fault
\* has left behind there and those of processes that are overdue (mineru_slots.py 1-8, mineru_client.py 211-244).
THEOREM CapacityKept == Spec => []AttendedWithinCapacity
<1>1. Init => JobsInv
  BY DEF Init, JobsInv
<1>2. LeaseInv /\ JobsInv /\ [Next]_vars => JobsInv'
  BY JobsStep
<1>3. LeaseInv /\ JobsInv => AttendedWithinCapacity
  BY JobsCounted
<1>4. QED
  BY <1>1, <1>2, <1>3, LeaseInvariant, PTL DEF Spec

-----------------------------------------------------------------------------
(* The pool of slots. *)

\* Whoever MinerU works for waits for the job or is cancelling it.
LEMMA WorkedForWaits ==
  ASSUME LeaseInv, JobsInv, NEW w \in WorkedFor
  PROVE  pc[w] \in {"waiting", "cancelling"}
<1>1. w \in Worker /\ token[w] \in jobs \ orphans
  BY DEF WorkedFor
<1>2. token[w] # Free
  BY <1>1, SlotsAssumption DEF LeaseInv, TypeOK
<1>3. PICK v \in Worker : pc[v] \in {"waiting", "cancelling"} /\ token[v] = token[w]
  BY <1>1 DEF JobsInv, Awaited
<1>4. v = w
  BY <1>1, <1>2, <1>3 DEF LeaseInv, Distinct
<1>5. QED
  BY <1>3, <1>4

\* A step after which the same processes use the same keys, and MinerU works
\* for the same processes, is none of the pool's.
LEMMA PoolUnchanged ==
  ASSUME UNCHANGED <<key, token>>,
         \A v \in Worker : pc'[v] \in Parsing <=> pc[v] \in Parsing,
         \A v \in Worker : pc[v] \in Parsing => elapsed'[v] = elapsed[v],
         jobs' \ orphans' = jobs \ orphans
  PROVE  UNCHANGED Pool!poolVars
BY DEF Pool!poolVars, SlotsUsed, WorkedFor, InTime, Overdue

\* A process that stops parsing, its job ended or left behind, gives its slot
\* back.
LEMMA PoolGives ==
  ASSUME LeaseInv, NEW w \in Worker, token[w] # Free,
         pc'[w] \notin Parsing, key' = key,
         \A v \in Worker : v # w => /\ pc'[v] = pc[v] /\ token'[v] = token[v]
                                     /\ elapsed'[v] = elapsed[v],
         token'[w] \notin jobs' \ orphans',
         \A k : k # token[w] => (k \in jobs' \ orphans' <=> k \in jobs \ orphans)
  PROVE  Pool!Give(w)
<1>1. SlotsUsed' = [SlotsUsed EXCEPT ![w] = {}] /\ Overdue' = Overdue \ {w}
  BY DEF SlotsUsed, InTime, Overdue
<1>2. ASSUME NEW v \in Worker
      PROVE  v \in WorkedFor' <=> v \in WorkedFor /\ v # w
  <2>1. v # w => token[v] # token[w]
    BY DEF LeaseInv, Distinct
  <2>2. QED
    BY <2>1 DEF WorkedFor
<1>3. WorkedFor' = WorkedFor \ {w}
  BY <1>2 DEF WorkedFor
<1>4. QED
  BY <1>1, <1>3 DEF Pool!Give

\* SET NX takes a slot nobody uses: the key of a process that parses exists.
LEMMA PoolTakes ==
  ASSUME LeaseInv, JobsInv, NEW w \in Worker, Acquire(w)
  PROVE  Pool!Take(w, at[w])
<1>1. PICK k \in Fresh : token' = [token EXCEPT ![w] = k]
  BY DEF Acquire
<1>2. /\ pc[w] = "acquiring" /\ pc'[w] = "uploading"
      /\ key'[w] = at[w] /\ token'[w] = k /\ k \notin jobs
      /\ holder[at[w]] = Free
      /\ \A v \in Worker : v # w => /\ pc'[v] = pc[v] /\ key'[v] = key[v]
                                    /\ token'[v] = token[v]
                                    /\ elapsed'[v] = elapsed[v]
      /\ jobs' = jobs /\ orphans' = orphans /\ elapsed'[w] = 0
  BY <1>1 DEF Acquire, Move, Fresh, StopClock, LeaseInv, TypeOK
<1>3. SlotsUsed[w] = {} /\ w \notin Overdue /\ Overdue' = Overdue
  BY <1>2, SlotsAssumption DEF SlotsUsed, InTime, Overdue, Parsing
<1>4. ASSUME NEW v \in Worker PROVE at[w] \notin SlotsUsed[v]
  <2>1. CASE InTime(v)
    <3>1. holder[key[v]] = token[v] /\ token[v] # Free
      BY <2>1 DEF LeaseInv, Tokened, Held, InTime, Leased
    <3>2. QED
      BY <1>2, <3>1 DEF SlotsUsed
  <2>2. CASE ~ InTime(v)
    BY <2>2 DEF SlotsUsed
  <2>3. QED
    BY <2>1, <2>2
<1>5. SlotsUsed' = [SlotsUsed EXCEPT ![w] = {at[w]}]
  <2>1. InTime(w)' /\ \A v \in Worker : v # w => (InTime(v)' <=> InTime(v))
    BY <1>2, SlotsAssumption DEF InTime, Parsing
  <2>2. \A v \in Worker : SlotsUsed'[v] = IF v = w THEN {at[w]} ELSE SlotsUsed[v]
    BY <1>2, <2>1 DEF SlotsUsed
  <2>3. QED
    BY <2>2 DEF SlotsUsed
<1>6. WorkedFor' = WorkedFor
  <2>1. w \notin WorkedFor
    BY <1>2, WorkedForWaits
  <2>2. QED
    BY <1>2, <2>1 DEF WorkedFor
<1>7. QED
  BY <1>3, <1>4, <1>5, <1>6 DEF Pool!Take

\* The leases that run out at a tick: their processes go on without their slots.
LEMMA PoolLapses ==
  ASSUME LeaseInv, Tick
  PROVE  \E gone \in SUBSET Worker : Pool!Lapse(gone)
<1> DEFINE gone == {w \in Worker : InTime(w) /\ elapsed[w] = Ttl - 1}
<1>1. ASSUME NEW w \in Worker
      PROVE  /\ InTime(w)' <=> InTime(w) /\ w \notin gone
             /\ w \in Overdue' <=> w \in Overdue \/ w \in gone
  <2>1. /\ pc'[w] = pc[w] /\ elapsed[w] \in 0 .. Ttl
        /\ elapsed'[w] = IF InTime(w) THEN elapsed[w] + 1 ELSE elapsed[w]
    BY DEF Tick, LeaseInv, TypeOK
  <2>2. QED
    BY <2>1, SlotsAssumption DEF InTime, Overdue
<1>2. \A w \in gone : SlotsUsed[w] # {}
  BY DEF SlotsUsed
<1>3. SlotsUsed' = [w \in Worker |-> IF w \in gone THEN {} ELSE SlotsUsed[w]]
  BY <1>1 DEF SlotsUsed, Tick
<1>4. Overdue' = Overdue \cup gone
  BY <1>1 DEF Overdue
<1>5. WorkedFor' = WorkedFor
  BY DEF WorkedFor, Tick
<1>6. Pool!Lapse(gone)
  BY <1>2, <1>3, <1>4, <1>5 DEF Pool!Lapse
<1>7. QED
  BY <1>6

\* Every step of the processes, of Redis and of MinerU is one of the pool, or
\* none.
LEMMA PoolStep ==
  ASSUME LeaseInv, JobsInv, [Next]_vars
  PROVE  [Pool!Next]_(Pool!poolVars)
<1> USE DEF vars, procVars, Move, StopClock, Parsing
<1>1. ASSUME NEW w \in Worker,
             \/ StartParse(w) \/ ProbeFree(w) \/ ProbeTaken(w)
             \/ AcquireTaken(w) \/ AcquireLost(w) \/ WaitFailed(w)
             \/ DownloadEnded(w)
      PROVE  UNCHANGED Pool!poolVars
  <2>1. UNCHANGED <<key, token, elapsed, jobs, orphans>>
    BY <1>1 DEF StartParse, ProbeFree, ProbeTaken, AcquireTaken, AcquireLost,
                WaitFailed, DownloadEnded
  <2>2. \A v \in Worker : pc'[v] \in Parsing <=> pc[v] \in Parsing
    BY <1>1 DEF StartParse, ProbeFree, ProbeTaken, AcquireTaken, NextKey,
                AcquireLost, WaitFailed, DownloadEnded, LeaseInv, TypeOK
  <2>3. QED
    BY <2>1, <2>2, PoolUnchanged
<1>2. ASSUME NEW w \in Worker, CreateJob(w)
      PROVE  Pool!Start(w) \/ UNCHANGED Pool!poolVars
  <2>1. /\ pc[w] = "uploading" /\ UNCHANGED <<key, token, elapsed, orphans>>
        /\ jobs' = jobs \cup {token[w]}
        /\ \A v \in Worker : pc'[v] \in Parsing <=> pc[v] \in Parsing
    BY <1>2 DEF CreateJob, LeaseInv, TypeOK
  <2>2. CASE token[w] \in orphans
    BY <2>1, <2>2, PoolUnchanged
  <2>3. CASE token[w] \notin orphans
    <3>1. /\ SlotsUsed' = SlotsUsed /\ Overdue' = Overdue
          /\ SlotsUsed[w] # {} \/ w \in Overdue
      BY <2>1, SlotsAssumption DEF SlotsUsed, InTime, Overdue, LeaseInv, TypeOK
    <3>2. \A v \in Worker : token[v] = token[w] => v = w
      BY <2>1 DEF LeaseInv, Tokened, Distinct, Leased
    <3>3. WorkedFor' = WorkedFor \cup {w}
      BY <2>1, <2>3, <3>2 DEF WorkedFor
    <3>4. QED
      BY <3>1, <3>3 DEF Pool!Start
  <2>4. QED
    BY <2>2, <2>3
<1>3. ASSUME NEW w \in Worker,
             \/ UploadFailed(w) \/ WaitDone(w) \/ CancelJob(w)
             \/ CreateLost(w) \/ CancelFailed(w)
      PROVE  Pool!Give(w)
  <2>1. /\ pc[w] \in Parsing /\ pc'[w] \notin Parsing /\ UNCHANGED <<key, token>>
        /\ \A v \in Worker : v # w => pc'[v] = pc[v] /\ elapsed'[v] = elapsed[v]
    BY <1>3 DEF UploadFailed, WaitDone, CancelJob, CreateLost, CancelFailed,
                LeaseInv, TypeOK
  <2>2. token[w] # Free
    BY <2>1 DEF LeaseInv, Tokened, Leased
  <2>3. token[w] \notin jobs' \ orphans'
    <3>1. CASE UploadFailed(w)
      <4>1. w \notin WorkedFor
        BY <3>1, WorkedForWaits DEF UploadFailed
      <4>2. QED
        BY <3>1, <4>1 DEF UploadFailed, WorkedFor
    <3>2. CASE ~ UploadFailed(w)
      BY <1>3, <3>2 DEF WaitDone, CancelJob, CreateLost, CancelFailed
    <3>3. QED
      BY <3>1, <3>2
  <2>4. \A k : k # token[w] => (k \in jobs' \ orphans' <=> k \in jobs \ orphans)
    BY <1>3 DEF UploadFailed, WaitDone, CancelJob, CreateLost, CancelFailed
  <2>5. QED
    BY <2>1, <2>2, <2>3, <2>4, PoolGives
<1>4. ASSUME NEW w \in Worker, Crash(w) PROVE Pool!Give(w)
  <2>1. /\ pc[w] \in Leased /\ pc'[w] \notin Parsing /\ key' = key
        /\ \A v \in Worker : v # w => /\ pc'[v] = pc[v] /\ token'[v] = token[v]
                                      /\ elapsed'[v] = elapsed[v]
        /\ token'[w] = Free /\ jobs' = jobs
        /\ orphans' = orphans \cup ({token[w]} \cap jobs)
    BY <1>4 DEF Crash, DropLease, LeaseInv, TypeOK
  <2>2. token[w] # Free /\ token'[w] \notin jobs'
    BY <2>1, SlotsAssumption DEF LeaseInv, TypeOK, Tokened
  <2>3. QED
    BY <2>1, <2>2, PoolGives
<1>5. ASSUME NEW w \in Worker, Release(w) \/ ReleaseFailed(w)
      PROVE  Pool!Give(w)
  <2>1. /\ pc[w] = "releasing" /\ pc'[w] \notin Parsing /\ key' = key
        /\ \A v \in Worker : v # w => /\ pc'[v] = pc[v] /\ token'[v] = token[v]
                                      /\ elapsed'[v] = elapsed[v]
        /\ token'[w] = Free /\ UNCHANGED <<jobs, orphans>>
    BY <1>5 DEF Release, ReleaseFailed, DropLease, LeaseInv, TypeOK
  <2>2. token[w] # Free /\ token'[w] \notin jobs'
    BY <2>1, SlotsAssumption DEF LeaseInv, TypeOK, Tokened, Leased
  <2>3. QED
    BY <2>1, <2>2, PoolGives
<1>6. ASSUME JobEnds
      PROVE  (\E w \in Worker : Pool!Finish(w)) \/ UNCHANGED Pool!poolVars
  <2>1. PICK k \in jobs : jobs' = jobs \ {k} /\ orphans' = orphans \ {k}
    BY <1>6 DEF JobEnds
  <2>2. /\ UNCHANGED <<pc, key, token>> /\ SlotsUsed' = SlotsUsed
        /\ Overdue' = Overdue
    BY <1>6 DEF JobEnds, SlotsUsed, InTime, Overdue
  <2>3. CASE \E w \in Worker : token[w] = k
    <3>1. PICK w \in Worker : token[w] = k
      BY <2>3
    <3>2. \A v \in Worker : token[v] = k => v = w
      BY <2>1, <3>1, SlotsAssumption DEF LeaseInv, TypeOK, Distinct
    <3>3. WorkedFor' = WorkedFor \ {w}
      BY <2>1, <2>2, <3>1, <3>2 DEF WorkedFor
    <3>4. QED
      BY <2>2, <3>3 DEF Pool!Finish
  <2>4. CASE \A w \in Worker : token[w] # k
    <3>1. WorkedFor' = WorkedFor
      BY <2>1, <2>2, <2>4 DEF WorkedFor
    <3>2. QED
      BY <2>2, <3>1 DEF Pool!poolVars
  <2>5. QED
    BY <2>3, <2>4
<1>7. CASE UNCHANGED vars
  BY <1>7, PoolUnchanged
<1>8. ASSUME NEW w \in Worker, Acquire(w)
      PROVE  \E i \in Slot : Pool!Take(w, i)
  <2>1. at[w] \in Slot
    BY DEF LeaseInv, TypeOK
  <2>2. QED
    BY <1>8, <2>1, PoolTakes
<1>9. QED
  BY <1>1, <1>2, <1>3, <1>4, <1>5, <1>6, <1>7, <1>8, PoolLapses
     DEF Next, WorkerStep, Fault, Pool!Next

\* Redis keys with an expiry and a compared token are a pool of slots whose users
\* may be late, for any number of processes and keys, any lease time and whatever
\* faults happen (mineru_slots.py 1-57, mineru_client.py 211-244).
THEOREM SlotsArePool == Spec => IsSlotPool
<1>1. Init => Pool!Init /\ JobsInv
  BY DEF Init, Pool!Init, SlotsUsed, WorkedFor, InTime, Overdue, Parsing, JobsInv
<1>2. LeaseInv /\ JobsInv /\ [Next]_vars => JobsInv'
  BY JobsStep
<1>3. LeaseInv /\ JobsInv /\ [Next]_vars => [Pool!Next]_(Pool!poolVars)
  BY PoolStep
<1>4. QED
  BY <1>1, <1>2, <1>3, LeaseInvariant, PTL DEF Spec, IsSlotPool, Pool!Spec

-----------------------------------------------------------------------------
(* AgentTurns: the asks. *)

\* What the fields of an ask hold, a turn of the gateway and an event of its log.
AskType ==
  [at : Stages, scope : Asks \cup {None}, seen : Nat, session : Nat, prefix : BOOLEAN,
   turn : Nat, pos : Nat, last : Nat, shown : Seq(Nat), resumes : Nat,
   reason : Ends \cup {None, "error"}]
TurnType == [ask : Asks, prefix : BOOLEAN, end : Ends \cup {None}]
EventType == [turn : Nat, kind : Ends \cup {"started", "delta"}]

TurnsTyped ==
  /\ row \in [count : Nat, session : Nat, replay : BOOLEAN]
  /\ lock \in Asks \cup {None}
  /\ mentions \in Asks \cup {None}
  /\ ask \in [Asks -> AskType]
  /\ sessions \in Nat
  /\ turns \in Seq(TurnType)
  /\ log \in Seq(EventType)
  /\ ghosts \in [since : [Asks -> SUBSET Asks], marks : SUBSET {"imported", "orphan"}]

-----------------------------------------------------------------------------
(* One lemma per action: what it does to the fields of the ask that takes it. *)

\* The other asks stay as they are.
OthersKept(a) == \A b \in Asks : b # a => ask'[b] = ask[b]

\* The stream of an ask stays as it is.
StreamKept(a) ==
  /\ ask'[a].turn = ask[a].turn /\ ask'[a].pos = ask[a].pos
  /\ ask'[a].last = ask[a].last /\ ask'[a].shown = ask[a].shown
  /\ ask'[a].reason = ask[a].reason

\* An ask that is over has no stream.
Ended(a) ==
  /\ ask'[a].at = "done" /\ ask'[a].scope = ask[a].scope
  /\ ask'[a].turn = 0 /\ ask'[a].last = 0 /\ ask'[a].shown = <<>> /\ ask'[a].reason = None

GatewayKept == UNCHANGED <<sessions, turns, log>>

\* An ask that becomes a record of its type.
LEMMA AskSet ==
  ASSUME ask \in [Asks -> AskType], NEW a \in Asks, NEW r \in AskType,
         ask' = [ask EXCEPT ![a] = r]
  PROVE  ask' \in [Asks -> AskType] /\ OthersKept(a) /\ ask'[a] = r
BY DEF OthersKept

\* The stages of an ask, by name.
LEMMA StageNames ==
  {"idle", "update", "prepare", "commit", "publish", "open", "stream", "sleep", "finish",
   "write", "done"} = Stages
BY DEF Stages

\* The fields of an ask.
LEMMA AskFields ==
  ASSUME NEW r \in AskType
  PROVE  /\ r.at \in Stages /\ r.scope \in Asks \cup {None} /\ r.seen \in Nat
         /\ r.session \in Nat /\ r.prefix \in BOOLEAN /\ r.turn \in Nat /\ r.pos \in Nat
         /\ r.last \in Nat /\ r.shown \in Seq(Nat) /\ r.resumes \in Nat
         /\ r.reason \in Ends \cup {None, "error"}
BY DEF AskType

\* An ask that goes from one stage to the next.
LEMMA GoesDoes ==
  ASSUME ask \in [Asks -> AskType], NEW a \in Asks, NEW from, NEW to \in Stages, Goes(a, from, to)
  PROVE  /\ ask' \in [Asks -> AskType]
         /\ OthersKept(a) /\ StreamKept(a)
         /\ ask[a].at = from /\ ask'[a].at = to
         /\ ask'[a].scope = ask[a].scope /\ ask'[a].prefix = ask[a].prefix
         /\ ask'[a].session = ask[a].session
<1> DEFINE r == [ask[a] EXCEPT !.at = to]
<1>1. r \in AskType /\ ask' = [ask EXCEPT ![a] = r]
  BY DEF AskType, Goes
<1>2. /\ r.at = to /\ r.scope = ask[a].scope /\ r.prefix = ask[a].prefix
      /\ r.session = ask[a].session /\ r.turn = ask[a].turn /\ r.pos = ask[a].pos
      /\ r.last = ask[a].last /\ r.shown = ask[a].shown /\ r.reason = ask[a].reason
  BY DEF AskType
<1> HIDE DEF r
<1>3. ask' \in [Asks -> AskType] /\ OthersKept(a) /\ ask'[a] = r
  BY <1>1, AskSet
<1>4. QED
  BY <1>2, <1>3 DEF Goes, StreamKept

\* An ask that is over keeps its scope.
LEMMA OverDoes ==
  ASSUME ask \in [Asks -> AskType], NEW a \in Asks, ask' = [ask EXCEPT ![a] = Over(a)]
  PROVE  ask' \in [Asks -> AskType] /\ OthersKept(a) /\ Ended(a)
<1>1. ask[a].scope \in Asks \cup {None} /\ "done" \in Stages /\ <<>> \in Seq(Nat)
  BY AskFields, EmptySeq, StageNames
<1>2. Over(a) \in AskType
  BY <1>1 DEF Over, NewAsk, AskType
<1>3. /\ Over(a).at = "done" /\ Over(a).scope = ask[a].scope /\ Over(a).turn = 0
      /\ Over(a).last = 0 /\ Over(a).shown = <<>> /\ Over(a).reason = None
  BY DEF Over, NewAsk
<1>4. ask' \in [Asks -> AskType] /\ OthersKept(a) /\ ask'[a] = Over(a)
  BY <1>2, AskSet
<1>5. QED
  BY <1>3, <1>4 DEF Ended

\* An ask that leaves from a stage.
LEMMA LeavesDoes ==
  ASSUME ask \in [Asks -> AskType], NEW a \in Asks, NEW from, Leaves(a, from)
  PROVE  ask' \in [Asks -> AskType] /\ OthersKept(a) /\ Ended(a) /\ ask[a].at = from
BY OverDoes DEF Leaves

\* The row is read and the limit tested.
LEMMA BeginDoes ==
  ASSUME TurnsTyped, NEW a \in Asks, Begin(a)
  PROVE  /\ ask' \in [Asks -> AskType] /\ OthersKept(a) /\ StreamKept(a)
         /\ ask[a].at = "idle" /\ ask'[a].at \in {"update", "done"}
         /\ UNCHANGED <<row, lock, mentions, ghosts>> /\ GatewayKept
<1>1. PICK scope \in {None, a} :
        ask' = [ask EXCEPT ![a].at = IF row.count >= MaxMessages THEN "done" ELSE "update",
                            ![a].scope = scope, ![a].seen = row.count]
  BY DEF Begin
<1>2. PICK stage \in {"update", "done"} : stage = IF row.count >= MaxMessages THEN "done" ELSE "update"
  OBVIOUS
<1>3. PICK seen \in Nat : seen = row.count
  BY DEF TurnsTyped
<1>4. ask \in [Asks -> AskType] /\ stage \in Stages /\ scope \in Asks \cup {None}
  BY StageNames DEF TurnsTyped
<1> DEFINE r == [ask[a] EXCEPT !.at = stage, !.scope = scope, !.seen = seen]
<1>5. ask' = [ask EXCEPT ![a] = r]
  BY <1>1, <1>2, <1>3, <1>4
<1>6. r \in AskType
  BY <1>4 DEF AskType
<1>7. /\ r.at = stage /\ r.turn = ask[a].turn /\ r.pos = ask[a].pos
      /\ r.last = ask[a].last /\ r.shown = ask[a].shown /\ r.reason = ask[a].reason
  BY <1>4 DEF AskType
<1> HIDE DEF r
<1>8. ask' \in [Asks -> AskType] /\ OthersKept(a) /\ ask'[a] = r
  BY <1>4, <1>5, <1>6, AskSet
<1>9. StreamKept(a) /\ ask'[a].at \in {"update", "done"}
  BY <1>7, <1>8 DEF StreamKept
<1>10. QED
  BY <1>8, <1>9 DEF Begin, Gateway, GatewayKept

\* The row is read again and the gateway session chosen.
LEMMA PrepareDoes ==
  ASSUME TurnsTyped, NEW a \in Asks, Prepare(a)
  PROVE  /\ ask' \in [Asks -> AskType] /\ OthersKept(a) /\ StreamKept(a)
         /\ ask[a].at = "prepare" /\ ask'[a].at = "commit"
         /\ ask'[a].scope = ask[a].scope /\ ask'[a].prefix = row.replay
         /\ row.session = 0 => sessions' = sessions + 1 /\ ask'[a].session = sessions + 1
         /\ row.session # 0 => sessions' = sessions /\ ask'[a].session = row.session
         /\ sessions' \in Nat
         /\ UNCHANGED <<row, lock, mentions, turns, log, ghosts>>
<1>1. row.session \in Nat /\ row.replay \in BOOLEAN /\ sessions \in Nat
      /\ ask \in [Asks -> AskType] /\ "commit" \in Stages
  BY StageNames DEF TurnsTyped
<1>2. PICK new \in {0, 1} : new = IF row.session = 0 THEN 1 ELSE 0
  OBVIOUS
<1>3. sessions' = sessions + new /\ sessions' \in Nat
  BY <1>1, <1>2 DEF Prepare
<1>4. PICK session \in Nat : session = IF new = 1 THEN sessions' ELSE row.session
  BY <1>1, <1>3
<1> DEFINE r == [ask[a] EXCEPT !.at = "commit", !.prefix = row.replay, !.session = session]
<1>5. ask' = [ask EXCEPT ![a] = r]
  BY <1>1, <1>2, <1>4 DEF Prepare
<1>6. r \in AskType
  BY <1>1 DEF AskType
<1>7. /\ r.at = "commit" /\ r.prefix = row.replay /\ r.session = session
      /\ r.scope = ask[a].scope /\ r.turn = ask[a].turn /\ r.pos = ask[a].pos
      /\ r.last = ask[a].last /\ r.shown = ask[a].shown /\ r.reason = ask[a].reason
  BY <1>1 DEF AskType
<1> HIDE DEF r
<1>8. ask' \in [Asks -> AskType] /\ OthersKept(a) /\ ask'[a] = r
  BY <1>1, <1>5, <1>6, AskSet
<1>9. /\ StreamKept(a) /\ ask'[a].at = "commit" /\ ask'[a].scope = ask[a].scope
      /\ ask'[a].prefix = row.replay /\ ask'[a].session = session
  BY <1>7, <1>8 DEF StreamKept
<1>10. /\ row.session = 0 => sessions' = sessions + 1 /\ ask'[a].session = sessions + 1
       /\ row.session # 0 => sessions' = sessions /\ ask'[a].session = row.session
  BY <1>1, <1>2, <1>3, <1>4, <1>9
<1>11. QED
  BY <1>3, <1>8, <1>9, <1>10 DEF Prepare

\* The transaction is committed.
LEMMA CommitDoes ==
  ASSUME TurnsTyped, NEW a \in Asks, Commit(a)
  PROVE  /\ ask' \in [Asks -> AskType] /\ OthersKept(a) /\ StreamKept(a)
         /\ ask[a].at = "commit" /\ ask'[a].at = "publish"
         /\ ask'[a].scope = ask[a].scope /\ ask'[a].prefix = ask[a].prefix
         /\ row' \in [count : Nat, session : Nat, replay : BOOLEAN]
         /\ row'.session = ask[a].session /\ row'.replay = row.replay
         /\ lock' = None
         /\ UNCHANGED <<mentions, ghosts>> /\ GatewayKept
<1>1. /\ ask \in [Asks -> AskType] /\ "publish" \in Stages
      /\ row \in [count : Nat, session : Nat, replay : BOOLEAN]
  BY StageNames DEF TurnsTyped
<1>2. ask[a].seen \in Nat /\ ask[a].session \in Nat
  BY <1>1, AskFields
<1> DEFINE r == [ask[a] EXCEPT !.at = "publish", !.seen = 0, !.session = 0]
<1>3. r \in AskType /\ ask' = [ask EXCEPT ![a] = r]
  BY <1>1 DEF AskType, Commit
<1>4. /\ r.at = "publish" /\ r.prefix = ask[a].prefix
      /\ r.scope = ask[a].scope /\ r.turn = ask[a].turn /\ r.pos = ask[a].pos
      /\ r.last = ask[a].last /\ r.shown = ask[a].shown /\ r.reason = ask[a].reason
  BY <1>1 DEF AskType
<1> HIDE DEF r
<1>5. ask' \in [Asks -> AskType] /\ OthersKept(a) /\ ask'[a] = r
  BY <1>1, <1>3, AskSet
<1>6. PICK n \in Nat, k \in Nat : n = ask[a].seen + 1 /\ k = ask[a].session
  BY <1>2
<1> DEFINE q == [row EXCEPT !.count = n, !.session = k]
<1>7. /\ q \in [count : Nat, session : Nat, replay : BOOLEAN]
      /\ q.session = k /\ q.replay = row.replay
  BY <1>1
<1>8. row' = q
  BY <1>6 DEF Commit
<1> HIDE DEF q
<1>9. QED
  BY <1>4, <1>5, <1>7, <1>8, <1>6 DEF Commit, Gateway, GatewayKept, StreamKept

\* The transaction is rolled back; a session just made at the gateway is lost.
LEMMA RollBackDoes ==
  ASSUME TurnsTyped, NEW a \in Asks, RollBack(a)
  PROVE  /\ ask' \in [Asks -> AskType] /\ OthersKept(a) /\ Ended(a)
         /\ ask[a].at \in {"prepare", "commit"}
         /\ ghosts' \in [since : [Asks -> SUBSET Asks], marks : SUBSET {"imported", "orphan"}]
         /\ ghosts'.since = ghosts.since
         /\ ghosts'.marks = ghosts.marks \/ ghosts'.marks = ghosts.marks \cup {"orphan"}
         /\ ask[a].at = "commit" /\ ask[a].session # row.session => "orphan" \in ghosts'.marks
         /\ lock' = None
         /\ UNCHANGED <<row, mentions>> /\ GatewayKept
<1>1. /\ ask \in [Asks -> AskType]
      /\ ghosts \in [since : [Asks -> SUBSET Asks], marks : SUBSET {"imported", "orphan"}]
  BY DEF TurnsTyped
<1>2. ASSUME Leaves(a, "prepare") /\ UNCHANGED ghosts
      PROVE  /\ ask' \in [Asks -> AskType] /\ OthersKept(a) /\ Ended(a) /\ ask[a].at = "prepare"
             /\ ghosts' = ghosts
  BY <1>1, <1>2, LeavesDoes
<1>3. ASSUME Leaves(a, "commit"),
             ghosts' = [ghosts EXCEPT !.marks =
                         @ \cup IF ask[a].session = row.session THEN {} ELSE {"orphan"}]
      PROVE  /\ ask' \in [Asks -> AskType] /\ OthersKept(a) /\ Ended(a) /\ ask[a].at = "commit"
             /\ ghosts' \in [since : [Asks -> SUBSET Asks], marks : SUBSET {"imported", "orphan"}]
             /\ ghosts'.since = ghosts.since
             /\ ghosts'.marks = ghosts.marks \/ ghosts'.marks = ghosts.marks \cup {"orphan"}
             /\ ask[a].session # row.session => "orphan" \in ghosts'.marks
  <2>1. PICK new \in SUBSET {"orphan"} :
          new = IF ask[a].session = row.session THEN {} ELSE {"orphan"}
    OBVIOUS
  <2>2. ghosts' = [ghosts EXCEPT !.marks = @ \cup new]
    BY <1>3, <2>1
  <2>3. /\ ghosts' \in [since : [Asks -> SUBSET Asks], marks : SUBSET {"imported", "orphan"}]
        /\ ghosts'.since = ghosts.since /\ ghosts'.marks = ghosts.marks \cup new
    BY <1>1, <2>2
  <2>4. ghosts'.marks = ghosts.marks \/ ghosts'.marks = ghosts.marks \cup {"orphan"}
    BY <2>3, <2>1
  <2>5. ask[a].session # row.session => "orphan" \in ghosts'.marks
    BY <2>3, <2>1
  <2>6. QED
    BY <1>1, <1>3, <2>3, <2>4, <2>5, LeavesDoes
<1>4. QED
  BY <1>1, <1>2, <1>3 DEF RollBack, Gateway, GatewayKept

GhostsTyped ==
  ghosts \in [since : [Asks -> SUBSET Asks], marks : SUBSET {"imported", "orphan"}]

\* The scope in Redis is now that of the ask.
Replaced(a) ==
  /\ mentions' = ask[a].scope /\ ghosts'.since[a] = {}
  /\ \A b \in Asks : b # a => ghosts'.since[b] = ghosts.since[b] \cup {a}

\* SET or DELETE of the key.
LEMMA ReplaceDoes ==
  ASSUME TurnsTyped, NEW a \in Asks, Replace(a)
  PROVE  /\ Replaced(a)
         /\ mentions' \in Asks \cup {None} /\ GhostsTyped' /\ ghosts'.marks = ghosts.marks
<1>1. ask \in [Asks -> AskType] /\ GhostsTyped
  BY DEF TurnsTyped, GhostsTyped
<1> DEFINE f == [b \in Asks |-> IF b = a THEN {} ELSE ghosts.since[b] \cup {a}]
<1>2. /\ f \in [Asks -> SUBSET Asks] /\ f[a] = {}
      /\ \A b \in Asks : b # a => f[b] = ghosts.since[b] \cup {a}
  BY <1>1 DEF GhostsTyped
<1>3. ghosts' = [ghosts EXCEPT !.since = f]
  BY DEF Replace
<1> HIDE DEF f
<1>4. GhostsTyped' /\ ghosts'.since = f /\ ghosts'.marks = ghosts.marks
  BY <1>1, <1>2, <1>3 DEF GhostsTyped
<1>5. mentions' = ask[a].scope /\ mentions' \in Asks \cup {None}
  BY <1>1, AskFields DEF Replace
<1>6. QED
  BY <1>2, <1>4, <1>5 DEF Replaced

\* The scope of the ask replaces the one before.
LEMMA PublishDoes ==
  ASSUME TurnsTyped, NEW a \in Asks, Publish(a)
  PROVE  /\ ask' \in [Asks -> AskType] /\ OthersKept(a) /\ StreamKept(a)
         /\ ask[a].at = "publish" /\ ask'[a].at = "open"
         /\ ask'[a].scope = ask[a].scope /\ ask'[a].prefix = ask[a].prefix
         /\ Replaced(a) /\ mentions' \in Asks \cup {None}
         /\ GhostsTyped' /\ ghosts'.marks = ghosts.marks
         /\ UNCHANGED <<row, lock>> /\ GatewayKept
<1>1. ask \in [Asks -> AskType] /\ "open" \in Stages
  BY StageNames DEF TurnsTyped
<1>2. /\ ask' \in [Asks -> AskType] /\ OthersKept(a) /\ StreamKept(a)
      /\ ask[a].at = "publish" /\ ask'[a].at = "open"
      /\ ask'[a].scope = ask[a].scope /\ ask'[a].prefix = ask[a].prefix
  BY <1>1, GoesDoes DEF Publish
<1>3. QED
  BY <1>2, ReplaceDoes DEF Publish, Gateway, GatewayKept

-----------------------------------------------------------------------------
(* The gateway: its turns and its log. *)

\* The places of the turns and of the log.
LEMMA GatewayPlaces ==
  ASSUME TurnsTyped
  PROVE  /\ Len(turns) \in Nat /\ DOMAIN turns = 1 .. Len(turns)
         /\ Len(log) \in Nat /\ DOMAIN log = 1 .. Len(log)
         /\ \A t \in DOMAIN turns : turns[t].ask \in Asks /\ turns[t].prefix \in BOOLEAN
                                    /\ turns[t].end \in Ends \cup {None}
         /\ \A i \in DOMAIN log : log[i].turn \in Nat
<1>1. turns \in Seq(TurnType) /\ log \in Seq(EventType)
  BY DEF TurnsTyped
<1>2. /\ Len(turns) \in Nat /\ DOMAIN turns = 1 .. Len(turns)
      /\ Len(log) \in Nat /\ DOMAIN log = 1 .. Len(log)
  BY <1>1, LenProperties
<1>3. \A t \in DOMAIN turns : turns[t] \in TurnType
  BY <1>1, <1>2, ElementOfSeq
<1>4. \A i \in DOMAIN log : log[i] \in EventType
  BY <1>1, <1>2, ElementOfSeq
<1>5. QED
  BY <1>2, <1>3, <1>4 DEF TurnType, EventType

\* One event is added to the log.
Logged(t, kind) ==
  /\ log' \in Seq(EventType) /\ Len(log') = Len(log) + 1
  /\ \A i \in 1 .. Len(log) : log'[i] = log[i]
  /\ log'[Len(log) + 1].turn = t /\ log'[Len(log) + 1].kind = kind

LEMMA AppendLogs ==
  ASSUME TurnsTyped, NEW t \in Nat, NEW kind \in Ends \cup {"started", "delta"},
         log' = Append(log, [turn |-> t, kind |-> kind])
  PROVE  Logged(t, kind)
<1> DEFINE e == [turn |-> t, kind |-> kind]
<1>1. e \in EventType /\ e.turn = t /\ e.kind = kind
  BY DEF EventType
<1>2. log \in Seq(EventType) /\ log' = Append(log, e)
  BY DEF TurnsTyped
<1> HIDE DEF e
<1>3. QED
  BY <1>1, <1>2, AppendProperties DEF Logged

\* A turn of an ask is added to the turns, and its start to the log.
Taken(a) ==
  /\ turns' \in Seq(TurnType) /\ Len(turns') = Len(turns) + 1
  /\ \A t \in 1 .. Len(turns) : turns'[t] = turns[t]
  /\ turns'[Len(turns) + 1].ask = a
  /\ turns'[Len(turns) + 1].prefix = ask[a].prefix
  /\ turns'[Len(turns) + 1].end = None
  /\ Logged(Len(turns) + 1, "started")

LEMMA AcceptDoes ==
  ASSUME TurnsTyped, NEW a \in Asks, Accept(a)
  PROVE  Taken(a)
<1> DEFINE r == [ask |-> a, prefix |-> ask[a].prefix, end |-> None]
<1>1. ask[a].prefix \in BOOLEAN
  BY AskFields DEF TurnsTyped
<1>2. r \in TurnType /\ r.ask = a /\ r.prefix = ask[a].prefix /\ r.end = None
  BY <1>1 DEF TurnType
<1>3. turns \in Seq(TurnType) /\ turns' = Append(turns, r)
  BY DEF TurnsTyped, Accept
<1> HIDE DEF r
<1>4. /\ turns' \in Seq(TurnType) /\ Len(turns') = Len(turns) + 1
      /\ \A t \in 1 .. Len(turns) : turns'[t] = turns[t]
      /\ turns'[Len(turns) + 1] = r
  BY <1>2, <1>3, AppendProperties
<1>5. Len(turns) + 1 \in Nat
  BY GatewayPlaces
<1>6. Logged(Len(turns) + 1, "started")
  BY <1>4, <1>5, AppendLogs DEF Accept
<1>7. QED
  BY <1>2, <1>4, <1>6 DEF Taken

\* The turn is accepted and its stream opened where the log ends.
LEMMA OpenDoes ==
  ASSUME TurnsTyped, NEW a \in Asks, Open(a)
  PROVE  /\ ask' \in [Asks -> AskType] /\ OthersKept(a)
         /\ ask[a].at = "open" /\ ask'[a].at = "stream"
         /\ ask'[a].scope = ask[a].scope /\ ask'[a].pos = Len(log)
         /\ ask'[a].turn = ask[a].turn /\ ask'[a].last = ask[a].last
         /\ ask'[a].shown = ask[a].shown /\ ask'[a].reason = ask[a].reason
         /\ Taken(a)
         /\ UNCHANGED <<row, lock, mentions, sessions, ghosts>>
<1>1. ask \in [Asks -> AskType] /\ "stream" \in Stages /\ Len(log) \in Nat
  BY StageNames, GatewayPlaces DEF TurnsTyped
<1>2. PICK n \in Nat : n = Len(log)
  BY <1>1
<1> DEFINE r == [ask[a] EXCEPT !.at = "stream", !.pos = n, !.prefix = FALSE]
<1>3. ask' = [ask EXCEPT ![a] = r]
  BY <1>1, <1>2 DEF Open
<1>4. r \in AskType
  BY <1>1 DEF AskType
<1>5. /\ r.at = "stream" /\ r.pos = n /\ r.scope = ask[a].scope
      /\ r.turn = ask[a].turn /\ r.last = ask[a].last /\ r.shown = ask[a].shown
      /\ r.reason = ask[a].reason
  BY <1>1 DEF AskType
<1> HIDE DEF r
<1>6. ask' \in [Asks -> AskType] /\ OthersKept(a) /\ ask'[a] = r
  BY <1>1, <1>3, <1>4, AskSet
<1>7. Taken(a)
  BY AcceptDoes DEF Open
<1>8. QED
  BY <1>2, <1>5, <1>6, <1>7 DEF Open

\* The gateway refuses the turn, or its answer does not arrive.
LEMMA OpenFailsDoes ==
  ASSUME TurnsTyped, NEW a \in Asks, OpenFails(a)
  PROVE  /\ ask' \in [Asks -> AskType] /\ OthersKept(a) /\ Ended(a)
         /\ ask[a].at = "open"
         /\ Taken(a) \/ UNCHANGED <<turns, log>>
         /\ UNCHANGED <<row, lock, mentions, sessions, ghosts>>
<1>1. ask \in [Asks -> AskType]
  BY DEF TurnsTyped
<1>2. Taken(a) \/ UNCHANGED <<turns, log>>
  BY AcceptDoes DEF OpenFails
<1>3. QED
  BY <1>1, <1>2, LeavesDoes DEF OpenFails

\* A turn goes on.
LEMMA EmitDoes ==
  ASSUME TurnsTyped, NEW t \in DOMAIN turns, Emit(t)
  PROVE  Logged(t, "delta") /\ UNCHANGED <<row, lock, mentions, ask, sessions, turns, ghosts>>
<1>1. t \in Nat
  BY GatewayPlaces
<1>2. Logged(t, "delta")
  BY <1>1, AppendLogs DEF Emit
<1>3. QED
  BY <1>2 DEF Emit

\* A turn ends.
Stopped(t, end) ==
  /\ turns[t].end = None
  /\ turns' \in Seq(TurnType) /\ Len(turns') = Len(turns)
  /\ turns'[t].ask = turns[t].ask /\ turns'[t].prefix = turns[t].prefix /\ turns'[t].end = end
  /\ \A u \in DOMAIN turns : u # t => turns'[u] = turns[u]
  /\ Logged(t, end)

LEMMA EndDoes ==
  ASSUME TurnsTyped, NEW t \in DOMAIN turns, End(t)
  PROVE  /\ \E end \in Ends : Stopped(t, end)
         /\ UNCHANGED <<row, lock, mentions, ask, sessions, ghosts>>
<1>1. PICK end \in Ends : /\ turns' = [turns EXCEPT ![t].end = end]
                          /\ log' = Append(log, [turn |-> t, kind |-> end])
  BY DEF End
<1>2. turns \in Seq(TurnType) /\ t \in Nat /\ t \in 1 .. Len(turns)
  BY GatewayPlaces DEF TurnsTyped
<1>3. turns[t] \in TurnType
  BY <1>2, ElementOfSeq
<1> DEFINE r == [turns[t] EXCEPT !.end = end]
<1>4. /\ r \in TurnType /\ r.ask = turns[t].ask /\ r.prefix = turns[t].prefix /\ r.end = end
      /\ turns' = [turns EXCEPT ![t] = r]
  BY <1>1, <1>2, <1>3 DEF TurnType
<1> HIDE DEF r
<1>5. /\ turns' \in Seq(TurnType) /\ Len(turns') = Len(turns)
      /\ \A u \in 1 .. Len(turns) : turns'[u] = IF u = t THEN r ELSE turns[u]
  BY <1>2, <1>4, ExceptSeq
<1>6. /\ turns'[t] = r /\ \A u \in DOMAIN turns : u # t => turns'[u] = turns[u]
  BY <1>2, <1>5, GatewayPlaces
<1>7. Logged(t, end)
  BY <1>1, <1>2, AppendLogs
<1>8. turns[t].end = None
  BY DEF End, Running
<1>9. Stopped(t, end)
  BY <1>4, <1>5, <1>6, <1>7, <1>8 DEF Stopped
<1>10. QED
  BY <1>9 DEF End

-----------------------------------------------------------------------------
(* The stream of an ask and its bookkeeping. *)

\* An event is read, and the turn named if none was; passed over, or turned into a frame.
PassesOver(a, i, t) ==
  /\ ask'[a].turn = t /\ ask'[a].pos = i
  /\ ask'[a].last = ask[a].last /\ ask'[a].shown = ask[a].shown /\ ask'[a].reason = ask[a].reason
  /\ ask'[a].at = "stream"
  /\ log[i].turn # t \/ i <= ask[a].last

Shows(a, i, t) ==
  /\ ask'[a].turn = t /\ ask'[a].pos = i /\ ask'[a].last = i
  /\ ask'[a].shown = Append(ask[a].shown, i)
  /\ log[i].turn = t /\ i > ask[a].last
  /\ \/ ask'[a].at = "stream" /\ ask'[a].reason = ask[a].reason
     \/ ask'[a].at = "finish" /\ ask'[a].reason = log[i].kind /\ log[i].kind \in Ends

\* The turn of the stream, once event i has been read.
TurnAfter(a, i) == IF ask[a].turn = 0 THEN log[i].turn ELSE ask[a].turn

LEMMA FeedDoes ==
  ASSUME TurnsTyped, NEW a \in Asks, Feed(a), NEW i, i = ask[a].pos + 1
  PROVE  /\ ask' \in [Asks -> AskType] /\ OthersKept(a)
         /\ ask[a].at = "stream" /\ i \in DOMAIN log
         /\ ask'[a].scope = ask[a].scope /\ ask'[a].prefix = ask[a].prefix
         /\ PassesOver(a, i, TurnAfter(a, i)) \/ Shows(a, i, TurnAfter(a, i))
         /\ UNCHANGED <<row, lock, mentions, ghosts>> /\ GatewayKept
<1>1. ask \in [Asks -> AskType] /\ "stream" \in Stages /\ "finish" \in Stages
  BY StageNames DEF TurnsTyped
<1>2. ask[a].pos \in Nat /\ ask[a].last \in Nat /\ ask[a].shown \in Seq(Nat)
      /\ ask[a].turn \in Nat /\ ask[a].at = "stream"
  BY <1>1, AskFields DEF Feed
<1>3. i \in Nat /\ i \in 1 .. Len(log) /\ i \in DOMAIN log
  BY <1>2, GatewayPlaces DEF Feed
<1>4. PICK t \in Nat : t = TurnAfter(a, i)
  BY <1>2, <1>3, GatewayPlaces DEF TurnAfter
<1>5. PICK s \in Seq(Nat) : s = Append(ask[a].shown, i)
  BY <1>2, <1>3, AppendProperties
<1> DEFINE read == [ask[a] EXCEPT !.pos = i, !.turn = t]
           fed == [read EXCEPT !.last = i, !.shown = s]
           over == [fed EXCEPT !.at = "finish", !.reason = log[i].kind]
<1>6. ask' = [ask EXCEPT ![a] =
         IF log[i].turn # t \/ i <= ask[a].last THEN read
         ELSE IF log[i].kind \in Ends THEN over ELSE fed]
  <2> DEFINE R == [ask[a] EXCEPT !.pos = i, !.turn = IF @ = 0 THEN log[i].turn ELSE @]
             F == [R EXCEPT !.last = i, !.shown = Append(@, i)]
             G == [F EXCEPT !.at = "finish", !.reason = log[i].kind]
  <2>1. ask' = [ask EXCEPT ![a] = IF log[i].turn # R.turn \/ i <= ask[a].last THEN R
                                  ELSE IF log[i].kind \in Ends THEN G ELSE F]
    BY DEF Feed
  <2>2. R = read /\ R.turn = t
    BY <1>1, <1>4 DEF TurnAfter, AskType
  <2>3. R.shown = ask[a].shown
    BY <1>1 DEF AskType
  <2>4. F = fed
    BY <1>5, <2>2, <2>3
  <2>5. G = over
    BY <2>4
  <2> HIDE DEF R, F, G, read, fed, over
  <2>6. QED
    BY <2>1, <2>2, <2>4, <2>5
<1>7. /\ read \in AskType /\ read.turn = t /\ read.pos = i /\ read.last = ask[a].last
      /\ read.shown = ask[a].shown /\ read.reason = ask[a].reason /\ read.at = "stream"
      /\ read.scope = ask[a].scope /\ read.prefix = ask[a].prefix
  BY <1>1, <1>2, <1>3 DEF AskType
<1> HIDE DEF read
<1>8. /\ fed \in AskType /\ fed.turn = t /\ fed.pos = i /\ fed.last = i
      /\ fed.shown = s /\ fed.reason = ask[a].reason /\ fed.at = "stream"
      /\ fed.scope = ask[a].scope /\ fed.prefix = ask[a].prefix
  BY <1>1, <1>3, <1>7 DEF AskType
<1> HIDE DEF fed
<1>9. ASSUME log[i].kind \in Ends
      PROVE  /\ over \in AskType /\ over.turn = t /\ over.pos = i /\ over.last = i
             /\ over.shown = s /\ over.reason = log[i].kind /\ over.at = "finish"
             /\ over.scope = ask[a].scope /\ over.prefix = ask[a].prefix
  BY <1>1, <1>8, <1>9 DEF AskType
<1> HIDE DEF over
<1>10. CASE log[i].turn # t \/ i <= ask[a].last
  <2>1. ask' = [ask EXCEPT ![a] = read]
    BY <1>6, <1>10
  <2>2. ask' \in [Asks -> AskType] /\ OthersKept(a) /\ ask'[a] = read
    BY <1>1, <1>7, <2>1, AskSet
  <2>3. PassesOver(a, i, t)
    BY <1>7, <1>10, <2>2 DEF PassesOver
  <2>4. QED
    BY <1>2, <1>3, <1>4, <1>7, <2>2, <2>3 DEF Feed, Gateway, GatewayKept
<1>11. CASE ~(log[i].turn # t \/ i <= ask[a].last) /\ log[i].kind \in Ends
  <2>1. ask' = [ask EXCEPT ![a] = over]
    BY <1>6, <1>11
  <2>2. ask' \in [Asks -> AskType] /\ OthersKept(a) /\ ask'[a] = over
    BY <1>1, <1>9, <1>11, <2>1, AskSet
  <2>3. Shows(a, i, t)
    BY <1>2, <1>3, <1>5, <1>9, <1>11, <2>2 DEF Shows
  <2>4. QED
    BY <1>2, <1>3, <1>4, <1>9, <1>11, <2>2, <2>3 DEF Feed, Gateway, GatewayKept
<1>12. CASE ~(log[i].turn # t \/ i <= ask[a].last) /\ log[i].kind \notin Ends
  <2>1. ask' = [ask EXCEPT ![a] = fed]
    BY <1>6, <1>12
  <2>2. ask' \in [Asks -> AskType] /\ OthersKept(a) /\ ask'[a] = fed
    BY <1>1, <1>8, <2>1, AskSet
  <2>3. Shows(a, i, t)
    BY <1>2, <1>3, <1>5, <1>8, <1>12, <2>2 DEF Shows
  <2>4. QED
    BY <1>2, <1>3, <1>4, <1>8, <2>2, <2>3 DEF Feed, Gateway, GatewayKept
<1>13. QED
  BY <1>10, <1>11, <1>12

\* A stream that is cut is resumed later or given up.
LEMMA CutDoes ==
  ASSUME TurnsTyped, NEW a \in Asks, Cut(a)
  PROVE  /\ ask' \in [Asks -> AskType] /\ OthersKept(a)
         /\ ask[a].at \in {"stream", "sleep"}
         /\ ask'[a].scope = ask[a].scope /\ ask'[a].turn = ask[a].turn
         /\ ask'[a].pos = ask[a].pos /\ ask'[a].last = ask[a].last
         /\ ask'[a].shown = ask[a].shown
         /\ \/ ask'[a].at = "finish" /\ ask'[a].reason = "error"
            \/ ask'[a].at = "sleep" /\ ask'[a].reason = ask[a].reason /\ ask[a].turn # 0
         /\ UNCHANGED <<row, lock, mentions, ghosts>> /\ GatewayKept
<1>1. ask \in [Asks -> AskType] /\ "sleep" \in Stages /\ "finish" \in Stages
  BY StageNames DEF TurnsTyped
<1>2. ask[a].resumes \in Nat
  BY <1>1, AskFields
<1>3. PICK n \in Nat : n = ask[a].resumes + 1
  BY <1>2
<1> DEFINE up == [ask[a] EXCEPT !.at = "finish", !.reason = "error"]
           later == [ask[a] EXCEPT !.at = "sleep", !.resumes = n]
<1>4. up \in AskType
  BY <1>1 DEF AskType
<1>5. later \in AskType
  BY <1>1 DEF AskType
<1>6. /\ up.at = "finish" /\ up.reason = "error" /\ up.scope = ask[a].scope
      /\ up.turn = ask[a].turn /\ up.pos = ask[a].pos /\ up.last = ask[a].last
      /\ up.shown = ask[a].shown
  BY <1>1 DEF AskType
<1>7. /\ later.at = "sleep" /\ later.reason = ask[a].reason /\ later.scope = ask[a].scope
      /\ later.turn = ask[a].turn /\ later.pos = ask[a].pos /\ later.last = ask[a].last
      /\ later.shown = ask[a].shown
  BY <1>1 DEF AskType
<1>8. [ask[a] EXCEPT !.at = "sleep", !.resumes = @ + 1] = later
  BY <1>1, <1>3 DEF AskType
<1>9. \/ Interrupted(a) = up
      \/ Interrupted(a) = later /\ ask[a].turn # 0
  BY <1>8 DEF Interrupted
<1>10. ask' = [ask EXCEPT ![a] = Interrupted(a)] /\ ask[a].at \in {"stream", "sleep"}
       /\ UNCHANGED <<row, lock, mentions, ghosts>> /\ GatewayKept
  BY DEF Cut, Gateway, GatewayKept
<1> HIDE DEF up, later
<1>11. ask' \in [Asks -> AskType] /\ OthersKept(a) /\ ask'[a] = Interrupted(a)
  BY <1>1, <1>4, <1>5, <1>9, <1>10, AskSet
<1>12. QED
  BY <1>6, <1>7, <1>9, <1>10, <1>11

\* The stream is resumed after the last event turned into a frame.
LEMMA ResumeDoes ==
  ASSUME TurnsTyped, NEW a \in Asks, Resume(a)
  PROVE  /\ ask' \in [Asks -> AskType] /\ OthersKept(a)
         /\ ask[a].at = "sleep" /\ ask'[a].at = "stream"
         /\ ask'[a].scope = ask[a].scope /\ ask'[a].turn = ask[a].turn
         /\ ask'[a].pos = ask[a].last /\ ask'[a].last = ask[a].last
         /\ ask'[a].shown = ask[a].shown /\ ask'[a].reason = ask[a].reason
         /\ UNCHANGED <<row, lock, mentions, ghosts>> /\ GatewayKept
<1>1. ask \in [Asks -> AskType] /\ "stream" \in Stages
  BY StageNames DEF TurnsTyped
<1>2. PICK n \in Nat : n = ask[a].last
  BY <1>1, AskFields
<1> DEFINE r == [ask[a] EXCEPT !.at = "stream", !.pos = n]
<1>3. r \in AskType /\ ask' = [ask EXCEPT ![a] = r]
  BY <1>1, <1>2 DEF AskType, Resume
<1>4. /\ r.at = "stream" /\ r.reason = ask[a].reason /\ r.scope = ask[a].scope
      /\ r.turn = ask[a].turn /\ r.pos = n /\ r.last = ask[a].last
      /\ r.shown = ask[a].shown
  BY <1>1 DEF AskType
<1> HIDE DEF r
<1>5. ask' \in [Asks -> AskType] /\ OthersKept(a) /\ ask'[a] = r
  BY <1>1, <1>3, AskSet
<1>6. QED
  BY <1>2, <1>4, <1>5 DEF Resume, Gateway, GatewayKept

\* The client leaves.
LEMMA LeaveDoes ==
  ASSUME TurnsTyped, NEW a \in Asks, Leave(a)
  PROVE  /\ ask' \in [Asks -> AskType] /\ OthersKept(a) /\ Ended(a)
         /\ ask[a].at \in {"stream", "sleep"}
         /\ UNCHANGED <<row, lock, mentions, ghosts>> /\ GatewayKept
<1>1. PICK from \in {"stream", "sleep"} : Leaves(a, from)
  BY DEF Leave
<1>2. ask \in [Asks -> AskType]
  BY DEF TurnsTyped
<1>3. QED
  BY <1>1, <1>2, LeavesDoes DEF Leave, Gateway, GatewayKept

\* The row is read for the bookkeeping, or there is none to do.
LEMMA FinishDoes ==
  ASSUME TurnsTyped, NEW a \in Asks, Finish(a)
  PROVE  /\ ask' \in [Asks -> AskType] /\ OthersKept(a)
         /\ ask[a].at = "finish"
         /\ Ended(a) \/ (StreamKept(a) /\ ask'[a].at = "write" /\ ask'[a].scope = ask[a].scope)
         /\ UNCHANGED <<row, lock, mentions, ghosts>> /\ GatewayKept
<1>1. ask \in [Asks -> AskType] /\ "write" \in Stages
  BY StageNames DEF TurnsTyped
<1>2. PICK n \in Nat : n = row.count
  BY DEF TurnsTyped
<1> DEFINE r == [ask[a] EXCEPT !.at = "write", !.seen = n]
<1>3. ask' = [ask EXCEPT ![a] = r] \/ ask' = [ask EXCEPT ![a] = Over(a)]
  BY <1>2 DEF Finish
<1>4. r \in AskType
  BY <1>1 DEF AskType
<1>5. /\ r.at = "write" /\ r.reason = ask[a].reason /\ r.scope = ask[a].scope
      /\ r.turn = ask[a].turn /\ r.pos = ask[a].pos /\ r.last = ask[a].last
      /\ r.shown = ask[a].shown
  BY <1>1 DEF AskType
<1> HIDE DEF r
<1>6. ASSUME ask' = [ask EXCEPT ![a] = r]
      PROVE  /\ ask' \in [Asks -> AskType] /\ OthersKept(a) /\ StreamKept(a)
             /\ ask'[a].at = "write" /\ ask'[a].scope = ask[a].scope
  <2>1. ask' \in [Asks -> AskType] /\ OthersKept(a) /\ ask'[a] = r
    BY <1>1, <1>4, <1>6, AskSet
  <2>2. QED
    BY <1>5, <2>1 DEF StreamKept
<1>7. ASSUME ask' = [ask EXCEPT ![a] = Over(a)]
      PROVE  ask' \in [Asks -> AskType] /\ OthersKept(a) /\ Ended(a)
  BY <1>1, <1>7, OverDoes
<1>8. QED
  BY <1>3, <1>6, <1>7 DEF Finish, Gateway, GatewayKept

\* The row is written: the replay is over when the turn has succeeded.
LEMMA WriteDoes ==
  ASSUME TurnsTyped, NEW a \in Asks, Write(a)
  PROVE  /\ ask' \in [Asks -> AskType] /\ OthersKept(a) /\ Ended(a)
         /\ ask[a].at = "write"
         /\ row' \in [count : Nat, session : Nat, replay : BOOLEAN]
         /\ row'.session = row.session
         /\ row'.replay => row.replay
         /\ row.replay /\ ~row'.replay => Ok(a)
         /\ UNCHANGED <<lock, mentions, ghosts>> /\ GatewayKept
<1>1. /\ ask \in [Asks -> AskType]
      /\ row \in [count : Nat, session : Nat, replay : BOOLEAN]
  BY DEF TurnsTyped
<1>2. ask[a].seen \in Nat /\ row.count \in Nat /\ row.replay \in BOOLEAN
  BY <1>1, AskFields
<1>3. PICK n \in Nat : n = IF Answered(a) THEN ask[a].seen + 1 ELSE row.count
  BY <1>2
<1>4. PICK x \in BOOLEAN : x = (row.replay /\ ~Ok(a))
  OBVIOUS
<1> DEFINE q == [row EXCEPT !.count = n, !.replay = x]
<1>5. row' = q
  BY <1>3, <1>4 DEF Write
<1>6. q \in [count : Nat, session : Nat, replay : BOOLEAN] /\ q.session = row.session /\ q.replay = x
  BY <1>1
<1> HIDE DEF q
<1>7. ask' \in [Asks -> AskType] /\ OthersKept(a) /\ Ended(a)
  BY <1>1, OverDoes DEF Write
<1>8. QED
  BY <1>4, <1>5, <1>6, <1>7 DEF Write, Gateway, GatewayKept

\* An ask that leaves before it has a turn, or after it, without a trace.
LEMMA FailsDoes ==
  ASSUME TurnsTyped, NEW a \in Asks, PublishFails(a) \/ WriteFails(a)
  PROVE  /\ ask' \in [Asks -> AskType] /\ OthersKept(a) /\ Ended(a)
         /\ ask[a].at \in {"publish", "write"}
         /\ mentions' \in Asks \cup {None} /\ GhostsTyped' /\ ghosts'.marks = ghosts.marks
         /\ UNCHANGED <<mentions, ghosts>> \/ (PublishFails(a) /\ Replaced(a))
         /\ UNCHANGED <<row, lock>> /\ GatewayKept
<1>1. ask \in [Asks -> AskType] /\ mentions \in Asks \cup {None} /\ GhostsTyped
  BY DEF TurnsTyped, GhostsTyped
<1>2. /\ mentions' \in Asks \cup {None} /\ GhostsTyped' /\ ghosts'.marks = ghosts.marks
      /\ UNCHANGED <<mentions, ghosts>> \/ (PublishFails(a) /\ Replaced(a))
  <2>1. CASE UNCHANGED <<mentions, ghosts>>
    BY <1>1, <2>1 DEF GhostsTyped
  <2>2. CASE PublishFails(a) /\ Replace(a)
    BY <2>2, ReplaceDoes
  <2>3. QED
    BY <2>1, <2>2 DEF PublishFails, WriteFails
<1>3. QED
  BY <1>1, <1>2, LeavesDoes DEF PublishFails, WriteFails, Gateway, GatewayKept

\* The update of the count takes the row.
LEMMA UpdateDoes ==
  ASSUME TurnsTyped, NEW a \in Asks, Update(a)
  PROVE  /\ ask' \in [Asks -> AskType] /\ OthersKept(a) /\ StreamKept(a)
         /\ ask[a].at = "update" /\ ask'[a].at = "prepare" /\ ask'[a].scope = ask[a].scope
         /\ lock = None /\ lock' = a
         /\ UNCHANGED <<row, mentions, ghosts>> /\ GatewayKept
<1>1. ask \in [Asks -> AskType] /\ "prepare" \in Stages
  BY StageNames DEF TurnsTyped
<1>2. QED
  BY <1>1, GoesDoes DEF Update, Gateway, GatewayKept

-----------------------------------------------------------------------------
(* Types, and what the gateway never takes back. *)

TurnsGrow ==
  \A t \in DOMAIN turns :
    /\ t \in DOMAIN turns'
    /\ turns'[t].ask = turns[t].ask /\ turns'[t].prefix = turns[t].prefix
    /\ turns[t].end # None => turns'[t].end = turns[t].end

LogGrows ==
  /\ Len(log) <= Len(log')
  /\ \A i \in DOMAIN log : i \in DOMAIN log' /\ log'[i] = log[i]

\* Every step keeps the types.
LEMMA TurnsTypedStep ==
  ASSUME TurnsTyped, TurnsNext
  PROVE  TurnsTyped'
<1> USE DEF TurnsTyped
<1>1. ASSUME NEW a \in Asks, Begin(a) PROVE TurnsTyped'
  BY <1>1, BeginDoes DEF GatewayKept
<1>2. ASSUME NEW a \in Asks, Update(a) PROVE TurnsTyped'
  BY <1>2, UpdateDoes DEF GatewayKept
<1>3. ASSUME NEW a \in Asks, Prepare(a) PROVE TurnsTyped'
  BY <1>3, PrepareDoes
<1>4. ASSUME NEW a \in Asks, Commit(a) PROVE TurnsTyped'
  BY <1>4, CommitDoes DEF GatewayKept
<1>5. ASSUME NEW a \in Asks, RollBack(a) PROVE TurnsTyped'
  BY <1>5, RollBackDoes DEF GatewayKept
<1>6. ASSUME NEW a \in Asks, Publish(a) PROVE TurnsTyped'
  BY <1>6, PublishDoes DEF GatewayKept, GhostsTyped
<1>7. ASSUME NEW a \in Asks, PublishFails(a) \/ WriteFails(a) PROVE TurnsTyped'
  BY <1>7, FailsDoes DEF GatewayKept, GhostsTyped
<1>8. ASSUME NEW a \in Asks, Open(a) PROVE TurnsTyped'
  BY <1>8, OpenDoes DEF Taken, Logged
<1>9. ASSUME NEW a \in Asks, OpenFails(a) PROVE TurnsTyped'
  BY <1>9, OpenFailsDoes DEF Taken, Logged
<1>10. ASSUME NEW a \in Asks, Feed(a) PROVE TurnsTyped'
  BY <1>10, FeedDoes DEF GatewayKept
<1>11. ASSUME NEW a \in Asks, Cut(a) PROVE TurnsTyped'
  BY <1>11, CutDoes DEF GatewayKept
<1>12. ASSUME NEW a \in Asks, Resume(a) PROVE TurnsTyped'
  BY <1>12, ResumeDoes DEF GatewayKept
<1>13. ASSUME NEW a \in Asks, Leave(a) PROVE TurnsTyped'
  BY <1>13, LeaveDoes DEF GatewayKept
<1>14. ASSUME NEW a \in Asks, Finish(a) PROVE TurnsTyped'
  BY <1>14, FinishDoes DEF GatewayKept
<1>15. ASSUME NEW a \in Asks, Write(a) PROVE TurnsTyped'
  BY <1>15, WriteDoes DEF GatewayKept
<1>16. ASSUME NEW t \in DOMAIN turns, Emit(t) PROVE TurnsTyped'
  BY <1>16, EmitDoes DEF Logged
<1>17. ASSUME NEW t \in DOMAIN turns, End(t) PROVE TurnsTyped'
  BY <1>17, EndDoes DEF Stopped, Logged
<1>18. QED
  BY <1>1, <1>2, <1>3, <1>4, <1>5, <1>6, <1>7, <1>8, <1>9, <1>10, <1>11, <1>12, <1>13, <1>14,
     <1>15, <1>16, <1>17 DEF TurnsNext, Step

\* What a step may do at the gateway, besides making sessions.
GatewaySteps ==
  \/ UNCHANGED <<turns, log>>
  \/ \E a \in Asks : Taken(a)
  \/ \E t \in DOMAIN turns : UNCHANGED <<turns, ask>> /\ Logged(t, "delta")
  \/ \E t \in DOMAIN turns, end \in Ends : UNCHANGED ask /\ Stopped(t, end)

LEMMA GatewayStep ==
  ASSUME TurnsTyped, TurnsNext
  PROVE  GatewaySteps
<1>1. ASSUME NEW a \in Asks, Begin(a) \/ Cut(a) \/ Leave(a)
      PROVE  GatewaySteps
  BY <1>1, BeginDoes, CutDoes, LeaveDoes DEF GatewayKept, GatewaySteps
<1>2. ASSUME NEW a \in Asks, Step(a), ~Open(a), ~OpenFails(a)
      PROVE  UNCHANGED <<turns, log>>
  BY <1>2 DEF Step, Update, Prepare, Commit, RollBack, Publish, PublishFails, Feed, Resume,
              Finish, Write, WriteFails, Gateway
<1>3. ASSUME NEW a \in Asks, Open(a) \/ OpenFails(a)
      PROVE  GatewaySteps
  BY <1>3, OpenDoes, OpenFailsDoes DEF GatewaySteps
<1>4. ASSUME NEW t \in DOMAIN turns, Emit(t) \/ End(t)
      PROVE  GatewaySteps
  BY <1>4, EmitDoes, EndDoes DEF GatewaySteps
<1>5. QED
  BY <1>1, <1>2, <1>3, <1>4 DEF TurnsNext, GatewaySteps

\* Turns and events are never taken back, and an end is never replaced.
LEMMA GatewayGrows ==
  ASSUME TurnsTyped, TurnsTyped', TurnsNext
  PROVE  TurnsGrow /\ LogGrows
<1>1. /\ Len(turns) \in Nat /\ DOMAIN turns = 1 .. Len(turns)
      /\ Len(log) \in Nat /\ DOMAIN log = 1 .. Len(log)
  BY GatewayPlaces
<1>2. /\ Len(turns') \in Nat /\ DOMAIN turns' = 1 .. Len(turns')
      /\ Len(log') \in Nat /\ DOMAIN log' = 1 .. Len(log')
  BY LenProperties DEF TurnsTyped
<1>3. ASSUME UNCHANGED <<turns, log>>
      PROVE  TurnsGrow /\ LogGrows
  BY <1>1, <1>3 DEF TurnsGrow, LogGrows
<1>4. ASSUME NEW t, NEW kind, Logged(t, kind)
      PROVE  LogGrows
  BY <1>1, <1>2, <1>4 DEF Logged, LogGrows
<1>5. ASSUME NEW a \in Asks, Taken(a)
      PROVE  TurnsGrow /\ LogGrows
  BY <1>1, <1>2, <1>4, <1>5 DEF Taken, TurnsGrow
<1>6. ASSUME NEW t \in DOMAIN turns, UNCHANGED <<turns, ask>>, Logged(t, "delta")
      PROVE  TurnsGrow /\ LogGrows
  BY <1>1, <1>4, <1>6 DEF TurnsGrow
<1>7. ASSUME NEW t \in DOMAIN turns, NEW end \in Ends, Stopped(t, end)
      PROVE  TurnsGrow /\ LogGrows
  BY <1>1, <1>2, <1>4, <1>7 DEF Stopped, TurnsGrow
<1>8. QED
  BY <1>3, <1>5, <1>6, <1>7, GatewayStep DEF GatewaySteps

-----------------------------------------------------------------------------
(* The invariant, part by part. *)

\* An event belongs to a turn; the one that ends it says how.
EventsInv ==
  \A i \in DOMAIN log :
    /\ log[i].turn \in DOMAIN turns
    /\ log[i].kind \in Ends => turns[log[i].turn].end = log[i].kind

LEMMA EventsStep ==
  ASSUME TurnsTyped, TurnsTyped', EventsInv, TurnsNext
  PROVE  EventsInv'
<1>1. /\ Len(turns) \in Nat /\ DOMAIN turns = 1 .. Len(turns)
      /\ Len(log) \in Nat /\ DOMAIN log = 1 .. Len(log)
  BY GatewayPlaces
<1>2. /\ Len(turns') \in Nat /\ DOMAIN turns' = 1 .. Len(turns')
      /\ Len(log') \in Nat /\ DOMAIN log' = 1 .. Len(log')
  BY LenProperties DEF TurnsTyped
<1>3. ASSUME NEW i \in DOMAIN log, NEW t \in DOMAIN turns', log'[i] = log[i],
             TurnsGrow
      PROVE  /\ log'[i].turn \in DOMAIN turns'
             /\ log'[i].kind \in Ends => turns'[log'[i].turn].end = log'[i].kind
  BY <1>3, NoneAssumption DEF EventsInv, TurnsGrow
<1>4. TurnsGrow
  BY GatewayGrows
<1>5. CASE UNCHANGED <<turns, log>>
  BY <1>5 DEF EventsInv
<1>6. ASSUME NEW t \in DOMAIN turns', NEW kind, Logged(t, kind),
             kind \in Ends => turns'[t].end = kind
      PROVE  EventsInv'
  BY <1>1, <1>2, <1>3, <1>4, <1>6 DEF EventsInv, Logged
<1>7. ASSUME NEW a \in Asks, Taken(a)
      PROVE  EventsInv'
  BY <1>1, <1>2, <1>6, <1>7 DEF Taken, Ends
<1>8. ASSUME NEW t \in DOMAIN turns, UNCHANGED <<turns, ask>>, Logged(t, "delta")
      PROVE  EventsInv'
  BY <1>6, <1>8 DEF Ends
<1>9. ASSUME NEW t \in DOMAIN turns, NEW end \in Ends, Stopped(t, end)
      PROVE  EventsInv'
  BY <1>1, <1>2, <1>6, <1>9 DEF Stopped
<1>10. QED
  BY <1>5, <1>7, <1>8, <1>9, GatewayStep DEF GatewaySteps

-----------------------------------------------------------------------------
\* The stages before an ask has a turn.
Early == {"idle", "update", "prepare", "commit", "publish", "open"}

Ascending(s) == \A k \in 1 .. Len(s) - 1 : s[k] < s[k + 1]
Members(s) == {s[k] : k \in 1 .. Len(s)}

\* The stream that has a turn has shown all of its events up to the last it has seen, and
\* has passed none over since.
Showing(a) ==
  /\ ask[a].turn \in DOMAIN turns
  /\ turns[ask[a].turn].ask = a
  /\ Ascending(ask[a].shown)
  /\ Members(ask[a].shown) = {i \in 1 .. ask[a].last : log[i].turn = ask[a].turn}
  /\ ask[a].last <= ask[a].pos
  /\ ask[a].pos <= Len(log)
  /\ \A i \in ask[a].last + 1 .. ask[a].pos : log[i].turn # ask[a].turn

\* The next event of a stream without a turn is the first one of the turn of its ask.
NamesNext(a) ==
  /\ ask[a].pos + 1 \in DOMAIN log
  /\ turns[log[ask[a].pos + 1].turn].ask = a
  /\ \A i \in 1 .. ask[a].pos : log[i].turn # log[ask[a].pos + 1].turn

StreamOf(a) ==
  /\ ask[a].turn = 0 => ask[a].shown = <<>> /\ ask[a].last = 0
  /\ ask[a].at \in Early \cup {"done"} => ask[a].turn = 0
  /\ ask[a].at = "sleep" => ask[a].turn # 0
  /\ ask[a].at = "stream" /\ ask[a].turn = 0 => NamesNext(a)
  /\ ask[a].turn # 0 => Showing(a)
  /\ ask[a].reason \in Ends => ask[a].turn # 0 /\ turns[ask[a].turn].end = ask[a].reason

StreamsInv == \A a \in Asks : StreamOf(a)

\* A number above the members of an ascending sequence can be appended.
LEMMA AppendAscends ==
  ASSUME NEW s \in Seq(Nat), Ascending(s), NEW n \in Nat, \A m \in Members(s) : m < n
  PROVE  Ascending(Append(s, n)) /\ Members(Append(s, n)) = Members(s) \cup {n}
<1>1. Len(s) \in Nat
  BY LenProperties
<1>2. PICK q : q = Append(s, n)
  OBVIOUS
<1>3. /\ Len(q) = Len(s) + 1
      /\ \A k \in 1 .. Len(s) : q[k] = s[k]
      /\ q[Len(s) + 1] = n
  BY <1>2, AppendProperties
<1>4. Ascending(q)
  <2>1. SUFFICES ASSUME NEW k \in 1 .. Len(q) - 1 PROVE q[k] < q[k + 1]
    BY DEF Ascending
  <2>2. CASE k = Len(s)
    BY <1>1, <1>3, <2>2 DEF Members
  <2>3. CASE k # Len(s)
    <3>1. k \in 1 .. Len(s) - 1 /\ k \in 1 .. Len(s) /\ k + 1 \in 1 .. Len(s)
      BY <1>1, <1>3, <2>3
    <3>2. s[k] < s[k + 1]
      BY <3>1 DEF Ascending
    <3>3. QED
      BY <1>3, <3>1, <3>2
  <2>4. QED
    BY <2>2, <2>3
<1>5. Members(q) = Members(s) \cup {n}
  <2>1. 1 .. Len(q) = 1 .. Len(s) \cup {Len(s) + 1}
    BY <1>1, <1>3
  <2>2. QED
    BY <1>3, <2>1 DEF Members
<1>6. QED
  BY <1>2, <1>4, <1>5

\* A stream that stays as it is remains true to its turn, whatever the gateway adds.
LEMMA StreamCarries ==
  ASSUME TurnsTyped, EventsInv, NEW a \in Asks, StreamOf(a), StreamKept(a),
         TurnsGrow, LogGrows
  PROVE  /\ ask[a].turn # 0 => Showing(a)'
         /\ NamesNext(a) => NamesNext(a)'
         /\ ask[a].reason \in Ends => ask[a].turn # 0 /\ turns'[ask[a].turn].end = ask[a].reason
<1>1. Len(log) \in Nat /\ DOMAIN log = 1 .. Len(log)
  BY GatewayPlaces
<1>2. ask[a].turn \in Nat /\ ask[a].pos \in Nat /\ ask[a].last \in Nat
  BY AskFields DEF TurnsTyped
<1>3. ASSUME ask[a].turn # 0
      PROVE  Showing(a)'
  <2>1. Showing(a)
    BY <1>3 DEF StreamOf
  <2>2. \A i \in 1 .. ask[a].pos : i \in DOMAIN log /\ log'[i] = log[i]
    BY <1>1, <1>2, <2>1 DEF Showing, LogGrows
  <2>3. {i \in 1 .. ask[a].last : log'[i].turn = ask[a].turn} =
          {i \in 1 .. ask[a].last : log[i].turn = ask[a].turn}
    BY <1>2, <2>1, <2>2 DEF Showing
  <2>4. \A i \in ask[a].last + 1 .. ask[a].pos : log'[i].turn # ask[a].turn
    BY <1>2, <2>1, <2>2 DEF Showing
  <2>5. ask[a].pos <= Len(log')
    <3>1. Len(log) <= Len(log') /\ ask[a].pos <= Len(log)
      BY <2>1 DEF LogGrows, Showing
    <3>2. CASE ask[a].pos = 0
      BY <3>1, <1>1, <1>2
    <3>3. QED
      BY <3>1, <1>1, <1>2
  <2>6. ask[a].turn \in DOMAIN turns' /\ turns'[ask[a].turn].ask = a
    BY <2>1 DEF Showing, TurnsGrow
  <2>7. QED
    BY <2>1, <2>3, <2>4, <2>5, <2>6 DEF Showing, StreamKept
<1>4. ASSUME NamesNext(a)
      PROVE  NamesNext(a)'
  <2>1. PICK n \in Nat : n = ask[a].pos
    BY <1>2
  <2>2. \A i \in 1 .. n + 1 : i \in DOMAIN log /\ i \in DOMAIN log' /\ log'[i] = log[i]
    BY <1>1, <1>4, <2>1 DEF NamesNext, LogGrows
  <2>3. n + 1 \in DOMAIN log' /\ log'[n + 1] = log[n + 1] /\ n + 1 \in DOMAIN log
    BY <2>2
  <2>4. turns'[log'[n + 1].turn].ask = a
    BY <1>4, <2>1, <2>3 DEF NamesNext, EventsInv, TurnsGrow
  <2>5. \A i \in 1 .. n : log'[i].turn # log'[n + 1].turn
    BY <1>4, <2>1, <2>2, <2>3 DEF NamesNext
  <2>6. ask'[a].pos = n
    BY <2>1 DEF StreamKept
  <2>7. QED
    BY <2>3, <2>4, <2>5, <2>6 DEF NamesNext
<1>5. ASSUME ask[a].reason \in Ends
      PROVE  ask[a].turn # 0 /\ turns'[ask[a].turn].end = ask[a].reason
  <2>1. ask[a].turn # 0 /\ turns[ask[a].turn].end = ask[a].reason
    BY <1>5 DEF StreamOf
  <2>2. ask[a].turn \in DOMAIN turns
    BY <2>1 DEF StreamOf, Showing
  <2>3. QED
    BY <1>5, <2>1, <2>2, NoneAssumption DEF TurnsGrow
<1>6. QED
  BY <1>3, <1>4, <1>5

\* A stream that stays as it is, at a stage that asks no more of it.
LEMMA StreamStays ==
  ASSUME TurnsTyped, EventsInv, NEW a \in Asks, StreamOf(a), StreamKept(a),
         TurnsGrow, LogGrows,
         ask'[a].at \in Early \cup {"done"} => ask[a].turn = 0,
         ask'[a].at = "sleep" => ask[a].turn # 0,
         ask'[a].at = "stream" /\ ask[a].turn = 0 => NamesNext(a)
  PROVE  StreamOf(a)'
<1>1. /\ ask[a].turn # 0 => Showing(a)'
      /\ NamesNext(a) => NamesNext(a)'
      /\ ask[a].reason \in Ends => ask[a].turn # 0 /\ turns'[ask[a].turn].end = ask[a].reason
  BY StreamCarries
<1>2. /\ ask'[a].turn = ask[a].turn /\ ask'[a].last = ask[a].last
      /\ ask'[a].shown = ask[a].shown /\ ask'[a].reason = ask[a].reason
  BY DEF StreamKept
<1>3. ask[a].turn = 0 => ask[a].shown = <<>> /\ ask[a].last = 0
  BY DEF StreamOf
<1>4. QED
  BY <1>1, <1>2, <1>3 DEF StreamOf

\* An ask that is over has no stream.
LEMMA StreamOver ==
  ASSUME NEW a \in Asks, Ended(a)
  PROVE  StreamOf(a)'
BY NoneAssumption DEF Ended, StreamOf, Ends

\* The stream of an ask that has just been accepted starts before its turn.
LEMMA StreamOpens ==
  ASSUME TurnsTyped, EventsInv, NEW a \in Asks, StreamOf(a), Open(a), LogGrows,
         TurnsTyped'
  PROVE  StreamOf(a)'
<1>1. /\ ask[a].at = "open" /\ ask'[a].at = "stream" /\ ask'[a].pos = Len(log)
      /\ ask'[a].turn = ask[a].turn /\ ask'[a].last = ask[a].last
      /\ ask'[a].shown = ask[a].shown /\ ask'[a].reason = ask[a].reason
      /\ Taken(a)
  BY OpenDoes
<1>2. ask[a].turn = 0 /\ ask[a].shown = <<>> /\ ask[a].last = 0 /\ ask[a].reason \notin Ends
  BY <1>1 DEF StreamOf, Early
<1>3. /\ Len(turns) \in Nat /\ DOMAIN turns = 1 .. Len(turns)
      /\ Len(log) \in Nat /\ DOMAIN log = 1 .. Len(log)
  BY GatewayPlaces
<1>4. DOMAIN log' = 1 .. Len(log')
  BY LenProperties DEF TurnsTyped
<1>5. PICK n \in Nat, m \in Nat : n = Len(log) /\ m = Len(turns)
  BY <1>3
<1>6. n + 1 \in DOMAIN log' /\ log'[n + 1].turn = m + 1 /\ turns'[m + 1].ask = a
  BY <1>1, <1>4, <1>5 DEF Taken, Logged
<1>7. \A i \in 1 .. n : log'[i] = log[i] /\ log[i].turn \in 1 .. m
  BY <1>3, <1>5 DEF LogGrows, EventsInv
<1>8. \A i \in 1 .. n : log'[i].turn # m + 1
  BY <1>7
<1>9. ask'[a].pos = n
  BY <1>1, <1>5
<1>10. NamesNext(a)'
  BY <1>6, <1>8, <1>9 DEF NamesNext
<1>11. QED
  BY <1>1, <1>2, <1>10 DEF StreamOf, Early

\* The event after the last one read is shown, or is of another turn.
LEMMA StreamFed ==
  ASSUME TurnsTyped, EventsInv, NEW a \in Asks, StreamOf(a), Feed(a)
  PROVE  StreamOf(a)'
<1>1. /\ ask[a].turn \in Nat /\ ask[a].pos \in Nat /\ ask[a].last \in Nat
      /\ ask[a].shown \in Seq(Nat)
  BY AskFields DEF TurnsTyped
<1>2. PICK i \in Nat : i = ask[a].pos + 1
  BY <1>1
<1>3. /\ ask[a].at = "stream" /\ i \in DOMAIN log
      /\ PassesOver(a, i, TurnAfter(a, i)) \/ Shows(a, i, TurnAfter(a, i))
      /\ UNCHANGED <<turns, log>>
  BY <1>2, FeedDoes DEF GatewayKept
<1>4. Len(log) \in Nat /\ DOMAIN log = 1 .. Len(log) /\ DOMAIN turns = 1 .. Len(turns)
  BY GatewayPlaces
<1>5. ask[a].turn = 0 => ask[a].shown = <<>> /\ ask[a].last = 0 /\ NamesNext(a)
  BY <1>3 DEF StreamOf
<1>6. ask[a].turn # 0 => Showing(a)
  BY DEF StreamOf
<1>7. PICK t \in Nat : t = TurnAfter(a, i)
  BY <1>1, <1>3, GatewayPlaces DEF TurnAfter
<1>8. /\ t \in DOMAIN turns /\ t # 0 /\ turns[t].ask = a
      /\ ask[a].turn = t \/ (ask[a].turn = 0 /\ t = log[i].turn)
  <2>1. CASE ask[a].turn = 0
    BY <1>2, <1>3, <1>4, <1>5, <1>7, <2>1 DEF TurnAfter, NamesNext, EventsInv
  <2>2. CASE ask[a].turn # 0
    BY <1>4, <1>6, <1>7, <2>2 DEF TurnAfter, Showing
  <2>3. QED
    BY <2>1, <2>2
<1>9. /\ ask[a].last <= ask[a].pos
      /\ \A j \in ask[a].last + 1 .. ask[a].pos : log[j].turn # t
      /\ Ascending(ask[a].shown)
      /\ Members(ask[a].shown) = {j \in 1 .. ask[a].last : log[j].turn = t}
  <2>1. CASE ask[a].turn = 0
    <3>1. PICK n \in Nat : n = ask[a].pos
      BY <1>1
    <3>2. \A j \in 1 .. n : log[j].turn # t
      BY <1>2, <1>5, <1>8, <2>1, <3>1, <1>7 DEF NamesNext, TurnAfter
    <3>3. ask[a].shown = <<>> /\ ask[a].last = 0
      BY <1>5, <2>1
    <3>4. Len(<<>>) = 0 /\ 1 .. 0 = {}
      BY EmptySeq
    <3>5. Ascending(<<>>) /\ Members(<<>>) = {}
      BY <3>4 DEF Ascending, Members
    <3>6. QED
      BY <3>1, <3>2, <3>3, <3>4, <3>5
  <2>2. CASE ask[a].turn # 0
    <3>1. Showing(a) /\ ask[a].turn = t
      BY <1>6, <1>8, <2>2
    <3>2. QED
      BY <3>1 DEF Showing
  <2>3. QED
    BY <2>1, <2>2
<1>10. i > ask[a].last /\ i <= Len(log)
  BY <1>1, <1>2, <1>3, <1>4, <1>9
<1>11. CASE PassesOver(a, i, t)
  <2>1. log[i].turn # t /\ ask[a].turn = t
    BY <1>1, <1>8, <1>10, <1>11 DEF PassesOver
  <2>2. PICK m \in Nat, p \in Nat : m = ask[a].last /\ p = ask[a].pos
    BY <1>1
  <2>3. \A j \in m + 1 .. i : log[j].turn # t
    BY <1>2, <1>9, <2>1, <2>2
  <2>4. /\ ask'[a].turn = t /\ ask'[a].pos = i /\ ask'[a].last = m
        /\ ask'[a].shown = ask[a].shown /\ ask'[a].at = "stream"
        /\ ask'[a].reason = ask[a].reason
    BY <1>11, <2>2 DEF PassesOver
  <2>5. m <= i
    BY <1>10, <2>2
  <2>6. Showing(a)'
    BY <1>3, <1>8, <1>9, <1>10, <2>2, <2>3, <2>4, <2>5 DEF Showing
  <2>7. ask'[a].reason \in Ends => turns'[t].end = ask'[a].reason
    BY <1>3, <1>8, <2>1, <2>4 DEF StreamOf
  <2>8. QED
    BY <1>8, <2>4, <2>6, <2>7 DEF StreamOf, Early
<1>12. CASE Shows(a, i, t)
  <2>1. /\ ask'[a].turn = t /\ ask'[a].pos = i /\ ask'[a].last = i
        /\ ask'[a].shown = Append(ask[a].shown, i)
        /\ log[i].turn = t
        /\ \/ ask'[a].at = "stream" /\ ask'[a].reason = ask[a].reason
           \/ ask'[a].at = "finish" /\ ask'[a].reason = log[i].kind /\ log[i].kind \in Ends
    BY <1>12 DEF Shows
  <2>2. PICK m \in Nat, p \in Nat : m = ask[a].last /\ p = ask[a].pos
    BY <1>1
  <2>3. \A k \in Members(ask[a].shown) : k < i
    BY <1>9, <1>10, <2>2
  <2>4. /\ Ascending(ask'[a].shown)
        /\ Members(ask'[a].shown) = Members(ask[a].shown) \cup {i}
    BY <1>1, <1>9, <2>1, <2>3, AppendAscends
  <2>5. {j \in 1 .. i : log[j].turn = t} = {j \in 1 .. m : log[j].turn = t} \cup {i}
    BY <1>2, <1>9, <1>10, <2>1, <2>2
  <2>6. i <= i /\ \A j \in i + 1 .. i : log[j].turn # t
    OBVIOUS
  <2>7. Showing(a)'
    BY <1>3, <1>8, <1>9, <1>10, <2>1, <2>2, <2>4, <2>5, <2>6 DEF Showing
  <2>8. ask'[a].reason \in Ends => turns'[t].end = ask'[a].reason
    <3>1. CASE ask'[a].reason = ask[a].reason
      BY <1>3, <1>8, <3>1 DEF StreamOf
    <3>2. CASE ask'[a].reason = log[i].kind
      BY <1>3, <2>1, <3>2 DEF EventsInv
    <3>3. QED
      BY <2>1, <3>1, <3>2
  <2>9. QED
    BY <1>8, <2>1, <2>7, <2>8 DEF StreamOf, Early
<1>13. QED
  BY <1>3, <1>7, <1>11, <1>12

\* The stream of an ask at the end of one of its own steps.
LEMMA OwnStream ==
  ASSUME TurnsTyped, TurnsTyped', EventsInv, NEW a \in Asks, StreamOf(a), TurnsGrow, LogGrows,
         Begin(a) \/ Step(a) \/ Cut(a) \/ Leave(a)
  PROVE  StreamOf(a)' /\ OthersKept(a)
<1>1. ASSUME StreamKept(a), ask'[a].at \in Early \cup {"done"}, ask[a].at \in Early
      PROVE  StreamOf(a)'
  <2>1. ask[a].turn = 0
    BY <1>1 DEF StreamOf
  <2>2. ask'[a].at # "sleep" /\ ask'[a].at # "stream"
    BY <1>1 DEF Early
  <2>3. QED
    BY <1>1, <2>1, <2>2, StreamStays
<1>2. CASE Begin(a)
  BY <1>1, <1>2, BeginDoes DEF Early
<1>3. CASE Update(a)
  BY <1>1, <1>3, UpdateDoes DEF Early
<1>4. CASE Prepare(a)
  BY <1>1, <1>4, PrepareDoes DEF Early
<1>5. CASE Commit(a)
  BY <1>1, <1>5, CommitDoes DEF Early
<1>6. CASE Publish(a)
  BY <1>1, <1>6, PublishDoes DEF Early
<1>7. CASE Open(a)
  BY <1>7, OpenDoes, StreamOpens
<1>8. CASE Feed(a)
  <2>1. ask[a].pos + 1 = ask[a].pos + 1
    OBVIOUS
  <2>2. OthersKept(a)
    BY <1>8, <2>1, FeedDoes
  <2>3. QED
    BY <1>8, <2>2, StreamFed
<1>9. CASE Cut(a)
  <2>1. /\ OthersKept(a)
        /\ ask'[a].turn = ask[a].turn /\ ask'[a].pos = ask[a].pos
        /\ ask'[a].last = ask[a].last /\ ask'[a].shown = ask[a].shown
        /\ \/ ask'[a].at = "finish" /\ ask'[a].reason = "error"
           \/ ask'[a].at = "sleep" /\ ask'[a].reason = ask[a].reason /\ ask[a].turn # 0
        /\ UNCHANGED <<turns, log>>
    BY <1>9, CutDoes DEF GatewayKept
  <2>2. CASE ask'[a].at = "sleep" /\ ask'[a].reason = ask[a].reason /\ ask[a].turn # 0
    <3>1. ask'[a].at \notin Early \cup {"done", "stream"}
      BY <2>2 DEF Early
    <3>2. StreamKept(a)
      BY <2>1, <2>2 DEF StreamKept
    <3>3. QED
      BY <2>1, <2>2, <3>1, <3>2, StreamStays
  <2>3. CASE ask'[a].at = "finish" /\ ask'[a].reason = "error"
    <3>1. Showing(a) => Showing(a)'
      BY <2>1 DEF Showing
    <3>2. ask'[a].at \notin Early \cup {"done", "sleep", "stream"}
      BY <2>3 DEF Early
    <3>3. QED
      BY <2>1, <2>3, <3>1, <3>2 DEF StreamOf, Ends
  <2>4. QED
    BY <2>1, <2>2, <2>3
<1>10. CASE Resume(a)
  <2>1. /\ OthersKept(a)
        /\ ask[a].at = "sleep" /\ ask'[a].at = "stream" /\ ask'[a].turn = ask[a].turn
        /\ ask'[a].pos = ask[a].last /\ ask'[a].last = ask[a].last
        /\ ask'[a].shown = ask[a].shown /\ ask'[a].reason = ask[a].reason
        /\ UNCHANGED <<turns, log>>
    BY <1>10, ResumeDoes DEF GatewayKept
  <2>2. ask[a].turn # 0 /\ Showing(a)
    BY <2>1 DEF StreamOf
  <2>3. PICK m \in Nat, p \in Nat : m = ask[a].last /\ p = ask[a].pos
    BY AskFields DEF TurnsTyped
  <2>4. PICK n \in Nat : n = Len(log)
    BY GatewayPlaces
  <2>5. m <= m /\ m <= n /\ \A i \in m + 1 .. m : log[i].turn # ask[a].turn
    BY <2>2, <2>3, <2>4 DEF Showing
  <2>6. Showing(a)'
    BY <2>1, <2>2, <2>3, <2>4, <2>5 DEF Showing
  <2>7. QED
    BY <2>1, <2>2, <2>6 DEF StreamOf, Early
<1>11. CASE Finish(a)
  <2>1. ASSUME StreamKept(a), ask'[a].at = "write"
        PROVE  StreamOf(a)'
    BY <2>1, StreamStays DEF Early
  <2>2. QED
    BY <1>11, <2>1, FinishDoes, StreamOver
<1>12. CASE RollBack(a)
  BY <1>12, RollBackDoes, StreamOver
<1>13. CASE PublishFails(a) \/ WriteFails(a)
  BY <1>13, FailsDoes, StreamOver
<1>14. CASE OpenFails(a)
  BY <1>14, OpenFailsDoes, StreamOver
<1>15. CASE Leave(a)
  BY <1>15, LeaveDoes, StreamOver
<1>16. CASE Write(a)
  BY <1>16, WriteDoes, StreamOver
<1>17. QED
  BY <1>2, <1>3, <1>4, <1>5, <1>6, <1>7, <1>8, <1>9, <1>10, <1>11, <1>12, <1>13, <1>14, <1>15,
     <1>16 DEF Step

\* The stream of an ask when it does not move.
LEMMA StillStream ==
  ASSUME TurnsTyped, EventsInv, NEW b \in Asks, StreamOf(b), TurnsGrow, LogGrows,
         ask'[b] = ask[b]
  PROVE  StreamOf(b)'
<1>1. StreamKept(b)
  BY DEF StreamKept
<1>2. QED
  BY <1>1, StreamStays DEF StreamOf

LEMMA StreamsStep ==
  ASSUME TurnsTyped, TurnsTyped', EventsInv, StreamsInv, TurnsNext
  PROVE  StreamsInv'
<1>1. TurnsGrow /\ LogGrows
  BY GatewayGrows
<1>2. SUFFICES ASSUME NEW b \in Asks PROVE StreamOf(b)'
  BY DEF StreamsInv
<1>3. StreamOf(b)
  BY DEF StreamsInv
<1>4. ASSUME NEW a \in Asks, Begin(a) \/ Step(a) \/ Cut(a) \/ Leave(a)
      PROVE  StreamOf(b)'
  <2>1. StreamOf(a)' /\ OthersKept(a)
    BY <1>1, <1>4, OwnStream DEF StreamsInv
  <2>2. ASSUME a # b PROVE StreamOf(b)'
    BY <1>1, <1>3, <2>1, <2>2, StillStream DEF OthersKept
  <2>3. QED
    BY <2>1, <2>2
<1>5. ASSUME NEW t \in DOMAIN turns, Emit(t) \/ End(t)
      PROVE  StreamOf(b)'
  BY <1>1, <1>3, <1>5, EmitDoes, EndDoes, StillStream
<1>6. QED
  BY <1>4, <1>5 DEF TurnsNext

\* What the invariant says of the frames is what the property says.
LEMMA StreamsShow ==
  ASSUME StreamsInv, TurnsTyped
  PROVE  StreamShowsTheTurn
<1>1. SUFFICES ASSUME NEW a \in Asks, Len(ask[a].shown) > 0
               PROVE  /\ turns[ask[a].turn].ask = a
                      /\ \A k \in 1 .. Len(ask[a].shown) - 1 :
                           ask[a].shown[k] < ask[a].shown[k + 1]
                      /\ {ask[a].shown[k] : k \in 1 .. Len(ask[a].shown)} =
                            {i \in 1 .. ask[a].last : log[i].turn = ask[a].turn}
  BY DEF StreamShowsTheTurn
<1>2. ask[a].shown # <<>>
  BY <1>1, EmptySeq
<1>3. Showing(a)
  BY <1>2 DEF StreamsInv, StreamOf
<1>4. QED
  BY <1>3 DEF Showing, Ascending, Members

-----------------------------------------------------------------------------
\* An ask goes one way through its stages, and keeps the scope it began with.
Onwards(b) ==
  /\ ask[b].at # "idle" => ask'[b].scope = ask[b].scope
  /\ ask[b].at \notin Early => ask'[b].at \notin Early
  /\ ask[b].at = "open" => ask'[b].at \notin Early \ {"open"}
  /\ ask'[b].at = "open" => ask[b].at = "open" \/ Publish(b)

LEMMA AskOnwards ==
  ASSUME TurnsTyped, TurnsNext, NEW b \in Asks
  PROVE  Onwards(b)
<1>1. ASSUME ask'[b] = ask[b] PROVE Onwards(b)
  BY <1>1 DEF Onwards, Early
<1>2. ASSUME NEW a \in Asks, OthersKept(a), a = b => Onwards(b)
      PROVE  Onwards(b)
  BY <1>1, <1>2 DEF OthersKept
<1>3. ASSUME NEW a \in Asks, OthersKept(a), Ended(a)
      PROVE  Onwards(b)
  BY <1>2, <1>3 DEF Ended, Onwards, Early
<1>4. ASSUME NEW a \in Asks, Begin(a) PROVE Onwards(b)
  BY <1>2, <1>4, BeginDoes DEF Onwards, Early
<1>5. ASSUME NEW a \in Asks, Update(a) PROVE Onwards(b)
  BY <1>2, <1>5, UpdateDoes DEF Onwards, Early
<1>6. ASSUME NEW a \in Asks, Prepare(a) PROVE Onwards(b)
  BY <1>2, <1>6, PrepareDoes DEF Onwards, Early
<1>7. ASSUME NEW a \in Asks, Commit(a) PROVE Onwards(b)
  BY <1>2, <1>7, CommitDoes DEF Onwards, Early
<1>8. ASSUME NEW a \in Asks, Publish(a) PROVE Onwards(b)
  BY <1>2, <1>8, PublishDoes DEF Onwards, Early
<1>9. ASSUME NEW a \in Asks, Open(a) PROVE Onwards(b)
  BY <1>2, <1>9, OpenDoes DEF Onwards, Early
<1>10. ASSUME NEW a \in Asks, Feed(a) PROVE Onwards(b)
  BY <1>2, <1>10, FeedDoes DEF Onwards, Early, PassesOver, Shows
<1>11. ASSUME NEW a \in Asks, Cut(a) PROVE Onwards(b)
  BY <1>2, <1>11, CutDoes DEF Onwards, Early
<1>12. ASSUME NEW a \in Asks, Resume(a) PROVE Onwards(b)
  BY <1>2, <1>12, ResumeDoes DEF Onwards, Early
<1>13. ASSUME NEW a \in Asks, Finish(a) PROVE Onwards(b)
  <2>1. ASSUME StreamKept(a), ask'[a].at = "write", ask'[a].scope = ask[a].scope, OthersKept(a)
        PROVE  Onwards(b)
    BY <1>2, <2>1 DEF Onwards, Early
  <2>2. QED
    BY <1>3, <1>13, <2>1, FinishDoes
<1>14. ASSUME NEW a \in Asks, RollBack(a) \/ PublishFails(a) \/ WriteFails(a) \/ OpenFails(a)
                              \/ Leave(a) \/ Write(a)
       PROVE  Onwards(b)
  BY <1>3, <1>14, RollBackDoes, FailsDoes, OpenFailsDoes, LeaveDoes, WriteDoes
<1>15. ASSUME NEW t \in DOMAIN turns, Emit(t) \/ End(t)
       PROVE  Onwards(b)
  BY <1>1, <1>15, EmitDoes, EndDoes
<1>16. QED
  BY <1>4, <1>5, <1>6, <1>7, <1>8, <1>9, <1>10, <1>11, <1>12, <1>13, <1>14, <1>15
     DEF TurnsNext, Step

\* The asks of the turns: those there were, or one more that has just left "open".
LEMMA TurnsAsks ==
  ASSUME TurnsTyped, TurnsTyped', TurnsNext
  PROVE  \/ DOMAIN turns' = DOMAIN turns
         \/ \E a \in Asks : /\ Taken(a) /\ ask[a].at = "open" /\ ask'[a].at \notin Early
                            /\ DOMAIN turns' = DOMAIN turns \cup {Len(turns) + 1}
<1>1. /\ Len(turns) \in Nat /\ DOMAIN turns = 1 .. Len(turns)
      /\ Len(turns') \in Nat /\ DOMAIN turns' = 1 .. Len(turns')
  BY GatewayPlaces, LenProperties DEF TurnsTyped
<1>2. ASSUME NEW a \in Asks, Taken(a)
      PROVE  DOMAIN turns' = DOMAIN turns \cup {Len(turns) + 1}
  BY <1>1, <1>2 DEF Taken
<1>3. ASSUME NEW a \in Asks, Begin(a) \/ Cut(a) \/ Leave(a)
      PROVE  turns' = turns
  BY <1>3, BeginDoes, CutDoes, LeaveDoes DEF GatewayKept
<1>4. ASSUME NEW a \in Asks, Step(a), ~Open(a), ~OpenFails(a)
      PROVE  turns' = turns
  BY <1>4 DEF Step, Update, Prepare, Commit, RollBack, Publish, PublishFails, Feed, Resume,
              Finish, Write, WriteFails, Gateway
<1>5. ASSUME NEW a \in Asks, Open(a)
      PROVE  Taken(a) /\ ask[a].at = "open" /\ ask'[a].at \notin Early
  BY <1>5, OpenDoes DEF Early
<1>6. ASSUME NEW a \in Asks, OpenFails(a)
      PROVE  \/ Taken(a) /\ ask[a].at = "open" /\ ask'[a].at \notin Early
             \/ turns' = turns
  BY <1>6, OpenFailsDoes DEF Early, Ended
<1>7. ASSUME NEW t \in DOMAIN turns, Emit(t) \/ End(t)
      PROVE  DOMAIN turns' = DOMAIN turns
  BY <1>1, <1>7, EmitDoes, EndDoes DEF Stopped
<1>8. QED
  BY <1>2, <1>3, <1>4, <1>5, <1>6, <1>7 DEF TurnsNext

\* An ask whose turn was taken is past "open", and no other turn is its own.
AskedOnceInv ==
  /\ \A t \in DOMAIN turns : ask[turns[t].ask].at \notin Early
  /\ OneTurnPerAsk

LEMMA AskedOnceStep ==
  ASSUME TurnsTyped, TurnsTyped', AskedOnceInv, TurnsNext
  PROVE  AskedOnceInv'
<1>1. TurnsGrow
  BY GatewayGrows
<1>2. \A t \in DOMAIN turns : turns[t].ask \in Asks /\ turns'[t].ask = turns[t].ask
  BY <1>1, GatewayPlaces DEF TurnsGrow
<1>3. \A t \in DOMAIN turns : ask'[turns'[t].ask].at \notin Early
  BY <1>2, AskOnwards DEF AskedOnceInv, Onwards
<1>4. \A t, u \in DOMAIN turns : turns'[t].ask = turns'[u].ask => t = u
  BY <1>2 DEF AskedOnceInv, OneTurnPerAsk
<1>5. CASE DOMAIN turns' = DOMAIN turns
  BY <1>3, <1>4, <1>5 DEF AskedOnceInv, OneTurnPerAsk
<1>6. ASSUME NEW a \in Asks, Taken(a), ask[a].at = "open", ask'[a].at \notin Early,
             DOMAIN turns' = DOMAIN turns \cup {Len(turns) + 1}
      PROVE  AskedOnceInv'
  <2>1. turns'[Len(turns) + 1].ask = a
    BY <1>6 DEF Taken
  <2>2. \A t \in DOMAIN turns : turns'[t].ask # a
    BY <1>2, <1>6 DEF AskedOnceInv, Early
  <2>3. \A t \in DOMAIN turns' : ask'[turns'[t].ask].at \notin Early
    BY <1>3, <1>6, <2>1
  <2>4. OneTurnPerAsk'
    BY <1>4, <1>6, <2>1, <2>2 DEF OneTurnPerAsk
  <2>5. QED
    BY <2>3, <2>4 DEF AskedOnceInv
<1>7. QED
  BY <1>5, <1>6, TurnsAsks

-----------------------------------------------------------------------------
\* The scope that is published is the one of the ask, or of one published after it.
Finds(a) == mentions = ask[a].scope \/ \E b \in ghosts.since[a] : mentions = ask[b].scope

ScopesInv ==
  \A a \in Asks :
    /\ ask[a].at = "open" \/ (\E t \in DOMAIN turns : turns[t].ask = a) => Finds(a)
    /\ \A b \in ghosts.since[a] : ask[b].at \notin Early \ {"open"}

\* Only a publication changes the scope and who has published.
LEMMA ScopePublished ==
  ASSUME TurnsTyped, TurnsNext
  PROVE  \/ mentions' = mentions /\ ghosts'.since = ghosts.since /\ \A b \in Asks : ~Publish(b)
         \/ \E a \in Asks : Publish(a)
         \/ \E a \in Asks : PublishFails(a) /\ Replaced(a)
<1>1. ASSUME NEW a \in Asks, Begin(a) \/ Cut(a) \/ Leave(a)
      PROVE  mentions' = mentions /\ ghosts' = ghosts
  BY <1>1, BeginDoes, CutDoes, LeaveDoes
<1>2. ASSUME NEW a \in Asks, Step(a), ~Publish(a)
      PROVE  \/ mentions' = mentions /\ ghosts'.since = ghosts.since
             \/ PublishFails(a) /\ Replaced(a)
  BY <1>2, UpdateDoes, PrepareDoes, CommitDoes, RollBackDoes, FailsDoes, OpenDoes, OpenFailsDoes,
     FeedDoes, ResumeDoes, FinishDoes, WriteDoes DEF Step
<1>3. ASSUME NEW t \in DOMAIN turns, Emit(t) \/ End(t)
      PROVE  mentions' = mentions /\ ghosts' = ghosts
  BY <1>3, EmitDoes, EndDoes
<1>4. QED
  BY <1>1, <1>2, <1>3 DEF TurnsNext

LEMMA ScopesStep ==
  ASSUME TurnsTyped, TurnsTyped', AskedOnceInv, ScopesInv, TurnsNext
  PROVE  ScopesInv'
<1>1. \A a \in Asks : ghosts.since[a] \subseteq Asks
  BY DEF TurnsTyped
<1>2. ASSUME NEW a \in Asks, NEW b \in Asks, b \in ghosts.since[a]
      PROVE  ask'[b].scope = ask[b].scope /\ ask'[b].at \notin Early \ {"open"}
  <2>1. ask[b].at \notin Early \ {"open"}
    BY <1>2 DEF ScopesInv
  <2>2. QED
    BY <2>1, AskOnwards DEF Onwards, Early
<1>3. ASSUME NEW a \in Asks, ~Publish(a),
             ask'[a].at = "open" \/ \E t \in DOMAIN turns' : turns'[t].ask = a
      PROVE  Finds(a) /\ ask'[a].scope = ask[a].scope
  <2>1. ask[a].at = "open" \/ \E t \in DOMAIN turns : turns[t].ask = a
    <3>1. CASE ask'[a].at = "open"
      BY <1>3, <3>1, AskOnwards DEF Onwards
    <3>2. ASSUME NEW t \in DOMAIN turns', turns'[t].ask = a
          PROVE  ask[a].at = "open" \/ \E u \in DOMAIN turns : turns[u].ask = a
      <4>1. TurnsGrow
        BY GatewayGrows
      <4>2. CASE t \in DOMAIN turns
        BY <3>2, <4>1, <4>2 DEF TurnsGrow
      <4>3. CASE t \notin DOMAIN turns
        BY <3>2, <4>3, TurnsAsks DEF Taken
      <4>4. QED
        BY <4>2, <4>3
    <3>3. QED
      BY <1>3, <3>1, <3>2
  <2>2. ask[a].at # "idle"
    BY <2>1 DEF AskedOnceInv, Early
  <2>3. QED
    BY <2>1, <2>2, AskOnwards DEF ScopesInv, Onwards
<1>4. CASE mentions' = mentions /\ ghosts'.since = ghosts.since /\ \A b \in Asks : ~Publish(b)
  <2>1. SUFFICES ASSUME NEW a \in Asks
        PROVE  /\ ask'[a].at = "open" \/ (\E t \in DOMAIN turns' : turns'[t].ask = a) => Finds(a)'
               /\ \A b \in ghosts'.since[a] : ask'[b].at \notin Early \ {"open"}
    BY DEF ScopesInv
  <2>2. ASSUME ask'[a].at = "open" \/ (\E t \in DOMAIN turns' : turns'[t].ask = a)
        PROVE  Finds(a)'
    BY <1>1, <1>2, <1>3, <1>4, <2>2 DEF Finds
  <2>3. QED
    BY <1>1, <1>2, <1>4, <2>2
<1>5. ASSUME NEW p \in Asks, Publish(p) \/ (PublishFails(p) /\ Replaced(p))
      PROVE  ScopesInv'
  <2>1. /\ OthersKept(p) /\ ask'[p].at \in {"open", "done"} /\ ask'[p].scope = ask[p].scope
        /\ mentions' = ask[p].scope /\ ghosts'.since[p] = {}
        /\ \A b \in Asks : b # p => ghosts'.since[b] = ghosts.since[b] \cup {p}
    BY <1>5, PublishDoes, FailsDoes DEF Replaced, Ended
  <2>2. SUFFICES ASSUME NEW a \in Asks
        PROVE  Finds(a)' /\ \A b \in ghosts'.since[a] : ask'[b].at \notin Early \ {"open"}
    BY DEF ScopesInv
  <2>3. CASE a = p
    BY <2>1, <2>3 DEF Finds
  <2>4. CASE a # p
    <3>1. ghosts'.since[a] = ghosts.since[a] \cup {p}
      BY <2>1, <2>4
    <3>2. Finds(a)'
      BY <2>1, <3>1 DEF Finds
    <3>3. ask'[p].at \notin Early \ {"open"}
      BY <2>1 DEF Early
    <3>4. QED
      BY <1>1, <1>2, <3>1, <3>2, <3>3
  <2>5. QED
    BY <2>3, <2>4
<1>6. QED
  BY <1>4, <1>5, ScopePublished

LEMMA ScopesFound ==
  ASSUME TurnsTyped, ScopesInv
  PROVE  SearchesKeepTheScope
<1>1. \A t \in DOMAIN turns : turns[t].ask \in Asks
  BY GatewayPlaces
<1>2. QED
  BY <1>1 DEF ScopesInv, SearchesKeepTheScope, Finds, Running

-----------------------------------------------------------------------------
\* The transaction that reads the row again holds it.
LockedInv == \A a \in Asks : ask[a].at \in {"prepare", "commit"} => lock = a

\* While no session has been lost there is one at most, which the row or the transaction knows.
OneSession ==
  /\ sessions <= 1
  /\ row.session # 0 => row.session = sessions
  /\ \A a \in Asks : ask[a].at = "commit" => ask[a].session = 1 /\ sessions = 1
  /\ row.session = 0 /\ (\A a \in Asks : ask[a].at # "commit") => sessions = 0

SessionsInv == LockedInv /\ ("orphan" \in ghosts.marks \/ OneSession)

\* Outside of the transaction, asks come and go.
Idling(a) ==
  /\ OthersKept(a) /\ ask[a].at \notin {"prepare", "commit"}
  /\ ask'[a].at \notin {"prepare", "commit"}
  /\ lock' = lock /\ row'.session = row.session /\ sessions' = sessions
  /\ ghosts'.marks = ghosts.marks

LEMMA SessionsIdle ==
  ASSUME SessionsInv, NEW a \in Asks, Idling(a)
  PROVE  SessionsInv'
<1>1. \A b \in Asks : ask'[b].at \in {"prepare", "commit"} => b # a /\ ask'[b] = ask[b]
  BY DEF Idling, OthersKept
<1>2. \A b \in Asks : ask[b].at \in {"prepare", "commit"} => b # a /\ ask'[b] = ask[b]
  BY DEF Idling, OthersKept
<1>3. LockedInv'
  BY <1>1 DEF Idling, SessionsInv, LockedInv
<1>4. OneSession => OneSession'
  BY <1>1, <1>2 DEF Idling, OneSession
<1>5. QED
  BY <1>3, <1>4 DEF SessionsInv, Idling

LEMMA SessionsStep ==
  ASSUME TurnsTyped, SessionsInv, TurnsNext
  PROVE  SessionsInv'
<1>1. ASSUME NEW a \in Asks, Begin(a) PROVE SessionsInv'
  BY <1>1, BeginDoes, SessionsIdle DEF Idling, GatewayKept
<1>2. ASSUME NEW a \in Asks, Publish(a) PROVE SessionsInv'
  BY <1>2, PublishDoes, SessionsIdle DEF Idling, GatewayKept
<1>3. ASSUME NEW a \in Asks, PublishFails(a) \/ WriteFails(a) PROVE SessionsInv'
  BY <1>3, FailsDoes, SessionsIdle DEF Idling, GatewayKept, Ended
<1>4. ASSUME NEW a \in Asks, Open(a) PROVE SessionsInv'
  BY <1>4, OpenDoes, SessionsIdle DEF Idling
<1>5. ASSUME NEW a \in Asks, OpenFails(a) PROVE SessionsInv'
  BY <1>5, OpenFailsDoes, SessionsIdle DEF Idling, Ended
<1>6. ASSUME NEW a \in Asks, Feed(a) PROVE SessionsInv'
  BY <1>6, FeedDoes, SessionsIdle DEF Idling, GatewayKept, PassesOver, Shows
<1>7. ASSUME NEW a \in Asks, Cut(a) PROVE SessionsInv'
  BY <1>7, CutDoes, SessionsIdle DEF Idling, GatewayKept
<1>8. ASSUME NEW a \in Asks, Resume(a) PROVE SessionsInv'
  BY <1>8, ResumeDoes, SessionsIdle DEF Idling, GatewayKept
<1>9. ASSUME NEW a \in Asks, Leave(a) PROVE SessionsInv'
  BY <1>9, LeaveDoes, SessionsIdle DEF Idling, GatewayKept, Ended
<1>10. ASSUME NEW a \in Asks, Finish(a) PROVE SessionsInv'
  BY <1>10, FinishDoes, SessionsIdle DEF Idling, GatewayKept, Ended
<1>11. ASSUME NEW a \in Asks, Write(a) PROVE SessionsInv'
  BY <1>11, WriteDoes, SessionsIdle DEF Idling, GatewayKept, Ended
<1>12. ASSUME NEW t \in DOMAIN turns, Emit(t) \/ End(t) PROVE SessionsInv'
  BY <1>12, EmitDoes, EndDoes DEF SessionsInv, LockedInv, OneSession
<1>13. ASSUME NEW a \in Asks, Update(a) PROVE SessionsInv'
  <2>1. /\ OthersKept(a) /\ ask[a].at = "update" /\ ask'[a].at = "prepare"
        /\ lock = None /\ lock' = a /\ UNCHANGED <<row, ghosts>> /\ sessions' = sessions
    BY <1>13, UpdateDoes DEF GatewayKept
  <2>2. \A b \in Asks : ask[b].at \notin {"prepare", "commit"}
    BY <2>1, NoneAssumption DEF SessionsInv, LockedInv
  <2>3. \A b \in Asks : b # a => ask'[b].at \notin {"prepare", "commit"}
    BY <2>1, <2>2 DEF OthersKept
  <2>4. LockedInv'
    BY <2>1, <2>3 DEF LockedInv
  <2>5. \A b \in Asks : ask'[b].at # "commit" /\ ask[b].at # "commit"
    BY <2>1, <2>2, <2>3
  <2>6. OneSession => OneSession'
    BY <2>1, <2>5 DEF OneSession
  <2>7. QED
    BY <2>1, <2>4, <2>6 DEF SessionsInv
<1>14. ASSUME NEW a \in Asks, Prepare(a) PROVE SessionsInv'
  <2>1. /\ OthersKept(a) /\ ask[a].at = "prepare" /\ ask'[a].at = "commit"
        /\ row.session = 0 => sessions' = sessions + 1 /\ ask'[a].session = sessions + 1
        /\ row.session # 0 => sessions' = sessions /\ ask'[a].session = row.session
        /\ UNCHANGED <<row, lock, ghosts>>
    BY <1>14, PrepareDoes
  <2>2. lock = a
    BY <2>1 DEF SessionsInv, LockedInv
  <2>3. \A b \in Asks : b # a => /\ ask[b].at \notin {"prepare", "commit"}
                                 /\ ask'[b].at \notin {"prepare", "commit"}
    BY <2>1, <2>2 DEF SessionsInv, LockedInv, OthersKept
  <2>4. LockedInv'
    BY <2>1, <2>2, <2>3 DEF LockedInv
  <2>5. ASSUME OneSession PROVE OneSession'
    <3>1. sessions \in Nat /\ row.session \in Nat
      BY DEF TurnsTyped
    <3>2. sessions' = 1 /\ ask'[a].session = 1 /\ (row.session # 0 => row.session = 1)
      <4>1. CASE row.session = 0
        <5>1. \A b \in Asks : ask[b].at # "commit"
          BY <2>1, <2>3
        <5>2. sessions = 0
          BY <2>5, <4>1, <5>1 DEF OneSession
        <5>3. QED
          BY <2>1, <4>1, <5>2
      <4>2. CASE row.session # 0
        BY <2>1, <2>5, <3>1, <4>2 DEF OneSession
      <4>3. QED
        BY <4>1, <4>2
    <3>3. QED
      BY <2>1, <2>3, <3>2 DEF OneSession
  <2>6. QED
    BY <2>1, <2>4, <2>5 DEF SessionsInv
<1>15. ASSUME NEW a \in Asks, Commit(a) PROVE SessionsInv'
  <2>1. /\ OthersKept(a) /\ ask[a].at = "commit" /\ ask'[a].at = "publish"
        /\ row'.session = ask[a].session /\ UNCHANGED ghosts /\ sessions' = sessions
    BY <1>15, CommitDoes DEF GatewayKept
  <2>2. \A b \in Asks : ask'[b].at \notin {"prepare", "commit"}
    BY <2>1 DEF SessionsInv, LockedInv, OthersKept
  <2>3. LockedInv'
    BY <2>2 DEF LockedInv
  <2>4. OneSession => OneSession'
    BY <2>1, <2>2 DEF OneSession
  <2>5. QED
    BY <2>1, <2>3, <2>4 DEF SessionsInv
<1>16. ASSUME NEW a \in Asks, RollBack(a) PROVE SessionsInv'
  <2>1. /\ OthersKept(a) /\ ask'[a].at = "done" /\ ask[a].at \in {"prepare", "commit"}
        /\ ghosts'.marks = ghosts.marks \/ ghosts'.marks = ghosts.marks \cup {"orphan"}
        /\ ask[a].at = "commit" /\ ask[a].session # row.session => "orphan" \in ghosts'.marks
        /\ UNCHANGED row /\ sessions' = sessions
    BY <1>16, RollBackDoes DEF Ended, GatewayKept
  <2>2. \A b \in Asks : /\ ask'[b].at \notin {"prepare", "commit"}
                        /\ b # a => ask[b].at \notin {"prepare", "commit"}
    BY <2>1 DEF SessionsInv, LockedInv, OthersKept
  <2>3. LockedInv'
    BY <2>2 DEF LockedInv
  <2>4. ASSUME OneSession PROVE "orphan" \in ghosts'.marks \/ OneSession'
    <3>1. CASE ask[a].at = "commit" /\ ask[a].session # row.session
      BY <2>1, <3>1
    <3>2. CASE ask[a].at = "commit" /\ ask[a].session = row.session
      BY <2>1, <2>2, <2>4, <3>2 DEF OneSession
    <3>3. CASE ask[a].at = "prepare"
      BY <2>1, <2>2, <2>4, <3>3 DEF OneSession
    <3>4. QED
      BY <2>1, <3>1, <3>2, <3>3
  <2>5. QED
    BY <2>1, <2>3, <2>4 DEF SessionsInv
<1>17. QED
  BY <1>1, <1>2, <1>3, <1>4, <1>5, <1>6, <1>7, <1>8, <1>9, <1>10, <1>11, <1>12, <1>13, <1>14,
     <1>15, <1>16 DEF TurnsNext, Step

LEMMA SessionsOne ==
  ASSUME SessionsInv
  PROVE  OneGatewaySession
BY DEF SessionsInv, OneSession, OneGatewaySession

-----------------------------------------------------------------------------
\* The stages at which an ask knows whether the replay goes with its prompt.
Prefixed == {"commit", "publish", "open"}

\* While the row asks for the replay every prompt carries it.
ReplaysInv ==
  /\ row.replay =>
       /\ \A a \in Asks : ask[a].at \in Prefixed => ask[a].prefix
       /\ \A t \in DOMAIN turns : turns[t].prefix
  /\ ReplayIsHandedOver

\* What a step may do to the replay and to the prompts.
ReplayKept ==
  /\ row'.replay => row.replay
  /\ row.replay /\ ~row'.replay => \E a \in Asks : Write(a)
  /\ "imported" \in ghosts'.marks => "imported" \in ghosts.marks
PrefixKept(b) ==
  ask'[b].at \in Prefixed =>
    \/ ask'[b].prefix = row.replay
    \/ ask[b].at \in Prefixed /\ ask'[b].prefix = ask[b].prefix

LEMMA ReplaySteps ==
  ASSUME TurnsTyped, TurnsNext
  PROVE  ReplayKept
<1>1. ASSUME NEW a \in Asks, Begin(a) \/ Cut(a) \/ Leave(a)
      PROVE  ReplayKept
  BY <1>1, BeginDoes, CutDoes, LeaveDoes DEF ReplayKept
<1>2. ASSUME NEW a \in Asks, Update(a) \/ Prepare(a) \/ Feed(a) \/ Resume(a) \/ Finish(a)
      PROVE  ReplayKept
  BY <1>2, UpdateDoes, PrepareDoes, FeedDoes, ResumeDoes, FinishDoes DEF ReplayKept
<1>3. ASSUME NEW a \in Asks, Commit(a) \/ RollBack(a) \/ Publish(a)
      PROVE  ReplayKept
  <2>1. row'.replay = row.replay
    BY <1>3, CommitDoes, RollBackDoes, PublishDoes
  <2>2. "imported" \in ghosts'.marks => "imported" \in ghosts.marks
    BY <1>3, CommitDoes, RollBackDoes, PublishDoes
  <2>3. QED
    BY <2>1, <2>2 DEF ReplayKept
<1>4. ASSUME NEW a \in Asks, PublishFails(a) \/ WriteFails(a) \/ Open(a) \/ OpenFails(a)
      PROVE  ReplayKept
  BY <1>4, FailsDoes, OpenDoes, OpenFailsDoes DEF ReplayKept
<1>5. ASSUME NEW a \in Asks, Write(a)
      PROVE  ReplayKept
  BY <1>5, WriteDoes DEF ReplayKept
<1>6. ASSUME NEW t \in DOMAIN turns, Emit(t) \/ End(t)
      PROVE  ReplayKept
  BY <1>6, EmitDoes, EndDoes DEF ReplayKept
<1>7. QED
  BY <1>1, <1>2, <1>3, <1>4, <1>5, <1>6 DEF TurnsNext, Step

LEMMA PrefixSteps ==
  ASSUME TurnsTyped, TurnsNext, NEW b \in Asks
  PROVE  PrefixKept(b)
<1>1. ASSUME ask'[b] = ask[b] PROVE PrefixKept(b)
  BY <1>1 DEF PrefixKept
<1>2. ASSUME NEW a \in Asks, OthersKept(a), a = b => PrefixKept(b)
      PROVE  PrefixKept(b)
  BY <1>1, <1>2 DEF OthersKept
<1>3. ASSUME NEW a \in Asks, OthersKept(a), ask'[a].at \notin Prefixed
      PROVE  PrefixKept(b)
  BY <1>2, <1>3 DEF PrefixKept
<1>4. ASSUME NEW a \in Asks, Begin(a) PROVE PrefixKept(b)
  BY <1>3, <1>4, BeginDoes DEF Prefixed
<1>5. ASSUME NEW a \in Asks, Update(a) PROVE PrefixKept(b)
  BY <1>3, <1>5, UpdateDoes DEF Prefixed
<1>6. ASSUME NEW a \in Asks, Prepare(a) PROVE PrefixKept(b)
  BY <1>2, <1>6, PrepareDoes DEF PrefixKept
<1>7. ASSUME NEW a \in Asks, Commit(a) PROVE PrefixKept(b)
  BY <1>2, <1>7, CommitDoes DEF PrefixKept, Prefixed
<1>8. ASSUME NEW a \in Asks, Publish(a) PROVE PrefixKept(b)
  BY <1>2, <1>8, PublishDoes DEF PrefixKept, Prefixed
<1>9. ASSUME NEW a \in Asks, Open(a) PROVE PrefixKept(b)
  BY <1>3, <1>9, OpenDoes DEF Prefixed
<1>10. ASSUME NEW a \in Asks, Feed(a) PROVE PrefixKept(b)
  BY <1>3, <1>10, FeedDoes DEF Prefixed, PassesOver, Shows
<1>11. ASSUME NEW a \in Asks, Cut(a) PROVE PrefixKept(b)
  BY <1>3, <1>11, CutDoes DEF Prefixed
<1>12. ASSUME NEW a \in Asks, Resume(a) PROVE PrefixKept(b)
  BY <1>3, <1>12, ResumeDoes DEF Prefixed
<1>13. ASSUME NEW a \in Asks, Finish(a) PROVE PrefixKept(b)
  BY <1>3, <1>13, FinishDoes DEF Prefixed, Ended
<1>14. ASSUME NEW a \in Asks, RollBack(a) \/ PublishFails(a) \/ WriteFails(a) \/ OpenFails(a)
                              \/ Leave(a) \/ Write(a)
       PROVE  PrefixKept(b)
  BY <1>3, <1>14, RollBackDoes, FailsDoes, OpenFailsDoes, LeaveDoes, WriteDoes DEF Prefixed, Ended
<1>15. ASSUME NEW t \in DOMAIN turns, Emit(t) \/ End(t)
       PROVE  PrefixKept(b)
  BY <1>1, <1>15, EmitDoes, EndDoes
<1>16. QED
  BY <1>4, <1>5, <1>6, <1>7, <1>8, <1>9, <1>10, <1>11, <1>12, <1>13, <1>14, <1>15
     DEF TurnsNext, Step

LEMMA ReplaysStep ==
  ASSUME TurnsTyped, TurnsTyped', StreamsInv, ReplaysInv, TurnsNext
  PROVE  ReplaysInv'
<1>1. ReplayKept /\ TurnsGrow
  BY ReplaySteps, GatewayGrows
<1>2. ASSUME row'.replay
      PROVE  \A a \in Asks : ask'[a].at \in Prefixed => ask'[a].prefix
  BY <1>1, <1>2, PrefixSteps DEF ReplayKept, PrefixKept, ReplaysInv
<1>3. ASSUME row'.replay, NEW t \in DOMAIN turns'
      PROVE  turns'[t].prefix
  <2>1. CASE t \in DOMAIN turns
    BY <1>1, <1>3, <2>1 DEF ReplayKept, ReplaysInv, TurnsGrow
  <2>2. CASE t \notin DOMAIN turns
    <3>1. PICK a \in Asks : Taken(a) /\ ask[a].at = "open" /\ t = Len(turns) + 1
      BY <1>3, <2>2, TurnsAsks
    <3>2. ask[a].prefix
      BY <1>1, <1>3, <3>1 DEF ReplayKept, ReplaysInv, Prefixed
    <3>3. QED
      BY <3>1, <3>2 DEF Taken
  <2>3. QED
    BY <2>1, <2>2
<1>4. ASSUME "imported" \in ghosts'.marks, ~row'.replay
      PROVE  \E t \in DOMAIN turns' : turns'[t].prefix /\ turns'[t].end \in {"completed", "cancelled"}
  <2>1. \E t \in DOMAIN turns : turns[t].prefix /\ turns[t].end \in {"completed", "cancelled"}
    <3>1. CASE ~row.replay
      BY <1>1, <1>4, <3>1 DEF ReplayKept, ReplaysInv, ReplayIsHandedOver
    <3>2. CASE row.replay
      <4>1. PICK a \in Asks : Write(a)
        BY <1>1, <1>4, <3>2 DEF ReplayKept
      <4>2. Ok(a)
        BY <1>4, <3>2, <4>1, WriteDoes
      <4>3. ask[a].reason \in Ends
        BY <4>2 DEF Ok, Ends
      <4>4. /\ ask[a].turn \in DOMAIN turns
            /\ turns[ask[a].turn].end = ask[a].reason
        BY <4>3 DEF StreamsInv, StreamOf, Showing
      <4>5. turns[ask[a].turn].prefix
        BY <3>2, <4>4 DEF ReplaysInv
      <4>6. QED
        BY <4>2, <4>4, <4>5 DEF Ok
    <3>3. QED
      BY <3>1, <3>2
  <2>2. PICK t \in DOMAIN turns : turns[t].prefix /\ turns[t].end \in {"completed", "cancelled"}
    BY <2>1
  <2>3. turns[t].end # None
    BY <2>2, NoneAssumption DEF Ends
  <2>4. t \in DOMAIN turns' /\ turns'[t].prefix = turns[t].prefix /\ turns'[t].end = turns[t].end
    BY <1>1, <2>3 DEF TurnsGrow
  <2>5. QED
    BY <2>2, <2>4
<1>5. ReplayIsHandedOver'
  BY <1>4 DEF ReplayIsHandedOver
<1>6. QED
  BY <1>2, <1>3, <1>5 DEF ReplaysInv

-----------------------------------------------------------------------------
\* The inductive invariant of the asks and turns.
TurnsInv ==
  TurnsTyped /\ EventsInv /\ StreamsInv /\ AskedOnceInv /\ ScopesInv /\ SessionsInv /\ ReplaysInv

\* A new session, or one imported with its history.
LEMMA TurnsInvInit == TurnsInit => TurnsInv
<1>1. SUFFICES ASSUME TurnsInit PROVE TurnsInv
  OBVIOUS
<1>2. PICK imported \in BOOLEAN, session \in {0, 1} :
        /\ session = IF imported THEN 1 ELSE 0
        /\ row = [count |-> 0, session |-> session, replay |-> imported]
        /\ sessions = session
  BY <1>1 DEF TurnsInit
<1>3. /\ lock = None /\ mentions = None /\ ask = [a \in Asks |-> NewAsk]
      /\ turns = <<>> /\ log = <<>>
      /\ ghosts = [since |-> [a \in Asks |-> {}],
                   marks |-> IF row.replay THEN {"imported"} ELSE {}]
  BY <1>1 DEF TurnsInit
<1>4. Len(turns) = 0 /\ Len(log) = 0 /\ DOMAIN turns = {} /\ DOMAIN log = {}
  BY <1>3, EmptySeq
<1>5. /\ NewAsk \in AskType /\ NewAsk.at = "idle" /\ NewAsk.turn = 0 /\ NewAsk.last = 0
      /\ NewAsk.shown = <<>> /\ NewAsk.reason = None
  <2>1. "idle" \in Stages /\ <<>> \in Seq(Nat)
    BY StageNames, EmptySeq
  <2>2. QED
    BY <2>1 DEF NewAsk, AskType
<1>6. \A a \in Asks : ask[a] = NewAsk
  BY <1>3
<1>7. PICK marks \in SUBSET {"imported", "orphan"} :
        marks = IF row.replay THEN {"imported"} ELSE {}
  OBVIOUS
<1>8. /\ ghosts \in [since : [Asks -> SUBSET Asks], marks : SUBSET {"imported", "orphan"}]
      /\ ghosts.marks = marks /\ \A a \in Asks : ghosts.since[a] = {}
  BY <1>3, <1>7
<1>9. /\ row \in [count : Nat, session : Nat, replay : BOOLEAN]
      /\ row.session = session /\ row.replay = imported
  BY <1>2
<1>10. TurnsTyped
  <2>1. turns \in Seq(TurnType) /\ log \in Seq(EventType)
    BY <1>3, EmptySeq
  <2>2. QED
    BY <1>2, <1>3, <1>5, <1>8, <1>9, <2>1 DEF TurnsTyped
<1>11. EventsInv
  BY <1>4 DEF EventsInv
<1>12. StreamsInv
  BY <1>5, <1>6, NoneAssumption DEF StreamsInv, StreamOf, Ends
<1>13. AskedOnceInv
  BY <1>4 DEF AskedOnceInv, OneTurnPerAsk
<1>14. ScopesInv
  BY <1>4, <1>5, <1>6, <1>8 DEF ScopesInv
<1>15. SessionsInv
  <2>1. \A a \in Asks : ask[a].at \notin {"prepare", "commit"}
    BY <1>5, <1>6
  <2>2. sessions = session /\ row.session = session /\ session \in {0, 1}
    BY <1>2, <1>9
  <2>3. QED
    BY <2>1, <2>2 DEF SessionsInv, LockedInv, OneSession
<1>16. ReplaysInv
  BY <1>4, <1>5, <1>6, <1>7, <1>8 DEF ReplaysInv, ReplayIsHandedOver, Prefixed
<1>17. QED
  BY <1>10, <1>11, <1>12, <1>13, <1>14, <1>15, <1>16 DEF TurnsInv

LEMMA TurnsInvStep == TurnsInv /\ [TurnsNext]_turnsVars => TurnsInv'
<1>1. SUFFICES ASSUME TurnsInv, [TurnsNext]_turnsVars PROVE TurnsInv'
  OBVIOUS
<1>2. CASE TurnsNext
  <2>1. TurnsTyped'
    BY <1>1, <1>2, TurnsTypedStep DEF TurnsInv
  <2>2. EventsInv' /\ StreamsInv' /\ AskedOnceInv' /\ SessionsInv'
    BY <1>1, <1>2, <2>1, EventsStep, StreamsStep, AskedOnceStep, SessionsStep DEF TurnsInv
  <2>3. ScopesInv' /\ ReplaysInv'
    BY <1>1, <1>2, <2>1, ScopesStep, ReplaysStep DEF TurnsInv
  <2>4. QED
    BY <2>1, <2>2, <2>3 DEF TurnsInv
<1>3. CASE UNCHANGED turnsVars
  BY <1>1, <1>3 DEF turnsVars, TurnsInv, TurnsTyped, EventsInv, StreamsInv, StreamOf, Showing,
                    NamesNext, AskedOnceInv, OneTurnPerAsk, ScopesInv, Finds, SessionsInv,
                    LockedInv, OneSession, ReplaysInv, ReplayIsHandedOver
<1>4. QED
  BY <1>1, <1>2, <1>3

LEMMA TurnsInvariant == TurnsSpec => []TurnsInv
BY TurnsInvInit, TurnsInvStep, PTL DEF TurnsSpec

-----------------------------------------------------------------------------
(* The types with their bounds: the counters of the row and of the asks. *)

\* The asks that have committed, those that are over, and how often the row was counted up.
WhoCommitted == {a \in Asks : ask[a].at \notin {"idle", "update", "prepare", "commit"}}
WhoEnded == {a \in Asks : ask[a].at = "done"}
Counted == Cardinality(WhoCommitted) + Cardinality(WhoEnded)

BoundsOf(a) ==
  /\ ask[a].resumes <= MaxResumes
  /\ ask[a].pos <= Len(log)
  /\ ask[a].at = "commit" => ask[a].session <= sessions
BoundsInv ==
  /\ faults \in 0 .. MaxFaults
  /\ row.session <= sessions
  /\ \A a \in Asks : BoundsOf(a)
CountsInv == row.count <= Counted /\ \A a \in Asks : ask[a].seen <= Counted

\* What a step may make of the counters of an ask.
CountersOf(a) ==
  /\ ask'[a].resumes = ask[a].resumes \/ ask'[a].resumes <= MaxResumes
  /\ \/ ask'[a].pos = ask[a].pos
     \/ ask'[a].pos = 0
     \/ ask'[a].pos = ask[a].last
     \/ ask'[a].pos = ask[a].pos + 1 /\ ask[a].pos + 1 <= Len(log)
     \/ ask'[a].pos = Len(log)
  /\ ask'[a].seen \in {ask[a].seen, row.count, 0}

LEMMA OverCounters ==
  ASSUME ask \in [Asks -> AskType], NEW a \in Asks, ask' = [ask EXCEPT ![a] = Over(a)]
  PROVE  CountersOf(a)
<1>1. ask'[a] = Over(a)
  OBVIOUS
<1>2. Over(a).resumes = 0 /\ Over(a).pos = 0 /\ Over(a).seen = 0
  BY DEF Over, NewAsk
<1>3. QED
  BY <1>1, <1>2, BoundsAssumption DEF CountersOf

LEMMA Counters ==
  ASSUME TurnsTyped, NEW a \in Asks, Begin(a) \/ Step(a) \/ Cut(a) \/ Leave(a)
  PROVE  CountersOf(a)
<1>1. ask \in [Asks -> AskType] /\ ask[a] \in AskType
  BY DEF TurnsTyped
<1>2. ASSUME Begin(a) \/ Goes(a, "update", "prepare") \/ Prepare(a) \/ Commit(a)
             \/ Goes(a, "publish", "open")
      PROVE  /\ ask'[a].resumes = ask[a].resumes /\ ask'[a].pos = ask[a].pos
             /\ ask'[a].seen \in {ask[a].seen, row.count, 0}
  BY <1>1, <1>2 DEF Begin, Goes, Prepare, Commit, AskType
<1>3. CASE Begin(a) \/ Update(a) \/ Prepare(a) \/ Commit(a) \/ Publish(a)
  BY <1>2, <1>3 DEF Update, Publish, CountersOf
<1>4. CASE RollBack(a) \/ PublishFails(a) \/ WriteFails(a) \/ OpenFails(a) \/ Leave(a) \/ Write(a)
  BY <1>1, <1>4, OverCounters
     DEF RollBack, PublishFails, WriteFails, OpenFails, Leave, Write, Leaves
<1>5. CASE Open(a)
  <2>1. ask'[a].resumes = ask[a].resumes /\ ask'[a].pos = Len(log) /\ ask'[a].seen = ask[a].seen
    BY <1>1, <1>5 DEF Open, AskType
  <2>2. QED
    BY <2>1 DEF CountersOf
<1>6. CASE Feed(a)
  <2>1. /\ ask'[a].resumes = ask[a].resumes /\ ask'[a].pos = ask[a].pos + 1
        /\ ask[a].pos + 1 <= Len(log) /\ ask'[a].seen = ask[a].seen
    BY <1>1, <1>6 DEF Feed, AskType
  <2>2. QED
    BY <2>1 DEF CountersOf
<1>7. CASE Cut(a)
  <2>1. ask'[a].pos = ask[a].pos /\ ask'[a].seen = ask[a].seen
    BY <1>1, <1>7 DEF Cut, Interrupted, AskType
  <2>2. ask'[a].resumes = ask[a].resumes
        \/ (ask'[a].resumes = ask[a].resumes + 1 /\ ~(ask[a].resumes >= MaxResumes))
    BY <1>1, <1>7 DEF Cut, Interrupted, AskType
  <2>3. ask[a].resumes \in Nat
    BY <1>1, AskFields
  <2>4. QED
    BY <2>1, <2>2, <2>3, BoundsAssumption DEF CountersOf
<1>8. CASE Resume(a)
  <2>1. ask'[a].resumes = ask[a].resumes /\ ask'[a].pos = ask[a].last /\ ask'[a].seen = ask[a].seen
    BY <1>1, <1>8 DEF Resume, AskType
  <2>2. QED
    BY <2>1 DEF CountersOf
<1>9. CASE Finish(a)
  <2>1. CASE ask' = [ask EXCEPT ![a] = Over(a)]
    BY <1>1, <2>1, OverCounters
  <2>2. CASE ask' = [ask EXCEPT ![a] = [ask[a] EXCEPT !.at = "write", !.seen = row.count]]
    <3>1. ask'[a].resumes = ask[a].resumes /\ ask'[a].pos = ask[a].pos /\ ask'[a].seen = row.count
      BY <1>1, <2>2 DEF AskType
    <3>2. QED
      BY <3>1 DEF CountersOf
  <2>3. QED
    BY <1>9, <2>1, <2>2 DEF Finish
<1>10. QED
  BY <1>3, <1>4, <1>5, <1>6, <1>7, <1>8, <1>9 DEF Step

\* Sessions are only added.
SessionsGrow ==
  /\ sessions' \in Nat /\ sessions <= sessions'
  /\ row'.session = row.session \/ \E a \in Asks : ask[a].at = "commit" /\ row'.session = ask[a].session
  /\ \A a \in Asks : ask'[a].at = "commit" =>
       \/ ask[a].at = "commit" /\ ask'[a].session = ask[a].session
       \/ ask'[a].session = sessions' \/ ask'[a].session = row.session

LEMMA SessionSteps ==
  ASSUME TurnsTyped, TurnsNext
  PROVE  SessionsGrow
<1>1. sessions \in Nat
  BY DEF TurnsTyped
<1>2. ASSUME NEW a \in Asks, OthersKept(a), ask'[a].at # "commit",
             sessions' = sessions, row'.session = row.session
      PROVE  SessionsGrow
  BY <1>1, <1>2 DEF SessionsGrow, OthersKept
<1>3. ASSUME NEW a \in Asks, Begin(a) \/ Leave(a) \/ Cut(a)
      PROVE  SessionsGrow
  BY <1>2, <1>3, BeginDoes, LeaveDoes, CutDoes DEF GatewayKept, Ended
<1>4. ASSUME NEW a \in Asks, Update(a) \/ Publish(a) \/ RollBack(a)
      PROVE  SessionsGrow
  BY <1>2, <1>4, UpdateDoes, PublishDoes, RollBackDoes DEF GatewayKept, Ended
<1>5. ASSUME NEW a \in Asks, Open(a) \/ OpenFails(a) \/ PublishFails(a) \/ WriteFails(a)
      PROVE  SessionsGrow
  BY <1>2, <1>5, OpenDoes, OpenFailsDoes, FailsDoes DEF GatewayKept, Ended
<1>6. ASSUME NEW a \in Asks, Feed(a)
      PROVE  SessionsGrow
  BY <1>2, <1>6, FeedDoes DEF GatewayKept, PassesOver, Shows
<1>7. ASSUME NEW a \in Asks, Resume(a) \/ Finish(a) \/ Write(a)
      PROVE  SessionsGrow
  BY <1>2, <1>7, ResumeDoes, FinishDoes, WriteDoes DEF GatewayKept, Ended
<1>8. ASSUME NEW a \in Asks, Prepare(a)
      PROVE  SessionsGrow
  <2>1. /\ OthersKept(a) /\ sessions' \in Nat /\ row' = row
        /\ row.session = 0 => sessions' = sessions + 1 /\ ask'[a].session = sessions + 1
        /\ row.session # 0 => sessions' = sessions /\ ask'[a].session = row.session
    BY <1>8, PrepareDoes
  <2>2. sessions <= sessions'
    BY <1>1, <2>1
  <2>3. QED
    BY <2>1, <2>2 DEF SessionsGrow, OthersKept
<1>9. ASSUME NEW a \in Asks, Commit(a)
      PROVE  SessionsGrow
  BY <1>1, <1>9, CommitDoes DEF GatewayKept, SessionsGrow, OthersKept
<1>10. ASSUME NEW t \in DOMAIN turns, Emit(t) \/ End(t)
      PROVE  SessionsGrow
  BY <1>1, <1>10, EmitDoes, EndDoes DEF SessionsGrow
<1>11. QED
  BY <1>3, <1>4, <1>5, <1>6, <1>7, <1>8, <1>9, <1>10 DEF TurnsNext, Step

LEMMA BoundsStep ==
  ASSUME TurnsTyped, TurnsTyped', StreamsInv, BoundsInv, TurnsNext
  PROVE  BoundsInv'
<1>1. SessionsGrow /\ LogGrows
  BY SessionSteps, GatewayGrows
<1>2. /\ sessions \in Nat /\ sessions' \in Nat /\ row.session \in Nat
      /\ Len(log) \in Nat /\ Len(log') \in Nat
      /\ \A a \in Asks : ask[a] \in AskType /\ ask'[a] \in AskType
  BY LenProperties DEF TurnsTyped
<1>3. row'.session <= sessions'
  <2>1. row'.session <= sessions
    BY <1>1 DEF SessionsGrow, BoundsInv, BoundsOf
  <2>2. row'.session \in Nat
    BY DEF TurnsTyped
  <2>3. QED
    BY <1>1, <1>2, <2>1, <2>2 DEF SessionsGrow
<1>4. ASSUME NEW a \in Asks
      PROVE  ask'[a].at = "commit" => ask'[a].session <= sessions'
  <2>1. ask'[a].session \in Nat /\ ask[a].session \in Nat
    BY <1>2, AskFields
  <2>2. QED
    BY <1>1, <1>2, <2>1 DEF SessionsGrow, BoundsInv, BoundsOf
<1>5. ASSUME NEW a \in Asks, CountersOf(a) \/ ask'[a] = ask[a]
      PROVE  ask'[a].resumes <= MaxResumes /\ ask'[a].pos <= Len(log')
  <2>1. /\ ask[a].pos \in Nat /\ ask[a].last \in Nat /\ ask'[a].pos \in Nat
        /\ ask[a].resumes \in Nat
    BY <1>2, AskFields
  <2>2. ask[a].pos <= Len(log) /\ ask[a].resumes <= MaxResumes
    BY DEF BoundsInv, BoundsOf
  <2>3. ask[a].last <= Len(log)
    BY <1>2, <2>1, <2>2 DEF StreamsInv, StreamOf, Showing
  <2>4. ask'[a].pos <= Len(log)
    BY <1>2, <1>5, <2>1, <2>2, <2>3 DEF CountersOf
  <2>5. ask'[a].pos <= Len(log')
    BY <1>1, <1>2, <2>1, <2>4 DEF LogGrows
  <2>6. ask'[a].resumes <= MaxResumes
    BY <1>5, <2>2 DEF CountersOf
  <2>7. QED
    BY <2>5, <2>6
<1>6. ASSUME NEW b \in Asks
      PROVE  CountersOf(b) \/ ask'[b] = ask[b]
  <2>1. ASSUME NEW a \in Asks, Begin(a) \/ Step(a) \/ Cut(a) \/ Leave(a)
        PROVE  CountersOf(a) /\ OthersKept(a)
    <3>1. TurnsGrow /\ LogGrows
      BY GatewayGrows
    <3>2. CountersOf(a)
      BY <2>1, Counters
    <3>3. OthersKept(a)
      BY <2>1, BeginDoes, UpdateDoes, PrepareDoes, CommitDoes, RollBackDoes, PublishDoes, FailsDoes,
         OpenDoes, OpenFailsDoes, FeedDoes, CutDoes, ResumeDoes, LeaveDoes, FinishDoes, WriteDoes
         DEF Step
    <3>4. QED
      BY <3>2, <3>3
  <2>2. ASSUME NEW t \in DOMAIN turns, Emit(t) \/ End(t)
        PROVE  ask' = ask
    BY <2>2, EmitDoes, EndDoes
  <2>3. QED
    BY <2>1, <2>2 DEF TurnsNext, OthersKept
<1>7. faults' \in 0 .. MaxFaults
  <2>1. faults' = faults \/ FaultHappens
    BY DEF TurnsNext, Step, Begin, Update, Prepare, Commit, RollBack, Publish, PublishFails, Open,
           OpenFails, Feed, Cut, Resume, Leave, Finish, Write, WriteFails, Emit, End
  <2>2. QED
    BY <2>1, BoundsAssumption DEF BoundsInv, FaultHappens
<1>8. QED
  BY <1>3, <1>4, <1>5, <1>6, <1>7 DEF BoundsInv, BoundsOf

\* The count of the row grows by what commits and ends.
Counting ==
  /\ \A a \in Asks : ask'[a].seen \in {ask[a].seen, row.count, 0}
  /\ WhoCommitted \subseteq WhoCommitted' /\ WhoEnded \subseteq WhoEnded'
  /\ \/ row'.count = row.count
     \/ \E a \in Asks : /\ row'.count = ask[a].seen + 1
                        /\ a \in WhoCommitted' \ WhoCommitted \/ a \in WhoEnded' \ WhoEnded

LEMMA CountSteps ==
  ASSUME TurnsTyped, TurnsNext
  PROVE  Counting
<1> DEFINE Before == {"idle", "update", "prepare", "commit"}
<1>1. ASSUME NEW a \in Asks, OthersKept(a), CountersOf(a),
             ask'[a].at \in Before => ask[a].at \in Before,
             ask[a].at = "done" => ask'[a].at = "done"
      PROVE  /\ \A b \in Asks : ask'[b].seen \in {ask[b].seen, row.count, 0}
             /\ WhoCommitted \subseteq WhoCommitted' /\ WhoEnded \subseteq WhoEnded'
  <2>1. \A b \in Asks : ask'[b].seen \in {ask[b].seen, row.count, 0}
    BY <1>1 DEF OthersKept, CountersOf
  <2>2. \A b \in Asks : /\ ask'[b].at \in Before => ask[b].at \in Before
                        /\ ask[b].at = "done" => ask'[b].at = "done"
    BY <1>1 DEF OthersKept
  <2>3. QED
    BY <2>1, <2>2 DEF WhoCommitted, WhoEnded
<1>2. ASSUME NEW a \in Asks, OthersKept(a), CountersOf(a), row'.count = row.count,
             ask'[a].at \in Before => ask[a].at \in Before,
             ask[a].at = "done" => ask'[a].at = "done"
      PROVE  Counting
  BY <1>1, <1>2 DEF Counting
<1>3. ASSUME NEW a \in Asks, Begin(a) \/ Cut(a) \/ Leave(a)
      PROVE  Counting
  BY <1>2, <1>3, Counters, BeginDoes, CutDoes, LeaveDoes DEF Ended
<1>4. ASSUME NEW a \in Asks, Update(a) \/ Prepare(a) \/ Publish(a)
      PROVE  Counting
  BY <1>2, <1>4, Counters, UpdateDoes, PrepareDoes, PublishDoes DEF Step
<1>5. ASSUME NEW a \in Asks, RollBack(a) \/ PublishFails(a) \/ WriteFails(a) \/ OpenFails(a)
      PROVE  Counting
  BY <1>2, <1>5, Counters, RollBackDoes, FailsDoes, OpenFailsDoes DEF Step, Ended
<1>6. ASSUME NEW a \in Asks, Open(a) \/ Resume(a)
      PROVE  Counting
  BY <1>2, <1>6, Counters, OpenDoes, ResumeDoes DEF Step
<1>7. ASSUME NEW a \in Asks, Finish(a)
      PROVE  Counting
  BY <1>2, <1>7, Counters, FinishDoes DEF Step, Ended
<1>8. ASSUME NEW a \in Asks, Feed(a)
      PROVE  Counting
  BY <1>2, <1>8, Counters, FeedDoes DEF Step, PassesOver, Shows
<1>9. ASSUME NEW a \in Asks, Commit(a)
      PROVE  Counting
  <2>1. /\ OthersKept(a) /\ ask[a].at = "commit" /\ ask'[a].at = "publish" /\ CountersOf(a)
    BY <1>9, CommitDoes, Counters DEF Step
  <2>2. row'.count = ask[a].seen + 1
    <3>1. row \in [count : Nat, session : Nat, replay : BOOLEAN]
      BY DEF TurnsTyped
    <3>2. QED
      BY <1>9, <3>1 DEF Commit
  <2>3. a \in WhoCommitted' \ WhoCommitted
    BY <2>1 DEF WhoCommitted
  <2>4. QED
    BY <1>1, <2>1, <2>2, <2>3 DEF Counting
<1>10. ASSUME NEW a \in Asks, Write(a)
      PROVE  Counting
  <2>1. /\ OthersKept(a) /\ ask[a].at = "write" /\ ask'[a].at = "done" /\ CountersOf(a)
    BY <1>10, WriteDoes, Counters DEF Step, Ended
  <2>2. row'.count = ask[a].seen + 1 \/ row'.count = row.count
    <3>1. row \in [count : Nat, session : Nat, replay : BOOLEAN]
      BY DEF TurnsTyped
    <3>2. QED
      BY <1>10, <3>1 DEF Write
  <2>3. a \in WhoEnded' \ WhoEnded
    BY <2>1 DEF WhoEnded
  <2>4. QED
    BY <1>1, <2>1, <2>2, <2>3 DEF Counting
<1>11. ASSUME NEW t \in DOMAIN turns, Emit(t) \/ End(t)
      PROVE  Counting
  BY <1>11, EmitDoes, EndDoes DEF Counting, WhoCommitted, WhoEnded
<1>12. QED
  BY <1>3, <1>4, <1>5, <1>6, <1>7, <1>8, <1>9, <1>10, <1>11 DEF TurnsNext, Step

\* A finite set that grows has no fewer members, and one more when it gains one.
LEMMA GrowingSet ==
  ASSUME NEW S, IsFiniteSet(S), NEW T \in SUBSET S, NEW U \in SUBSET S, T \subseteq U
  PROVE  /\ Cardinality(T) \in Nat /\ Cardinality(U) \in Nat
         /\ Cardinality(T) <= Cardinality(U)
         /\ Cardinality(U) <= Cardinality(S)
         /\ T # U => Cardinality(T) + 1 <= Cardinality(U)
<1>1. IsFiniteSet(T) /\ IsFiniteSet(U) /\ Cardinality(U) <= Cardinality(S)
  BY FS_Subset
<1>2. Cardinality(T) <= Cardinality(U) /\ (Cardinality(U) = Cardinality(T) => U = T)
  BY <1>1, FS_Subset
<1>3. Cardinality(T) \in Nat /\ Cardinality(U) \in Nat
  BY <1>1, FS_CardinalityType
<1>4. QED
  BY <1>1, <1>2, <1>3

LEMMA CountsStep ==
  ASSUME IsFiniteSet(Asks), TurnsTyped, TurnsTyped', CountsInv, TurnsNext
  PROVE  CountsInv'
<1>1. Counting
  BY CountSteps
<1>2. PICK c \in Nat, e \in Nat, d \in Nat, f \in Nat :
        /\ c = Cardinality(WhoCommitted) /\ e = Cardinality(WhoEnded)
        /\ d = Cardinality(WhoCommitted') /\ f = Cardinality(WhoEnded')
        /\ c <= d /\ e <= f
        /\ WhoCommitted # WhoCommitted' => c + 1 <= d
        /\ WhoEnded # WhoEnded' => e + 1 <= f
  <2>1. /\ WhoCommitted \in SUBSET Asks /\ WhoEnded \in SUBSET Asks
        /\ WhoCommitted' \in SUBSET Asks /\ WhoEnded' \in SUBSET Asks
    BY DEF WhoCommitted, WhoEnded
  <2>2. WhoCommitted \subseteq WhoCommitted' /\ WhoEnded \subseteq WhoEnded'
    BY <1>1 DEF Counting
  <2>3. QED
    BY <2>1, <2>2, GrowingSet
<1>3. Counted = c + e /\ Counted' = d + f
  BY <1>2 DEF Counted
<1>4. /\ row.count \in Nat /\ row'.count \in Nat
      /\ \A a \in Asks : ask[a].seen \in Nat
  BY AskFields DEF TurnsTyped
<1>5. row.count <= c + e /\ \A a \in Asks : ask[a].seen <= c + e
  BY <1>3 DEF CountsInv
<1>6. \A a \in Asks : ask'[a].seen <= d + f
  BY <1>1, <1>2, <1>4, <1>5 DEF Counting
<1>7. row'.count <= d + f
  <2>1. CASE row'.count = row.count
    BY <1>2, <1>4, <1>5, <2>1
  <2>2. ASSUME NEW a \in Asks, row'.count = ask[a].seen + 1,
               a \in WhoCommitted' \ WhoCommitted \/ a \in WhoEnded' \ WhoEnded
        PROVE  row'.count <= d + f
    <3>1. c + e + 1 <= d + f
      <4>1. c + 1 <= d \/ e + 1 <= f
        BY <1>2, <2>2
      <4>2. QED
        BY <1>2, <4>1
    <3>2. QED
      BY <1>2, <1>4, <1>5, <2>2, <3>1
  <2>3. QED
    BY <1>1, <2>1, <2>2 DEF Counting
<1>8. QED
  BY <1>3, <1>6, <1>7 DEF CountsInv

\* The bounds of the types.
LEMMA BoundedTypes ==
  ASSUME IsFiniteSet(Asks), TurnsInv, BoundsInv, CountsInv
  PROVE  TurnsTypeOK
<1>1. TurnsTyped /\ StreamsInv /\ EventsInv
  BY DEF TurnsInv
<1>2. Counted <= 2 * Cardinality(Asks) /\ Counted \in Nat /\ 2 * Cardinality(Asks) \in Nat
  <2>1. WhoCommitted \in SUBSET Asks /\ WhoEnded \in SUBSET Asks
    BY DEF WhoCommitted, WhoEnded
  <2>2. PICK c \in Nat, e \in Nat, n \in Nat :
          /\ c = Cardinality(WhoCommitted) /\ e = Cardinality(WhoEnded) /\ n = Cardinality(Asks)
          /\ c <= n /\ e <= n
    BY <2>1, GrowingSet, FS_CardinalityType
  <2>3. QED
    BY <2>2 DEF Counted
<1>3. row \in [count : 0 .. 2 * Cardinality(Asks), session : 0 .. sessions, replay : BOOLEAN]
  <2>1. PICK n \in Nat, m \in Nat : n = 2 * Cardinality(Asks) /\ m = sessions
    BY <1>1, <1>2 DEF TurnsTyped
  <2>2. row \in [count : Nat, session : Nat, replay : BOOLEAN]
    BY <1>1 DEF TurnsTyped
  <2>3. row.count <= n /\ row.session <= m
    BY <1>2, <2>1, <2>2 DEF CountsInv, BoundsInv
  <2>4. row.count \in 0 .. n /\ row.session \in 0 .. m /\ row.replay \in BOOLEAN
    BY <2>2, <2>3
  <2>5. row \in [count : 0 .. n, session : 0 .. m, replay : BOOLEAN]
    BY <2>2, <2>4
  <2>6. QED
    BY <2>1, <2>5
<1>4. ASSUME NEW a \in Asks
      PROVE  /\ ask[a].at \in Stages /\ ask[a].reason \in Ends \cup {None, "error"}
             /\ ask[a].turn \in 0 .. Len(turns) /\ ask[a].pos \in 0 .. Len(log)
             /\ ask[a].last \in 0 .. ask[a].pos /\ ask[a].resumes \in 0 .. MaxResumes
  <2>1. /\ ask[a].at \in Stages /\ ask[a].reason \in Ends \cup {None, "error"}
        /\ ask[a].turn \in Nat /\ ask[a].pos \in Nat /\ ask[a].last \in Nat /\ ask[a].resumes \in Nat
    BY <1>1, AskFields DEF TurnsTyped
  <2>2. PICK n \in Nat, m \in Nat : n = Len(turns) /\ m = Len(log) /\ DOMAIN turns = 1 .. n
    BY <1>1, GatewayPlaces
  <2>3. ask[a].turn = 0 \/ ask[a].turn \in 1 .. n
    BY <1>1, <2>2 DEF StreamsInv, StreamOf, Showing
  <2>4. ask[a].last = 0 \/ ask[a].last <= ask[a].pos
    BY <1>1 DEF StreamsInv, StreamOf, Showing
  <2>5. ask[a].resumes <= MaxResumes /\ ask[a].pos <= m
    BY <2>2 DEF BoundsInv, BoundsOf
  <2>6. QED
    BY <2>1, <2>2, <2>3, <2>4, <2>5, BoundsAssumption
<1>5. /\ \A t \in DOMAIN turns : turns[t].ask \in Asks /\ turns[t].end \in Ends \cup {None}
      /\ \A i \in DOMAIN log : log[i].turn \in DOMAIN turns
  BY <1>1, GatewayPlaces DEF EventsInv
<1>6. lock \in Asks \cup {None} /\ mentions \in Asks \cup {None} /\ faults \in 0 .. MaxFaults
  BY <1>1 DEF TurnsTyped, BoundsInv
<1>7. QED
  BY <1>3, <1>4, <1>5, <1>6 DEF TurnsTypeOK

\* Every reachable state of a session of finitely many questions is well typed: the row
\* counts no more messages than questions commit and end, no stream is resumed more than
\* MAX_RESUMES times, and none is past the log (routes.py, ask; orchestrator.py, _run).
THEOREM TurnsTypeCorrect ==
  ASSUME IsFiniteSet(Asks)
  PROVE  TurnsSpec => []TurnsTypeOK
<1> DEFINE Inv == TurnsInv /\ BoundsInv /\ CountsInv
<1>1. TurnsInit => BoundsInv /\ CountsInv
  <2>1. SUFFICES ASSUME TurnsInit PROVE BoundsInv /\ CountsInv
    OBVIOUS
  <2>2. TurnsInv
    BY <2>1, TurnsInvInit
  <2>3. /\ row.count = 0 /\ row.session = sessions /\ sessions \in Nat /\ faults = 0
        /\ ask = [a \in Asks |-> NewAsk] /\ log = <<>>
    BY <2>1 DEF TurnsInit
  <2>4. \A a \in Asks : ask[a].resumes = 0 /\ ask[a].pos = 0 /\ ask[a].seen = 0 /\ ask[a].at = "idle"
    BY <2>3 DEF NewAsk
  <2>5. Len(log) = 0
    BY <2>3, EmptySeq
  <2>6. BoundsInv
    BY <2>3, <2>4, <2>5, BoundsAssumption DEF BoundsInv, BoundsOf
  <2>7. WhoCommitted \in SUBSET Asks /\ WhoEnded \in SUBSET Asks
    BY DEF WhoCommitted, WhoEnded
  <2>8. 0 <= Counted
    BY <2>7, GrowingSet DEF Counted
  <2>9. CountsInv
    BY <2>3, <2>4, <2>8 DEF CountsInv
  <2>10. QED
    BY <2>6, <2>9
<1>2. Inv /\ [TurnsNext]_turnsVars => Inv'
  <2>1. SUFFICES ASSUME Inv, [TurnsNext]_turnsVars PROVE Inv'
    OBVIOUS
  <2>2. TurnsInv'
    BY <2>1, TurnsInvStep
  <2>3. CASE TurnsNext
    BY <2>1, <2>2, <2>3, BoundsStep, CountsStep DEF TurnsInv
  <2>4. CASE UNCHANGED turnsVars
    BY <2>1, <2>2, <2>4 DEF turnsVars, BoundsInv, BoundsOf, CountsInv, Counted, WhoCommitted, WhoEnded
  <2>5. QED
    BY <2>1, <2>3, <2>4
<1>3. Inv => TurnsTypeOK
  BY BoundedTypes
<1> HIDE DEF Inv
<1>4. TurnsInit => Inv
  BY <1>1, TurnsInvInit DEF Inv
<1>5. QED
  BY <1>2, <1>3, <1>4, PTL DEF TurnsSpec

-----------------------------------------------------------------------------
\* However often streams are cut and resumed, what a question has shown of its turn are the
\* turn's events, each once and in their order, for any number of questions, events and faults
\* (orchestrator.py, _run).
THEOREM StreamsShowTheirTurn == TurnsSpec => []StreamShowsTheTurn
<1>1. TurnsInv => StreamShowsTheTurn
  BY StreamsShow DEF TurnsInv
<1>2. QED
  BY <1>1, TurnsInvariant, PTL

\* No question has two turns: a POST that may have been taken is not sent again
\* (orchestrator.py, _run).
THEOREM AsksStartOneTurn == TurnsSpec => []OneTurnPerAsk
<1>1. TurnsInv => OneTurnPerAsk
  BY DEF TurnsInv, AskedOnceInv
<1>2. QED
  BY <1>1, TurnsInvariant, PTL

\* The scope a running turn searches with is its question's own, or that of a question that was
\* published after it (routes.py, ask).
THEOREM SearchesStayInScope == TurnsSpec => []SearchesKeepTheScope
<1>1. TurnsInv => SearchesKeepTheScope
  BY ScopesFound DEF TurnsInv
<1>2. QED
  BY <1>1, TurnsInvariant, PTL

\* First questions that come at the same time share the gateway session one of them creates,
\* unless a commit has failed after it was created (routes.py, ask).
THEOREM FirstAsksShareASession == TurnsSpec => []OneGatewaySession
<1>1. TurnsInv => OneGatewaySession
  BY SessionsOne DEF TurnsInv
<1>2. QED
  BY <1>1, TurnsInvariant, PTL

\* An imported session is replayed until a turn that carried the replay has succeeded, whatever
\* questions overlap with it (routes.py, ask).
THEOREM ReplaysAreHandedOver == TurnsSpec => []ReplayIsHandedOver
<1>1. TurnsInv => ReplayIsHandedOver
  BY DEF TurnsInv, ReplaysInv
<1>2. QED
  BY <1>1, TurnsInvariant, PTL
=============================================================================
