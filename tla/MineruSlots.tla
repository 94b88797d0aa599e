---------------------------- MODULE MineruSlots ----------------------------
(***************************************************************************)
(* The worker processes share MinerU, a parser that works on few jobs at a  *)
(* time, through `Capacity' Redis keys taken with SET NX EX                 *)
(* (core/mineru_slots.py).  A process that finds a free key uploads a file, *)
(* creates a job, polls it until it ends, downloads the result and gives    *)
(* the key back (core/mineru_client.py); one that finds none defers its     *)
(* task.  Keys expire, processes die, and MinerU goes on with a job nobody  *)
(* waits for: MinerU is modelled by the jobs it has not finished.           *)
(*                                                                         *)
(* Time passes in ticks, whatever a process does.  A lease is never         *)
(* renewed, and nothing makes a process give up before its key expires: the *)
(* uploads and the creation of the job have HTTP timeouts of their own, and *)
(* only the polling has a deadline.  A process whose lease has run out is   *)
(* overdue: it goes on, and another one may take its key.                   *)
(***************************************************************************)
EXTENDS Naturals, FiniteSets

CONSTANTS
  Worker,    \* worker processes
  Capacity,  \* mineru.max_concurrency
  Token,     \* uuid4 tokens: as many as may be in use at a time
  Free,      \* a key that does not exist
  Ttl,       \* ttl_seconds, in ticks
  Faults     \* which faults of the environment may happen

ASSUME SlotsAssumption ==
  /\ IsFiniteSet(Worker)
  /\ Capacity \in Nat \ {0}
  /\ Free \notin Token
  /\ Ttl \in Nat \ {0}
  /\ Faults \subseteq {"redis", "cancel", "create", "crash"}

VARIABLES
  pc,       \* where each process is
  at,       \* the key a process looks at
  token,    \* the token of its lease
  key,      \* the key of its lease
  elapsed,  \* ticks since it took the key, until the polling ends; Ttl or more are one
  holder,   \* the token each key holds
  ttl,      \* ticks until the key expires
  jobs,     \* jobs MinerU works on, named by their process's token
  orphans   \* history: those of them a fault has left behind

procVars == <<at, token, key, elapsed>>
vars == <<pc, procVars, holder, ttl, jobs, orphans>>

Slot == 0 .. Capacity - 1

\* The process keeps its job alive and the clock running.
Parsing == {"uploading", "waiting", "cancelling"}
\* Its lease is running, or has run out under it.
InTime(w) == pc[w] \in Parsing /\ elapsed[w] < Ttl
Overdue == {w \in Worker : pc[w] \in Parsing /\ elapsed[w] = Ttl}
\* It has a lease, expired or not.
Leased == Parsing \cup {"downloading", "releasing"}

\* Type invariant.
TypeOK ==
  /\ pc \in [Worker -> Leased \cup {"idle", "probing", "acquiring"}]
  /\ at \in [Worker -> Slot]
  /\ token \in [Worker -> Token \cup {Free}]
  /\ key \in [Worker -> Slot]
  /\ elapsed \in [Worker -> 0 .. Ttl]
  /\ holder \in [Slot -> Token \cup {Free}]
  /\ ttl \in [Slot -> 0 .. Ttl]
  /\ jobs \in SUBSET Token
  /\ orphans \in SUBSET Token

Init ==
  /\ pc = [w \in Worker |-> "idle"]
  /\ at = [w \in Worker |-> 0]
  /\ token = [w \in Worker |-> Free]
  /\ key = [w \in Worker |-> 0]
  /\ elapsed = [w \in Worker |-> 0]
  /\ holder = [i \in Slot |-> Free]
  /\ ttl = [i \in Slot |-> 0]
  /\ jobs = {}
  /\ orphans = {}

\* uuid4 gives a token nobody has.
Fresh ==
  {k \in Token : /\ k \notin jobs
                 /\ \A i \in Slot : holder[i] # k
                 /\ \A w \in Worker : token[w] # k}

Move(w, from, to) == pc[w] = from /\ pc' = [pc EXCEPT ![w] = to]

\* The clock of a process counts only while it may have a job.
StopClock(w) == elapsed' = [elapsed EXCEPT ![w] = 0]

\* The process is done with its lease.
DropLease(w) ==
  /\ token' = [token EXCEPT ![w] = Free]
  /\ StopClock(w)

-----------------------------------------------------------------------------
(* The probe before the download of the original file, and acquire(). *)

StartParse(w) ==
  /\ Move(w, "idle", "probing")
  /\ at' = [at EXCEPT ![w] = 0]
  /\ UNCHANGED <<token, key, elapsed, holder, ttl, jobs, orphans>>

\* seems_full: one EXISTS per key; a free one ends the probe.
ProbeFree(w) ==
  /\ holder[at[w]] = Free
  /\ Move(w, "probing", "acquiring")
  /\ at' = [at EXCEPT ![w] = 0]
  /\ UNCHANGED <<token, key, elapsed, holder, ttl, jobs, orphans>>

\* The next key, or MineruBusyError after the last one.
NextKey(w) ==
  IF at[w] + 1 \in Slot
  THEN at' = [at EXCEPT ![w] = @ + 1] /\ UNCHANGED pc
  ELSE pc' = [pc EXCEPT ![w] = "idle"] /\ UNCHANGED at

ProbeTaken(w) ==
  /\ pc[w] = "probing" /\ holder[at[w]] # Free
  /\ NextKey(w)
  /\ UNCHANGED <<token, key, elapsed, holder, ttl, jobs, orphans>>

\* SET key token NX EX ttl on a key that does not exist.
Acquire(w) ==
  /\ holder[at[w]] = Free
  /\ Move(w, "acquiring", "uploading")
  /\ \E k \in Fresh :
       /\ holder' = [holder EXCEPT ![at[w]] = k]
       /\ token' = [token EXCEPT ![w] = k]
  /\ ttl' = [ttl EXCEPT ![at[w]] = Ttl]
  /\ key' = [key EXCEPT ![w] = at[w]]
  /\ StopClock(w)
  /\ UNCHANGED <<at, jobs, orphans>>

\* Mutant: a key that is taken is renewed.
AcquireTakenRenewing(w) ==
  /\ pc[w] = "acquiring" /\ holder[at[w]] # Free
  /\ NextKey(w)
  /\ ttl' = [ttl EXCEPT ![at[w]] = Ttl]
  /\ UNCHANGED <<token, key, elapsed, holder, jobs, orphans>>

AcquireTaken(w) ==
  /\ pc[w] = "acquiring" /\ holder[at[w]] # Free
  /\ NextKey(w)
  /\ UNCHANGED <<token, key, elapsed, holder, ttl, jobs, orphans>>

-----------------------------------------------------------------------------
(* _parse: upload, create the job, poll, download. *)

CreateJob(w) ==
  /\ Move(w, "uploading", "waiting")
  /\ jobs' = jobs \cup {token[w]}
  /\ UNCHANGED <<procVars, holder, ttl, orphans>>

UploadFailed(w) ==
  /\ Move(w, "uploading", "releasing")
  /\ StopClock(w)
  /\ UNCHANGED <<at, token, key, holder, ttl, jobs, orphans>>

\* A poll finds the job ended.
WaitDone(w) ==
  /\ token[w] \notin jobs
  /\ Move(w, "waiting", "downloading")
  /\ StopClock(w)
  /\ UNCHANGED <<at, token, key, holder, ttl, jobs, orphans>>

\* The deadline has come, or a poll failed.
WaitFailed(w) ==
  /\ Move(w, "waiting", "cancelling")
  /\ UNCHANGED <<procVars, holder, ttl, jobs, orphans>>

\* Mutant: the job is not cancelled.
CancelSkipped(w) ==
  /\ Move(w, "cancelling", "releasing")
  /\ StopClock(w)
  /\ UNCHANGED <<at, token, key, holder, ttl, jobs, orphans>>

\* DELETE /v1/parse/jobs/{id}: the process no longer waits, so MinerU stops.
CancelJob(w) ==
  /\ Move(w, "cancelling", "releasing")
  /\ jobs' = jobs \ {token[w]}
  /\ StopClock(w)
  /\ UNCHANGED <<at, token, key, holder, ttl, orphans>>

\* The result is downloaded, or the download fails: the lease is released.
DownloadEnded(w) ==
  /\ Move(w, "downloading", "releasing")
  /\ UNCHANGED <<procVars, holder, ttl, jobs, orphans>>

\* Mutant: the key is deleted whoever holds it.
ReleaseUncompared(w) ==
  /\ Move(w, "releasing", "idle")
  /\ holder' = [holder EXCEPT ![key[w]] = Free]
  /\ DropLease(w)
  /\ UNCHANGED <<at, key, ttl, jobs, orphans>>

\* The release script deletes the key only while it holds this token.
Release(w) ==
  /\ Move(w, "releasing", "idle")
  /\ holder' = [holder EXCEPT ![key[w]] = IF @ = token[w] THEN Free ELSE @]
  /\ DropLease(w)
  /\ UNCHANGED <<at, key, ttl, jobs, orphans>>

-----------------------------------------------------------------------------
(* Redis and MinerU by themselves. *)

\* Keys expire, whether or not their processes are done with them.
Tick ==
  /\ elapsed' = [w \in Worker |-> IF InTime(w) THEN elapsed[w] + 1 ELSE elapsed[w]]
  /\ ttl' = [i \in Slot |-> IF ttl[i] > 0 THEN ttl[i] - 1 ELSE 0]
  /\ holder' = [i \in Slot |-> IF ttl[i] > 1 THEN holder[i] ELSE Free]
  /\ UNCHANGED <<pc, at, token, key, jobs, orphans>>

\* MinerU ends a job, completed or failed.
JobEnds ==
  /\ \E k \in jobs : jobs' = jobs \ {k} /\ orphans' = orphans \ {k}
  /\ UNCHANGED <<pc, procVars, holder, ttl>>

-----------------------------------------------------------------------------
(* Faults. *)

\* The answer of SET NX is lost: the key is taken, and nobody knows.
AcquireLost(w) ==
  /\ "redis" \in Faults
  /\ holder[at[w]] = Free
  /\ Move(w, "acquiring", "idle")
  /\ \E k \in Fresh : holder' = [holder EXCEPT ![at[w]] = k]
  /\ ttl' = [ttl EXCEPT ![at[w]] = Ttl]
  /\ UNCHANGED <<procVars, jobs, orphans>>

\* A release that fails is logged: the key stays until it expires.
ReleaseFailed(w) ==
  /\ "redis" \in Faults
  /\ Move(w, "releasing", "idle")
  /\ DropLease(w)
  /\ UNCHANGED <<at, key, holder, ttl, jobs, orphans>>

\* MinerU accepts the job and the answer is lost: there is no id to cancel.
CreateLost(w) ==
  /\ "create" \in Faults
  /\ Move(w, "uploading", "releasing")
  /\ jobs' = jobs \cup {token[w]}
  /\ orphans' = orphans \cup {token[w]}
  /\ StopClock(w)
  /\ UNCHANGED <<at, token, key, holder, ttl>>

\* A cancel that fails is logged: MinerU goes on.
CancelFailed(w) ==
  /\ "cancel" \in Faults
  /\ Move(w, "cancelling", "releasing")
  /\ StopClock(w)
  /\ orphans' = orphans \cup ({token[w]} \cap jobs)
  /\ UNCHANGED <<at, token, key, holder, ttl, jobs>>

\* The process dies: its key stays until it expires, its job until it ends.
Crash(w) ==
  /\ "crash" \in Faults
  /\ pc[w] \in Leased
  /\ pc' = [pc EXCEPT ![w] = "idle"]
  /\ DropLease(w)
  /\ orphans' = orphans \cup ({token[w]} \cap jobs)
  /\ UNCHANGED <<at, key, holder, ttl, jobs>>

-----------------------------------------------------------------------------
WorkerStep(w) ==
  \/ ProbeFree(w) \/ ProbeTaken(w)
  \/ Acquire(w) \/ AcquireTaken(w)
  \/ CreateJob(w) \/ UploadFailed(w)
  \/ WaitDone(w) \/ WaitFailed(w) \/ CancelJob(w)
  \/ DownloadEnded(w) \/ Release(w)

Fault(w) ==
  \/ AcquireLost(w) \/ ReleaseFailed(w)
  \/ CreateLost(w) \/ CancelFailed(w) \/ Crash(w)

Next ==
  \/ \E w \in Worker : StartParse(w) \/ WorkerStep(w) \/ Fault(w)
  \/ Tick \/ JobEnds

Spec == Init /\ [][Next]_vars

\* Time passes and processes that are at work go on with it.
Fairness == WF_vars(Tick) /\ \A w \in Worker : WF_vars(WorkerStep(w))

FairSpec == Spec /\ Fairness

-----------------------------------------------------------------------------
(* The pool of slots that the keys, leases and tokens implement. *)

\* A process uses its key from SET NX until its job has ended or its lease has
\* run out.
SlotsUsed == [w \in Worker |-> IF InTime(w) THEN {key[w]} ELSE {}]

\* MinerU works for a process on a job no fault has left behind.
WorkedFor == {w \in Worker : token[w] \in jobs \ orphans}

Pool == INSTANCE SlotPool WITH uses <- SlotsUsed, late <- Overdue, working <- WorkedFor

-----------------------------------------------------------------------------
(* Properties. *)

\* A process with a job at MinerU, or about to have one, holds the key it took
\* for as long as its lease runs: no late release of another process takes it
\* away (mineru_slots.py 14-18, 54-55).
ParsingHoldsKey ==
  \A w \in Worker : InTime(w) => holder[key[w]] = token[w]

\* MinerU works on no more than max_concurrency jobs, besides those a fault has
\* left behind and one for each process that is overdue (mineru_slots.py 1-8,
\* mineru_client.py 211-244): whatever way a parse ends, its job ends before its
\* slot is given back.
AttendedWithinCapacity ==
  Cardinality(jobs \ orphans) <= Capacity + Cardinality(Overdue)

\* Keys that expire, tokens that are compared and releases that fail or come
\* late make a pool of slots: no process takes a slot another one uses, one that
\* is overdue frees nothing that others have taken since, and none is done while
\* MinerU works for it, unless a fault has left the job behind
\* (mineru_slots.py 1-8, mineru_client.py 211-244).
IsSlotPool == Pool!Spec

\* Every key is free again and again: what a dead process, a lost answer or a
\* failed release leaves behind expires (mineru_slots.py 7).
KeysComeBack == \A i \in Slot : []<>(holder[i] = Free)
=============================================================================
