------------------------------ MODULE SlotPool ------------------------------
(***************************************************************************)
(* What the MinerU slots promise: a pool of slots, each used by one process *)
(* at a time, where MinerU works for a process only while it uses a slot,   *)
(* or is late: its time with the slot has run out, and it goes on without.  *)
(* There are no keys, tokens or clocks here; taking and giving back are     *)
(* single steps.                                                            *)
(***************************************************************************)

CONSTANTS
  Worker,  \* processes
  Slot     \* slots

VARIABLES
  uses,    \* the slots each process uses: none, or one
  late,    \* the processes that go on without their slot
  working  \* the processes MinerU works for

poolVars == <<uses, late, working>>

Init ==
  /\ uses = [w \in Worker |-> {}]
  /\ late = {}
  /\ working = {}

\* A process takes a slot nobody uses.
Take(w, i) ==
  /\ uses[w] = {} /\ w \notin late
  /\ \A v \in Worker : i \notin uses[v]
  /\ uses' = [uses EXCEPT ![w] = {i}]
  /\ UNCHANGED <<late, working>>

\* MinerU begins to work for a process that has taken a slot.
Start(w) ==
  /\ uses[w] # {} \/ w \in late
  /\ working' = working \cup {w}
  /\ UNCHANGED <<uses, late>>

\* MinerU is done with the work of a process.
Finish(w) ==
  /\ working' = working \ {w}
  /\ UNCHANGED <<uses, late>>

\* Some processes have had their slots for too long: others may take them.
Lapse(gone) ==
  /\ \A w \in gone : uses[w] # {}
  /\ uses' = [w \in Worker |-> IF w \in gone THEN {} ELSE uses[w]]
  /\ late' = late \cup gone
  /\ UNCHANGED working

\* A process is done with its slot, if it still has it, and MinerU no longer
\* works for it.
Give(w) ==
  /\ uses' = [uses EXCEPT ![w] = {}]
  /\ late' = late \ {w}
  /\ working' = working \ {w}

Next ==
  \/ \E gone \in SUBSET Worker : Lapse(gone)
  \/ \E w \in Worker :
       \/ \E i \in Slot : Take(w, i)
       \/ Start(w) \/ Finish(w) \/ Give(w)

Spec == Init /\ [][Next]_poolVars
=============================================================================
