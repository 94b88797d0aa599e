--------------------------- MODULE AssetLifecycle ---------------------------
(***************************************************************************)
(* What a user may rely on about the status of an asset: what is shown as   *)
(* READY has been indexed, what is shown as waiting is in somebody's hand   *)
(* or was dropped by a fault, and what is deleted stays deleted.  There are *)
(* no steps, retries, queues or stores here.                                *)
(***************************************************************************)

CONSTANT Run  \* the tasks that may work on the asset

VARIABLES
  shown,   \* "pending", "processing", "ready", "failed" or "deleted"
  hands,   \* the runs that will still act on it
  dropped, \* a fault took a run away and left the status as it was
  earned   \* the asset has been indexed

lifeVars == <<shown, hands, dropped, earned>>

Init ==
  /\ shown = "pending"
  /\ \E r \in Run : hands = {r}
  /\ dropped = FALSE
  /\ earned = FALSE

\* Nothing is shown of a deleted asset, whatever its runs do.
Show(s) == shown' = IF shown = "deleted" THEN shown ELSE s

\* A user asks for another run.
Request(r) ==
  /\ shown # "deleted"
  /\ Show("pending")
  /\ hands' = hands \cup {r}
  /\ UNCHANGED <<dropped, earned>>

Work(r) ==
  /\ r \in hands /\ shown # "deleted"
  /\ Show("processing")
  /\ UNCHANGED <<hands, dropped, earned>>

Succeed(r) ==
  /\ r \in hands
  /\ Show("ready")
  /\ hands' = hands \ {r}
  /\ earned' = TRUE
  /\ UNCHANGED dropped

\* It is told as failed, and tried again or given up.
Fail(r) ==
  /\ r \in hands
  /\ Show("failed")
  /\ hands' \in {hands, hands \ {r}}
  /\ UNCHANGED <<dropped, earned>>

\* A run that has to wait puts back a status it found, and keeps the asset in its hand.
Defer(r) ==
  /\ r \in hands
  /\ \E s \in {"pending", "failed", "ready"} : (s = "ready" => earned) /\ Show(s)
  /\ UNCHANGED <<hands, dropped, earned>>

\* A run finds the asset deleted.
GiveUp(r) ==
  /\ shown = "deleted"
  /\ hands' = hands \ {r}
  /\ UNCHANGED <<shown, dropped, earned>>

\* The broker hands out a run a second time, beside the first or after it.
Again(r) ==
  /\ hands # {} \/ earned
  /\ hands' = hands \cup {r}
  /\ UNCHANGED <<shown, dropped, earned>>

Drop(r) ==
  /\ r \in hands
  /\ hands' = hands \ {r}
  /\ dropped' = TRUE
  /\ UNCHANGED <<shown, earned>>

Delete ==
  /\ shown' = "deleted"
  /\ UNCHANGED <<hands, dropped, earned>>

Next ==
  \/ \E r \in Run :
       \/ Request(r) \/ Work(r) \/ Succeed(r) \/ Fail(r)
       \/ Defer(r) \/ GiveUp(r) \/ Again(r) \/ Drop(r)
  \/ Delete

Spec == Init /\ [][Next]_lifeVars

-----------------------------------------------------------------------------
\* What is shown as READY has been indexed, what is shown as waiting is in somebody's hand
\* or was dropped by a fault.
Promise ==
  /\ shown = "ready" => earned
  /\ shown \in {"pending", "processing"} => hands # {} \/ dropped
=============================================================================
