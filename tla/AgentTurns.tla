----------------------------- MODULE AgentTurns -----------------------------
(***************************************************************************)
(* The questions of one agent session (agent/routes.py, ask) and the turns *)
(* they start at the ACP gateway (agent/gateway/orchestrator.py, service.py *)
(* and translate.py): the transaction that prepares the session, the scope *)
(* published in Redis, the turn and its stream of events, which is resumed *)
(* when it is cut, and the bookkeeping at the end.  The gateway is         *)
(* external: it runs one turn of a session at a time and keeps the events. *)
(***************************************************************************)
EXTENDS Integers, FiniteSets, Sequences

CONSTANTS
    Asks,         \* the questions asked of the session
    None,
    MaxResumes,   \* MAX_RESUMES
    MaxMessages,  \* session_max_messages
    MaxDeltas,    \* bound: events of a turn between its start and its end
    MaxFaults     \* bound: faults in one behaviour

Ends == {"completed", "cancelled", "failed"}

ASSUME NoneAssumption == None \notin Asks \cup Ends
ASSUME BoundsAssumption ==
    MaxResumes \in Nat /\ MaxMessages \in Nat /\ MaxDeltas \in Nat /\ MaxFaults \in Nat

VARIABLES
    row,       \* the row of the session (agent_session)
    lock,      \* the ask whose transaction holds the row
    mentions,  \* the scope in Redis (agent:mentions:<session>)
    ask,       \* where an ask is
    sessions,  \* gateway sessions created
    turns,     \* the turns of the gateway session
    log,       \* its events: the place in the log is the seq of an event
    faults,    \* faults so far
    ghosts     \* who published since an ask did, and marks (not in the code)

turnsVars == <<row, lock, mentions, ask, sessions, turns, log, faults, ghosts>>
Gateway == <<sessions, turns, log>>

(* scope: the assets mentioned, None for no restriction; seen, session: the count that was read *)
(* and the gateway session to commit; prefix: the replay goes with the prompt; turn: the turn   *)
(* of the stream, once an event has named it; pos: the last event received; last, shown: the    *)
(* last seq and all seqs turned into frames; reason: the finish_reason.                         *)
NewAsk == [at |-> "idle", scope |-> None, seen |-> 0, session |-> 0, prefix |-> FALSE,
           turn |-> 0, pos |-> 0, last |-> 0, shown |-> <<>>, resumes |-> 0, reason |-> None]

(* A new session, or one that was imported with its history and has still to replay it. *)
TurnsInit ==
    /\ \E imported \in BOOLEAN :
         LET session == IF imported THEN 1 ELSE 0 IN
         /\ row = [count |-> 0, session |-> session, replay |-> imported]
         /\ sessions = session
    /\ lock = None
    /\ mentions = None
    /\ ask = [a \in Asks |-> NewAsk]
    /\ turns = <<>>
    /\ log = <<>>
    /\ faults = 0
    /\ ghosts = [since |-> [a \in Asks |-> {}],
                  marks |-> IF row.replay THEN {"imported"} ELSE {}]

Goes(a, from, to) == ask[a].at = from /\ ask' = [ask EXCEPT ![a].at = to]
Over(a) == [NewAsk EXCEPT !.at = "done", !.scope = ask[a].scope]
Leaves(a, from) == ask[a].at = from /\ ask' = [ask EXCEPT ![a] = Over(a)]
FaultHappens == faults < MaxFaults /\ faults' = faults + 1
Running == {t \in DOMAIN turns : turns[t].end = None}

-----------------------------------------------------------------------------
(* The row is read, without a lock, and the limit tested. *)
Begin(a) ==
    /\ ask[a].at = "idle"
    /\ \E scope \in {None, a} :
         ask' = [ask EXCEPT ![a].at = IF row.count >= MaxMessages THEN "done" ELSE "update",
                            ![a].scope = scope, ![a].seen = row.count]
    /\ UNCHANGED <<row, lock, mentions, Gateway, faults, ghosts>>

(* Mutant: the row is not locked before it is read again. *)
UpdateUnlocked(a) ==
    /\ Goes(a, "update", "prepare")
    /\ lock' = a
    /\ UNCHANGED <<row, mentions, Gateway, faults, ghosts>>

(* The update of the count takes the row. *)
Update(a) ==
    /\ Goes(a, "update", "prepare")
    /\ lock = None /\ lock' = a
    /\ UNCHANGED <<row, mentions, Gateway, faults, ghosts>>

(* The row is read again; the gateway session is created if no other ask has. *)
Prepare(a) ==
    LET new == IF row.session = 0 THEN 1 ELSE 0 IN
    /\ ask[a].at = "prepare"
    /\ sessions' = sessions + new
    /\ ask' = [ask EXCEPT ![a].at = "commit", ![a].prefix = row.replay,
                          ![a].session = IF new = 1 THEN sessions' ELSE row.session]
    /\ UNCHANGED <<row, lock, mentions, turns, log, faults, ghosts>>

Commit(a) ==
    /\ ask[a].at = "commit"
    /\ ask' = [ask EXCEPT ![a].at = "publish", ![a].seen = 0, ![a].session = 0]
    /\ row' = [row EXCEPT !.count = ask[a].seen + 1, !.session = ask[a].session]
    /\ lock' = None
    /\ UNCHANGED <<mentions, Gateway, faults, ghosts>>

(* Mutant: the transaction stays open. *)
RollBackHolding(a) ==
    /\ FaultHappens
    /\ \/ Leaves(a, "prepare") /\ UNCHANGED ghosts
       \/ /\ Leaves(a, "commit")
          /\ ghosts' = [ghosts EXCEPT !.marks =
                         @ \cup IF ask[a].session = row.session THEN {} ELSE {"orphan"}]
    /\ UNCHANGED <<lock, row, mentions, Gateway>>

(* The gateway refuses, or the commit fails when the session has been created there. *)
RollBack(a) ==
    /\ FaultHappens
    /\ \/ Leaves(a, "prepare") /\ UNCHANGED ghosts
       \/ /\ Leaves(a, "commit")
          /\ ghosts' = [ghosts EXCEPT !.marks =
                         @ \cup IF ask[a].session = row.session THEN {} ELSE {"orphan"}]
    /\ lock' = None
    /\ UNCHANGED <<row, mentions, Gateway>>

-----------------------------------------------------------------------------
(* SET or DELETE of the key. *)
Replace(a) ==
    /\ mentions' = ask[a].scope
    /\ ghosts' = [ghosts EXCEPT !.since = [b \in Asks |-> IF b = a THEN {} ELSE @[b] \cup {a}]]

(* Mutant: a question without mentions leaves the scope alone. *)
PublishOnlyMentions(a) ==
    /\ Goes(a, "publish", "open")
    /\ mentions' = IF ask[a].scope = None THEN mentions ELSE ask[a].scope
    /\ ghosts' = [ghosts EXCEPT !.since = [b \in Asks |-> IF b = a THEN {} ELSE @[b] \cup {a}]]
    /\ UNCHANGED <<row, lock, Gateway, faults>>

(* The scope of the question replaces the one before; without it no turn is started. *)
Publish(a) ==
    /\ Goes(a, "publish", "open")
    /\ Replace(a)
    /\ UNCHANGED <<row, lock, Gateway, faults>>

(* Redis fails, before or after it has replaced the scope. *)
PublishFails(a) ==
    /\ FaultHappens
    /\ Leaves(a, "publish")
    /\ \/ UNCHANGED <<mentions, ghosts>>
       \/ Replace(a)
    /\ UNCHANGED <<row, lock, Gateway>>

(* The gateway takes the turn.  The prompt carries the replay while the row asks for it. *)
Accept(a) ==
    /\ Running = {}
    /\ turns' = Append(turns, [ask |-> a, prefix |-> ask[a].prefix, end |-> None])
    /\ log' = Append(log, [turn |-> Len(turns'), kind |-> "started"])

Open(a) ==
    /\ ask[a].at = "open" /\ Accept(a)
    /\ ask' = [ask EXCEPT ![a].at = "stream", ![a].pos = Len(log), ![a].prefix = FALSE]
    /\ UNCHANGED <<row, lock, mentions, sessions, faults, ghosts>>

(* It is busy, or the connection fails before the answer, whether or not the turn was taken. *)
OpenFails(a) ==
    /\ Leaves(a, "open")
    /\ \/ Running # {} /\ UNCHANGED <<turns, log, faults>>
       \/ FaultHappens /\ UNCHANGED <<turns, log>>
       \/ FaultHappens /\ Accept(a)
    /\ UNCHANGED <<row, lock, mentions, sessions, ghosts>>

-----------------------------------------------------------------------------
(* The next event of the stream: the first one names the turn; those of other turns and those   *)
(* already seen are passed over, the others become frames.                                      *)
Feed(a) ==
    LET i == ask[a].pos + 1
        e == log[i]
        read == [ask[a] EXCEPT !.pos = i, !.turn = IF @ = 0 THEN e.turn ELSE @]
        fed == [read EXCEPT !.last = i, !.shown = Append(@, i)]
    IN
    /\ ask[a].at = "stream" /\ i <= Len(log)
    /\ ask' = [ask EXCEPT ![a] =
         IF e.turn # read.turn \/ i <= ask[a].last THEN read
         ELSE IF e.kind \in Ends THEN [fed EXCEPT !.at = "finish", !.reason = e.kind]
         ELSE fed]
    /\ UNCHANGED <<row, lock, mentions, Gateway, faults, ghosts>>

(* Mutant: a turn of which nothing was seen is posted again. *)
InterruptedPosting(a) ==
    IF ask[a].turn = 0 THEN [ask[a] EXCEPT !.at = "open"]
    ELSE IF ask[a].resumes >= MaxResumes
      THEN [ask[a] EXCEPT !.at = "finish", !.reason = "error"]
      ELSE [ask[a] EXCEPT !.at = "sleep", !.resumes = @ + 1]

(* The stream is cut: it is resumed after the last event seen, unless no event has named the    *)
(* turn or it has been resumed too often.                                                       *)
Interrupted(a) ==
    IF ask[a].turn = 0 \/ ask[a].resumes >= MaxResumes
      THEN [ask[a] EXCEPT !.at = "finish", !.reason = "error"]
      ELSE [ask[a] EXCEPT !.at = "sleep", !.resumes = @ + 1]

Cut(a) ==
    /\ ask[a].at \in {"stream", "sleep"} /\ FaultHappens
    /\ ask' = [ask EXCEPT ![a] = Interrupted(a)]
    /\ UNCHANGED <<row, lock, mentions, Gateway, ghosts>>

(* Mutant: the place is counted one too far. *)
ResumeAfterNext(a) ==
    /\ ask[a].at = "sleep"
    /\ ask' = [ask EXCEPT ![a].at = "stream", ![a].pos = ask[a].last + 1]
    /\ UNCHANGED <<row, lock, mentions, Gateway, faults, ghosts>>

Resume(a) ==
    /\ ask[a].at = "sleep"
    /\ ask' = [ask EXCEPT ![a].at = "stream", ![a].pos = ask[a].last]
    /\ UNCHANGED <<row, lock, mentions, Gateway, faults, ghosts>>

(* The client leaves: its stream is closed, and what follows it does not run. *)
Leave(a) ==
    /\ \E from \in {"stream", "sleep"} : Leaves(a, from)
    /\ UNCHANGED <<row, lock, mentions, Gateway, faults, ghosts>>

-----------------------------------------------------------------------------
Answered(a) == \E k \in DOMAIN ask[a].shown : log[ask[a].shown[k]].kind = "delta"
Ok(a) == ask[a].reason \in {"completed", "cancelled"}

(* The row is read in a new transaction and written, when there is an answer or an end. *)
Finish(a) ==
    /\ ask[a].at = "finish"
    /\ ask' = [ask EXCEPT ![a] =
         IF Answered(a) \/ Ok(a) THEN [ask[a] EXCEPT !.at = "write", !.seen = row.count]
         ELSE Over(a)]
    /\ UNCHANGED <<row, lock, mentions, Gateway, faults, ghosts>>

(* Mutant: any answer ends the replay. *)
WriteClearing(a) ==
    /\ ask[a].at = "write" /\ lock = None
    /\ ask' = [ask EXCEPT ![a] = Over(a)]
    /\ row' = [row EXCEPT !.count = IF Answered(a) THEN ask[a].seen + 1 ELSE @,
                          !.replay = @ /\ ~(Answered(a) \/ Ok(a))]
    /\ UNCHANGED <<lock, mentions, Gateway, faults, ghosts>>

Write(a) ==
    /\ ask[a].at = "write" /\ lock = None
    /\ ask' = [ask EXCEPT ![a] = Over(a)]
    /\ row' = [row EXCEPT !.count = IF Answered(a) THEN ask[a].seen + 1 ELSE @,
                          !.replay = @ /\ ~Ok(a)]
    /\ UNCHANGED <<lock, mentions, Gateway, faults, ghosts>>

WriteFails(a) ==
    /\ FaultHappens
    /\ Leaves(a, "write")
    /\ UNCHANGED <<row, lock, mentions, Gateway, ghosts>>

-----------------------------------------------------------------------------
Deltas(t) == {i \in DOMAIN log : log[i].turn = t /\ log[i].kind = "delta"}

Emit(t) ==
    /\ t \in Running /\ Cardinality(Deltas(t)) < MaxDeltas
    /\ log' = Append(log, [turn |-> t, kind |-> "delta"])
    /\ UNCHANGED <<row, lock, mentions, ask, sessions, turns, faults, ghosts>>

End(t) ==
    /\ t \in Running
    /\ \E end \in Ends :
         /\ turns' = [turns EXCEPT ![t].end = end]
         /\ log' = Append(log, [turn |-> t, kind |-> end])
    /\ UNCHANGED <<row, lock, mentions, ask, sessions, faults, ghosts>>

-----------------------------------------------------------------------------
Step(a) ==
    \/ Update(a) \/ Prepare(a) \/ Commit(a) \/ RollBack(a) \/ Publish(a) \/ PublishFails(a)
    \/ Open(a) \/ OpenFails(a) \/ Feed(a) \/ Resume(a)
    \/ Finish(a) \/ Write(a) \/ WriteFails(a)

TurnsNext ==
    \/ \E a \in Asks : Begin(a) \/ Step(a) \/ Cut(a) \/ Leave(a)
    \/ \E t \in DOMAIN turns : Emit(t) \/ End(t)

(* Requests run on, and the gateway brings every turn to an end. *)
TurnsFairness ==
    /\ \A a \in Asks : WF_turnsVars(Step(a))
    /\ WF_turnsVars(\E t \in DOMAIN turns : End(t))

TurnsSpec == TurnsInit /\ [][TurnsNext]_turnsVars
TurnsFairSpec == TurnsSpec /\ TurnsFairness

-----------------------------------------------------------------------------
Stages == {"idle", "update", "prepare", "commit", "publish", "open", "stream", "sleep", "finish",
           "write", "done"}

TurnsTypeOK ==
    /\ row \in [count : 0 .. 2 * Cardinality(Asks), session : 0 .. sessions, replay : BOOLEAN]
    /\ lock \in Asks \cup {None} /\ mentions \in Asks \cup {None}
    /\ \A a \in Asks :
         /\ ask[a].at \in Stages /\ ask[a].reason \in Ends \cup {None, "error"}
         /\ ask[a].turn \in 0 .. Len(turns) /\ ask[a].pos \in 0 .. Len(log)
         /\ ask[a].last \in 0 .. ask[a].pos /\ ask[a].resumes \in 0 .. MaxResumes
    /\ \A t \in DOMAIN turns : turns[t].ask \in Asks /\ turns[t].end \in Ends \cup {None}
    /\ \A i \in DOMAIN log : log[i].turn \in DOMAIN turns
    /\ faults \in 0 .. MaxFaults

(* However often a stream is cut and resumed, its frames are the events of the turn its own     *)
(* question started, each once, in their order, none left out (orchestrator.py, _run).          *)
StreamShowsTheTurn ==
    \A a \in Asks :
        LET n == Len(ask[a].shown) IN
        n > 0 =>
            /\ turns[ask[a].turn].ask = a
            /\ \A k \in 1 .. n - 1 : ask[a].shown[k] < ask[a].shown[k + 1]
            /\ {ask[a].shown[k] : k \in 1 .. n} =
                  {i \in 1 .. ask[a].last : log[i].turn = ask[a].turn}

(* A question starts one turn at most: a POST that may have been taken is not sent again. *)
OneTurnPerAsk ==
    \A t, u \in DOMAIN turns : turns[t].ask = turns[u].ask => t = u

(* What a running turn finds when it searches (routes/mcp.py) is the scope of its own question, *)
(* unless another question of the session has been published after it: that one replaces the    *)
(* scope under the running turn, even when the gateway then refuses it (publish_mentions comes  *)
(* before the turn is accepted).                                                                *)
SearchesKeepTheScope ==
    \A t \in Running :
        LET a == turns[t].ask IN
        mentions = ask[a].scope \/ \E b \in ghosts.since[a] : mentions = ask[b].scope

(* Concurrent first questions create one gateway session: the second transaction reads the row  *)
(* again once it holds it.  One whose commit fails leaves a session nobody knows.               *)
OneGatewaySession == sessions <= 1 \/ "orphan" \in ghosts.marks

(* The replay of an imported session stops only when a turn that carried it has succeeded. *)
ReplayIsHandedOver ==
    ("imported" \in ghosts.marks /\ ~row.replay) =>
        \E t \in DOMAIN turns : turns[t].prefix /\ turns[t].end \in {"completed", "cancelled"}

(* Every question comes to its end, whatever is cut, refused or fails. *)
AsksEnd == \A a \in Asks : ask[a].at # "idle" ~> ask[a].at = "done"
=============================================================================
