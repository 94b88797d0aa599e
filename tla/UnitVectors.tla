---------------------------- MODULE UnitVectors ----------------------------
(***************************************************************************)
(* The semantic units of the documents of one space and their vectors in   *)
(* three places: rows in PostgreSQL, the cache vectors.json of each        *)
(* document in object storage, and Milvus.  People add, edit and delete    *)
(* single units (api/services/units.py), while workers run the embed and   *)
(* index steps again, for one document or, as a re-embedding, for all of   *)
(* them (worker/tasks.py reembed_space, api/routes/admin/reembedding.py).  *)
(***************************************************************************)
EXTENDS Naturals, FiniteSets

CONSTANTS
    Units,       \* identities of rows
    Documents,   \* documents of the space
    Columns,     \* what a unit's vector is computed of: its title and its body
    Of,          \* the document of each unit
    Requests,    \* requests at a time
    Workers,     \* worker processes
    Tasks,       \* rows of reembed_task
    None,        \* no row, no vector, no unit, no task
    MaxChanges   \* bound: requests, retries and deliveries and cancellations of re-embeddings

ASSUME UnitVectorsAssumption ==
    /\ Of \in [Units -> Documents]
    /\ None \notin Units \cup Documents \cup Tasks \cup [Columns -> Nat]
    /\ MaxChanges \in Nat

VARIABLES
    row,      \* the text of each unit's row, committed
    marked,   \* the rows whose embed_model_version is set, committed
    cache,    \* of which text each unit's vector in vectors.json was computed
    index,    \* of which text each unit's vector in Milvus was computed
    req,      \* what each request is doing
    run,      \* what each worker is doing
    status,   \* reembed_task.status
    message,  \* tasks with a message in the broker
    ending,   \* tasks a cancellation has read and found running
    changes,  \* requests, retries, deliveries and cancellations so far
    blind,    \* units an edit wrote that another had changed since it loaded them (not in the code)
    lost,     \* documents whose cache lost what a request had not read (not in the code)
    mixed,    \* documents on which runs and others met, or one failed (not in the code)
    halted,   \* tasks whose cancellation was committed (not in the code)
    crossed,  \* those whose worker was at its start or past its last check then (not in the code)
    spare,    \* workers that had passed a check then (not in the code)
    whole     \* workers whose run has read all rows and met nobody (not in the code)

vars == <<row, marked, cache, index, req, run, status, message, ending, changes,
          blind, lost, mixed, halted, crossed, spare, whole>>

(* A text is a title and a body.  Each is known by the change that wrote it.                     *)
Texts == [Columns -> 0..MaxChanges]
Nothing == [u \in Units |-> None]
UnitsOf(d) == {u \in Units : Of[u] = d}
Rows == {u \in Units : row[u] # None}
RowsOf(d) == Rows \cap UnitsOf(d)

(* of with the entries of document d taken from new.                                             *)
Replaced(of, d, new) == [u \in Units |-> IF Of[u] = d THEN new[u] ELSE of[u]]
Only(of, S) == [u \in Units |-> IF u \in S THEN of[u] ELSE None]

Free == [op |-> "none", at |-> "none", doc |-> None, units |-> {}, text |-> None,
         column |-> None, set |-> FALSE, cached |-> Nothing]
Resting == [at |-> "none", task |-> None, was |-> "none", doc |-> None, left |-> {},
            got |-> Nothing, due |-> {}]

Init ==
    /\ row \in [Units -> {None, [c \in Columns |-> 0]}]
    /\ marked = Rows
    /\ cache = row
    /\ index = row
    /\ req = [r \in Requests |-> Free]
    /\ run = [w \in Workers |-> Resting]
    /\ status = [t \in Tasks |-> "none"]
    /\ message = {} /\ ending = {}
    /\ changes = 0
    /\ blind = {} /\ lost = {} /\ mixed = {}
    /\ halted = {} /\ crossed = {} /\ spare = {} /\ whole = {}

reembedding == <<status, message, ending, halted, crossed, spare>>

Change == changes < MaxChanges /\ changes' = changes + 1
AsksFor(d) == {r \in Requests : req[r].doc = d}
RunsFor(d) == {w \in Workers : run[w].at \in {"embedding", "stored", "index", "indexing", "cleared"}
                                 /\ run[w].doc = d}

(* Rows that an open transaction has changed: an edit from its flush, a run from the flush of    *)
(* its marks.                                                                                    *)
LockedByAsks == UNION {req[r].units : r \in {r \in Requests : req[r].op = "edit"
                                               /\ req[r].at \in {"flushed", "read", "written", "upserted"}}}
LockedByRuns == UNION {run[w].due : w \in {w \in Workers : run[w].at = "stored"}}
----------------------------------------------------------------------------
(* Requests on units.                                                                            *)

(* A request on a document that is run meanwhile.                                                *)
Meets(d) == /\ mixed' = IF RunsFor(d) # {} THEN mixed \cup {d} ELSE mixed
            /\ whole' = whole \ RunsFor(d)

(* The identity of a row is new.                                                                 *)
Unused(u) == /\ row[u] = None /\ cache[u] = None /\ index[u] = None /\ u \notin blind
             /\ \A r \in Requests : u \notin req[r].units /\ req[r].cached[u] = None
             /\ \A w \in Workers : run[w].got[u] = None

Create(r, u) ==
    /\ req[r] = Free
    /\ Unused(u)
    /\ Change
    /\ Meets(Of[u])
    /\ req' = [req EXCEPT ![r] = [Free EXCEPT !.op = "create", !.at = "flushed", !.doc = Of[u], !.units = {u},
                                              !.text = [c \in Columns |-> changes + 1],
                                              !.set = TRUE]]
    /\ UNCHANGED <<row, marked, cache, index, run, reembedding, blind, lost>>

(* get_unit: the row as it is now, with its mark.  The request sets one of the columns.          *)
Edit(r, u, column) ==
    /\ req[r] = Free
    /\ row[u] # None
    /\ Change
    /\ Meets(Of[u])
    /\ req' = [req EXCEPT ![r] = [Free EXCEPT !.op = "edit", !.at = "loaded", !.doc = Of[u], !.units = {u},
                                              !.text = [row[u] EXCEPT ![column] = changes + 1],
                                              !.column = column, !.set = u \notin marked]]
    /\ UNCHANGED <<row, marked, cache, index, run, reembedding, blind, lost>>

(* The UPDATE waits for the row.                                                                 *)
EditFlush(r) ==
    /\ req[r].op = "edit" /\ req[r].at = "loaded"
    /\ req[r].units \subseteq Rows \ (LockedByAsks \cup LockedByRuns)
    /\ req' = [req EXCEPT ![r].at = "flushed"]
    /\ UNCHANGED <<row, marked, cache, index, run, reembedding, changes, blind, lost, mixed, whole>>

(* The row is gone: the request ends and has written nothing.                                    *)
EditStale(r) ==
    /\ req[r].op = "edit" /\ req[r].at = "loaded"
    /\ \A u \in req[r].units : row[u] = None
    /\ req' = [req EXCEPT ![r] = Free]
    /\ UNCHANGED <<row, marked, cache, index, run, reembedding, changes, blind, lost, mixed, whole>>

(* _sync_embed: the text is embedded, vectors.json read and written back whole.  A deletion      *)
(* begins with the same two calls.                                                               *)
ReadCache(r) ==
    /\ req[r].at = "flushed"
    /\ req' = [req EXCEPT ![r].at = "read", ![r].cached = Only(cache, UnitsOf(req[r].doc) \ req[r].units)]
    /\ UNCHANGED <<row, marked, cache, index, run, reembedding, changes, blind, lost, mixed, whole>>

(* Any error of that read is taken for a missing cache: an addition or an edit goes on from an    *)
(* empty one, and a deletion writes none.                                                        *)
ReadNothing(r) ==
    /\ req[r].at = "flushed"
    /\ req' = [req EXCEPT ![r].at = IF req[r].op = "delete" THEN "written" ELSE "read"]
    /\ UNCHANGED <<row, marked, cache, index, run, reembedding, changes, blind, lost, mixed, whole>>

Delete(r, S) ==
    /\ req[r] = Free
    /\ S # {} /\ \E d \in Documents : S \subseteq RowsOf(d)
    /\ Change
    /\ LET d == Of[CHOOSE u \in S : TRUE]
       IN /\ Meets(d)
          /\ req' = [req EXCEPT ![r] = [Free EXCEPT !.op = "delete", !.at = "flushed", !.doc = d, !.units = S]]
    /\ UNCHANGED <<row, marked, cache, index, run, reembedding, blind, lost>>

(* Every key of the cache as it was read, but that of the unit itself.  The variant has no other. *)
WriteCacheAlone(r) ==
    /\ req[r].at = "read"
    /\ cache' = Replaced(cache, req[r].doc,
                         [u \in Units |-> IF u \in req[r].units THEN req[r].text ELSE None])
    /\ req' = [req EXCEPT ![r].at = "written", ![r].cached = Nothing]
    /\ UNCHANGED <<row, marked, index, run, reembedding, changes, blind, lost, mixed, whole>>
WriteCache(r) ==
    LET d == req[r].doc
        new == [u \in Units |-> IF u \in req[r].units THEN req[r].text ELSE req[r].cached[u]]
    IN /\ req[r].at = "read"
       /\ cache' = Replaced(cache, d, new)
       /\ req' = [req EXCEPT ![r].at = "written", ![r].cached = Nothing]
       /\ lost' = IF \E u \in UnitsOf(d) \ req[r].units : cache[u] # new[u] THEN lost \cup {d} ELSE lost
       /\ UNCHANGED <<row, marked, index, run, reembedding, changes, blind, mixed, whole>>

Upsert(r) ==
    /\ req[r].op \in {"create", "edit"} /\ req[r].at = "written"
    /\ index' = [u \in Units |-> IF u \in req[r].units THEN req[r].text ELSE index[u]]
    /\ req' = [req EXCEPT ![r].at = "upserted"]
    /\ UNCHANGED <<row, marked, cache, run, reembedding, changes, blind, lost, mixed, whole>>

(* Only the column of the edit is written, and the mark only where it was not set.               *)
Commit(r) ==
    LET u == CHOOSE u \in req[r].units : TRUE
    IN /\ req[r].at = "upserted"
       /\ row' = [row EXCEPT ![u] = IF req[r].op = "create" THEN req[r].text
                                    ELSE [@ EXCEPT ![req[r].column] = req[r].text[req[r].column]]]
       /\ marked' = IF req[r].set THEN marked \cup {u} ELSE marked
       /\ blind' = IF row'[u] = req[r].text THEN blind \ {u} ELSE blind \cup {u}
       /\ req' = [req EXCEPT ![r] = Free]
       /\ UNCHANGED <<cache, index, run, reembedding, changes, lost, mixed, whole>>

(* The rows go, those still there, once nobody holds them.                                       *)
DeleteCommit(r) ==
    /\ req[r].op = "delete" /\ req[r].at = "written"
    /\ req[r].units \cap (LockedByAsks \cup LockedByRuns) = {}
    /\ row' = [u \in Units |-> IF u \in req[r].units THEN None ELSE row[u]]
    /\ marked' = marked \ req[r].units
    /\ req' = [req EXCEPT ![r].at = "deleted"]
    /\ UNCHANGED <<cache, index, run, reembedding, changes, blind, lost, mixed, whole>>

DeleteVectors(r) ==
    /\ req[r].at = "deleted"
    /\ index' = [u \in Units |-> IF u \in req[r].units THEN None ELSE index[u]]
    /\ req' = [req EXCEPT ![r] = Free]
    /\ UNCHANGED <<row, marked, cache, run, reembedding, changes, blind, lost, mixed, whole>>

(* A call fails or the process dies: the row stays as it was, what was written elsewhere too.     *)
Fail(r) ==
    /\ req[r] # Free
    /\ mixed' = IF req[r].at \in {"written", "upserted", "deleted"} THEN mixed \cup {req[r].doc} ELSE mixed
    /\ req' = [req EXCEPT ![r] = Free]
    /\ UNCHANGED <<row, marked, cache, index, run, reembedding, changes, blind, lost, whole>>
----------------------------------------------------------------------------
(* The embed and index steps of a document, as in Pipeline but with the texts.                   *)

(* From embed or from index on, by a retry.                                                      *)
Retry(w, d, at) ==
    /\ run[w] = Resting
    /\ Change
    /\ run' = [run EXCEPT ![w] = [Resting EXCEPT !.at = at, !.doc = d]]
    /\ UNCHANGED <<row, marked, cache, index, req, reembedding, blind, lost, mixed, whole>>

(* Rows without a mark.                                                                          *)
EmbedRead(w) ==
    LET d == run[w].doc
        due == RowsOf(d) \ marked
        alone == AsksFor(d) = {} /\ RunsFor(d) = {} /\ due = RowsOf(d)
    IN /\ run[w].at = "embed"
       /\ run' = [run EXCEPT ![w].at = "embedding", ![w].due = due, ![w].got = Only(row, due)]
       /\ mixed' = IF alone THEN mixed ELSE mixed \cup {d}
       /\ whole' = (whole \ (RunsFor(d) \cup {w})) \cup IF alone THEN {w} ELSE {}
       /\ spare' = spare \ {w}
       /\ UNCHANGED <<row, marked, cache, index, req, status, message, ending, changes, blind, lost,
                      halted, crossed>>

(* The marks are flushed, vectors.json is replaced by what was embedded.                         *)
EmbedStore(w) ==
    LET d == run[w].doc
    IN /\ run[w].at = "embedding"
       /\ run[w].due \subseteq Rows \ (LockedByAsks \cup LockedByRuns)
       /\ cache' = Replaced(cache, d, run[w].got)
       /\ run' = [run EXCEPT ![w].at = "stored"]
       /\ lost' = IF w \in whole THEN lost \ {d} ELSE lost
       /\ UNCHANGED <<row, marked, index, req, reembedding, changes, blind, mixed, whole>>

EmbedCommit(w) ==
    /\ run[w].at = "stored"
    /\ marked' = marked \cup run[w].due
    /\ run' = [run EXCEPT ![w].at = "index", ![w].due = {}, ![w].got = Nothing]
    /\ UNCHANGED <<row, cache, index, req, reembedding, changes, blind, lost, mixed, whole>>

(* The vectors of marked rows, as far as the cache has them.                                     *)
IndexRead(w) ==
    LET d == run[w].doc
        rows == RowsOf(d) \cap marked
        others == RunsFor(d) \ {w}
        sound == AsksFor(d) = {} /\ others = {} /\ d \notin lost /\ rows = RowsOf(d)
    IN /\ run[w].at = "index"
       /\ rows # {}
       /\ run' = [run EXCEPT ![w].at = "indexing", ![w].got = Only(cache, rows)]
       /\ mixed' = IF sound THEN mixed ELSE mixed \cup {d}
       /\ whole' = IF sound THEN whole ELSE whole \ RunsFor(d)
       /\ UNCHANGED <<row, marked, cache, index, req, reembedding, changes, blind, lost>>

(* The variant only adds vectors.                                                                *)
IndexDeleteSkipped(w) ==
    /\ run[w].at = "indexing"
    /\ run' = [run EXCEPT ![w].at = "cleared"]
    /\ UNCHANGED <<row, marked, cache, index, req, reembedding, changes, blind, lost, mixed, whole>>
IndexDelete(w) ==
    /\ run[w].at = "indexing"
    /\ index' = Replaced(index, run[w].doc, Nothing)
    /\ run' = [run EXCEPT ![w].at = "cleared"]
    /\ UNCHANGED <<row, marked, cache, req, reembedding, changes, blind, lost, mixed, whole>>

(* What a run leads to: the next document of a re-embedding, or the end.                         *)
After(w) == IF run[w].task = None THEN Resting
            ELSE [Resting EXCEPT !.at = "check", !.task = run[w].task, !.left = run[w].left]

(* A run that has read all rows and met nobody has put everything in order.                      *)
IndexUpsert(w) ==
    LET d == run[w].doc
        got == run[w].got
    IN /\ run[w].at = "cleared"
       /\ index' = [u \in Units |-> IF got[u] # None THEN got[u] ELSE index[u]]
       /\ run' = [run EXCEPT ![w] = After(w)]
       /\ mixed' = IF w \in whole THEN mixed \ {d} ELSE mixed
       /\ blind' = IF w \in whole THEN blind \ UnitsOf(d) ELSE blind
       /\ whole' = whole \ {w}
       /\ UNCHANGED <<row, marked, cache, req, reembedding, changes, lost>>

(* A step fails, or has nothing to index.  The failure commits the marks of the batches that     *)
(* were embedded.  A re-embedding goes on to the next document.                                  *)
RunFails(w) ==
    LET locked == LockedByAsks \cup UNION {run[o].due : o \in {o \in Workers : run[o].at = "stored"}}
    IN /\ run[w].at \in {"embed", "embedding", "stored", "index", "indexing", "cleared"}
       /\ \E done \in SUBSET run[w].due :
            /\ run[w].at # "embedding" => done = {}
            /\ done \subseteq Rows \ locked
            /\ marked' = marked \cup done
       /\ mixed' = mixed \cup {run[w].doc}
       /\ whole' = whole \ {w}
       /\ spare' = spare \ {w}
       /\ run' = [run EXCEPT ![w] = After(w)]
       /\ UNCHANGED <<row, cache, index, req, status, message, ending, changes, blind, lost, halted, crossed>>
----------------------------------------------------------------------------
(* The re-embedding of the space.                                                                *)

content == <<row, cache, index, req, blind, lost, mixed, whole>>

(* create_reembed counts the running tasks, and then commits one more and sends it.              *)
Ask(t) ==
    /\ status[t] = "none"
    /\ \A o \in Tasks : status[o] \notin {"pending", "running"}
    /\ status' = [status EXCEPT ![t] = "asked"]
    /\ UNCHANGED <<content, marked, run, message, ending, changes, halted, crossed, spare>>

AskCommit(t) ==
    /\ status[t] = "asked"
    /\ status' = [status EXCEPT ![t] = "pending"]
    /\ message' \in {message, message \cup {t}}
    /\ UNCHANGED <<content, marked, run, ending, changes, halted, crossed, spare>>

(* A message is taken, and may be delivered again.  A cancelled task is left alone.              *)
Deliver(w, t) ==
    /\ run[w] = Resting
    /\ t \in message
    /\ Change
    /\ message' \in {message, message \ {t}}
    /\ run' = IF status[t] = "failed" THEN run
              ELSE [run EXCEPT ![w] = [Resting EXCEPT !.at = "start", !.task = t, !.was = status[t]]]
    /\ UNCHANGED <<content, marked, status, ending, halted, crossed, spare>>

(* The task is RUNNING, unless it was so when it was read, and no row of the space keeps its     *)
(* mark.  The UPDATE waits for rows that are locked; rows not yet committed it does not see.     *)
Start(w) ==
    LET t == run[w].task
    IN /\ run[w].at = "start"
       /\ LockedByAsks \cup LockedByRuns = {}
       /\ status' = IF run[w].was = "running" THEN status ELSE [status EXCEPT ![t] = "running"]
       /\ marked' = {}
       /\ run' = [run EXCEPT ![w] = [Resting EXCEPT !.at = "check", !.task = t, !.left = Documents]]
       /\ UNCHANGED <<content, message, ending, changes, halted, crossed, spare>>

(* Before each document the task is read: it goes on unless it is FAILED.  The variant goes on.   *)
CheckUnread(w, d) ==
    /\ run[w].at = "check"
    /\ d \in run[w].left
    /\ run' = [run EXCEPT ![w].at = "embed", ![w].doc = d, ![w].left = @ \ {d}]
    /\ UNCHANGED <<content, marked, status, message, ending, changes, halted, crossed, spare>>
Check(w, d) ==
    /\ run[w].at = "check"
    /\ d \in run[w].left
    /\ run' = IF status[run[w].task] = "failed" THEN [run EXCEPT ![w] = Resting]
              ELSE [run EXCEPT ![w].at = "embed", ![w].doc = d, ![w].left = @ \ {d}]
    /\ UNCHANGED <<content, marked, status, message, ending, changes, halted, crossed, spare>>

(* The last commit does not look at the status.                                                  *)
Finish(w) ==
    /\ run[w].at = "check"
    /\ run[w].left = {}
    /\ status' = [status EXCEPT ![run[w].task] = "succeeded"]
    /\ run' = [run EXCEPT ![w] = Resting]
    /\ UNCHANGED <<content, marked, message, ending, changes, halted, crossed, spare>>

(* Any error outside the run of a document, or the death of the process between two of them.     *)
Stop(w) ==
    /\ run[w].at \in {"start", "check"}
    /\ run' = [run EXCEPT ![w] = Resting]
    /\ UNCHANGED <<content, marked, status, message, ending, changes, halted, crossed, spare>>

(* cancel_reembed reads the status, and then sets it.                                            *)
Cancel(t) ==
    /\ status[t] \in {"pending", "running"}
    /\ t \notin ending
    /\ Change
    /\ ending' = ending \cup {t}
    /\ UNCHANGED <<content, marked, run, status, message, halted, crossed, spare>>

CancelCommit(t) ==
    LET on == {w \in Workers : run[w].task = t}
    IN /\ t \in ending
       /\ ending' = ending \ {t}
       /\ status' = [status EXCEPT ![t] = "failed"]
       /\ halted' = halted \cup {t}
       /\ crossed' = IF \E w \in on : run[w].at = "start" \/ run[w].left = {} THEN crossed \cup {t} ELSE crossed
       /\ spare' = spare \cup {w \in on : run[w].at = "embed"}
       /\ UNCHANGED <<content, marked, run, message, changes>>
----------------------------------------------------------------------------
Next ==
    \/ \E r \in Requests :
        \/ \E u \in Units : Create(r, u)
        \/ \E u \in Units, column \in Columns : Edit(r, u, column)
        \/ EditFlush(r)
        \/ EditStale(r)
        \/ ReadCache(r)
        \/ ReadNothing(r)
        \/ \E S \in SUBSET Units : Delete(r, S)
        \/ WriteCache(r)
        \/ Upsert(r)
        \/ Commit(r)
        \/ DeleteCommit(r)
        \/ DeleteVectors(r)
        \/ Fail(r)
    \/ \E w \in Workers :
        \/ \E d \in Documents, at \in {"embed", "index"} : Retry(w, d, at)
        \/ EmbedRead(w)
        \/ EmbedStore(w)
        \/ EmbedCommit(w)
        \/ IndexRead(w)
        \/ IndexDelete(w)
        \/ IndexUpsert(w)
        \/ RunFails(w)
        \/ \E t \in Tasks : Deliver(w, t)
        \/ Start(w)
        \/ \E d \in Documents : Check(w, d)
        \/ Finish(w)
        \/ Stop(w)
    \/ \E t \in Tasks : Ask(t) \/ AskCommit(t) \/ Cancel(t) \/ CancelCommit(t)

Spec == Init /\ [][Next]_vars
----------------------------------------------------------------------------
Vectors == [Units -> Texts \cup {None}]
Asks == [op : {"none", "create", "edit", "delete"},
         at : {"none", "loaded", "flushed", "read", "written", "upserted", "deleted"},
         doc : Documents \cup {None}, units : SUBSET Units, text : Texts \cup {None},
         column : Columns \cup {None}, set : BOOLEAN, cached : Vectors]
Runs == [at : {"none", "embed", "embedding", "stored", "index", "indexing", "cleared", "start", "check"},
         task : Tasks \cup {None}, was : {"none", "asked", "pending", "running", "succeeded", "failed"},
         doc : Documents \cup {None}, left : SUBSET Documents, got : Vectors, due : SUBSET Units]

TypeOK ==
    /\ row \in Vectors /\ cache \in Vectors /\ index \in Vectors
    /\ marked \subseteq Units
    /\ req \in [Requests -> Asks]
    /\ run \in [Workers -> Runs]
    /\ status \in [Tasks -> {"none", "asked", "pending", "running", "succeeded", "failed"}]
    /\ message \subseteq Tasks /\ ending \subseteq Tasks
    /\ changes \in 0..MaxChanges
    /\ blind \subseteq Units /\ lost \subseteq Documents /\ mixed \subseteq Documents
    /\ halted \subseteq Tasks /\ crossed \subseteq Tasks /\ spare \subseteq Workers /\ whole \subseteq Workers

Settled(u) == RunsFor(Of[u]) = {} /\ \A r \in Requests : u \notin req[r].units

(* Milvus has the vector of each unit's present text and none of a unit that is gone, whatever   *)
(* requests overlap: unless an edit had loaded another text of the unit, or the document was run  *)
(* beside something else, in part, or from a damaged cache and never alone and whole since.      *)
SearchFollowsEdits ==
    \A u \in Units \ blind : (Settled(u) /\ Of[u] \notin mixed) => index[u] = row[u]

(* The cache has them as well, so that the next index step keeps them, unless two requests have   *)
(* overwritten each other's cache, or one could not read it and wrote a new one.                  *)
CacheFollowsEdits ==
    \A u \in Rows \ blind : (Settled(u) /\ Of[u] \notin mixed \cup lost) => cache[u] = row[u]

(* A re-embedding that is cancelled begins no further document but the one it had checked for     *)
(* and stays FAILED, unless it was starting or at its last document.                             *)
CancelStops ==
    [][/\ \A t \in (halted \ crossed) : status[t] = "failed" => status'[t] = "failed"
       /\ \A w \in Workers :
             (run[w].at = "embed" /\ run'[w].at = "embedding" /\ run[w].task \in halted \ crossed)
                => w \in spare]_vars
=============================================================================
