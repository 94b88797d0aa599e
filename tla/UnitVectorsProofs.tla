-------------------------- MODULE UnitVectorsProofs --------------------------
(***************************************************************************)
(* Type correctness of UnitVectors, that a cancelled re-embedding stops    *)
(* (CancelStops), and that the cache and Milvus follow the edits of units  *)
(* (SearchFollowsEdits, CacheFollowsEdits) whatever requests, runs and     *)
(* re-embeddings overlap: for any number of units, documents, requests,    *)
(* workers and tasks.                                                      *)
(***************************************************************************)
EXTENDS UnitVectors, TLAPS

(* A request has its document; edits and additions are of one unit and have a text.              *)
Formed ==
    \A r \in Requests :
        /\ req[r].at # "none" => req[r].doc \in Documents
        /\ req[r].op \in {"create", "edit"} =>
              req[r].text \in Texts /\ \E u \in Units : req[r].units = {u}
        /\ req[r].at = "upserted" => req[r].op \in {"create", "edit"}

(* From its flush on an edit holds the row: no deletion takes it away.                           *)
EditsHold ==
    \A r \in Requests :
        (req[r].op = "edit" /\ req[r].at \in {"flushed", "read", "written", "upserted"})
            => req[r].units \subseteq Rows

(* A step of a document has its document.                                                        *)
OfDocument == {"embed", "embedding", "stored", "index", "indexing", "cleared"}
RunsHaveDocuments == \A w \in Workers : run[w].at \in OfDocument => run[w].doc \in Documents

WellTyped == TypeOK /\ Formed /\ EditsHold /\ RunsHaveDocuments

LEMMA InitWellTyped == Init => WellTyped
<1> SUFFICES ASSUME Init PROVE WellTyped
  OBVIOUS

<1>1. [c \in Columns |-> 0] \in Texts
  BY UnitVectorsAssumption DEF Texts
<1>2. row \in Vectors
  BY <1>1 DEF Init, Vectors
<1>3. Nothing \in Vectors
  BY DEF Nothing, Vectors
<1>4. Free \in Asks /\ Free.op = "none" /\ Free.at = "none"
  BY <1>3 DEF Free, Asks
<1>5. Resting \in Runs
  BY <1>3 DEF Resting, Runs
<1>6. TypeOK
  BY <1>2, <1>4, <1>5, UnitVectorsAssumption DEF Init, TypeOK, Rows
<1>7. Formed /\ EditsHold /\ RunsHaveDocuments
  BY <1>4 DEF Init, Formed, EditsHold, RunsHaveDocuments, Resting, OfDocument
<1> QED
  BY <1>6, <1>7 DEF WellTyped

(* A step that leaves the requests and rows alone.                                               *)
LEMMA RequestsAlone ==
  ASSUME WellTyped, UNCHANGED <<row, req>>
  PROVE  Formed' /\ EditsHold'
  BY DEF WellTyped, Formed, EditsHold, Rows

LEMMA CreateTyped ==
  ASSUME WellTyped, NEW r \in Requests, NEW u \in Units, Create(r, u)
  PROVE  WellTyped'
<1> USE UnitVectorsAssumption DEF WellTyped
<1>1. Of[u] \in Documents /\ changes + 1 \in 0..MaxChanges
  BY DEF Create, Change, TypeOK
<1>2. [c \in Columns |-> changes + 1] \in Texts
  BY <1>1 DEF Texts
<1>3. Nothing \in Vectors
  BY DEF Nothing, Vectors
<1>4. req'[r] \in Asks /\ req'[r].op = "create" /\ req'[r].at = "flushed"
      /\ req'[r].units = {u} /\ req'[r].text \in Texts /\ req'[r].doc \in Documents
  BY <1>1, <1>2, <1>3 DEF Create, TypeOK, Free, Asks
<1>5. \A q \in Requests \ {r} : req'[q] = req[q]
  BY DEF Create, TypeOK
<1>6. TypeOK'
  BY <1>1, <1>4 DEF Create, Change, Meets, TypeOK, reembedding
<1>7. Formed' /\ EditsHold'
  BY <1>4, <1>5 DEF Formed, EditsHold, Rows, Create
<1>20. RunsHaveDocuments'
  BY DEF WellTyped, Create, RunsHaveDocuments
<1> QED
  BY <1>20, <1>6, <1>7

LEMMA EditTyped ==
  ASSUME WellTyped, NEW r \in Requests, NEW u \in Units, NEW column \in Columns, Edit(r, u, column)
  PROVE  WellTyped'
<1> USE UnitVectorsAssumption DEF WellTyped
<1>1. Of[u] \in Documents /\ changes + 1 \in 0..MaxChanges /\ row[u] \in Texts
  BY DEF Edit, Change, TypeOK, Vectors
<1>2. [row[u] EXCEPT ![column] = changes + 1] \in Texts
  BY <1>1 DEF Texts
<1>3. Nothing \in Vectors
  BY DEF Nothing, Vectors
<1>4. req'[r] \in Asks /\ req'[r].op = "edit" /\ req'[r].at = "loaded"
      /\ req'[r].units = {u} /\ req'[r].text \in Texts /\ req'[r].doc \in Documents
  BY <1>1, <1>2, <1>3 DEF Edit, TypeOK, Free, Asks
<1>5. \A q \in Requests \ {r} : req'[q] = req[q]
  BY DEF Edit, TypeOK
<1>6. TypeOK'
  BY <1>1, <1>4 DEF Edit, Change, Meets, TypeOK, reembedding
<1>7. Formed' /\ EditsHold'
  BY <1>4, <1>5 DEF Formed, EditsHold, Rows, Edit
<1>20. RunsHaveDocuments'
  BY DEF WellTyped, Edit, RunsHaveDocuments
<1> QED
  BY <1>20, <1>6, <1>7

LEMMA EditFlushTyped ==
  ASSUME WellTyped, NEW r \in Requests, EditFlush(r)
  PROVE  WellTyped'
<1>1. TypeOK'
  BY DEF WellTyped, EditFlush, TypeOK, Asks, reembedding
<1>2. Formed' /\ EditsHold'
  BY DEF WellTyped, EditFlush, TypeOK, Asks, Formed, EditsHold, Rows
<1>20. RunsHaveDocuments'
  BY DEF WellTyped, EditFlush, RunsHaveDocuments
<1> QED
  BY <1>20, <1>1, <1>2 DEF WellTyped

LEMMA ReadCacheTyped ==
  ASSUME WellTyped, NEW r \in Requests, ReadCache(r)
  PROVE  WellTyped'
<1>1. Only(cache, UnitsOf(req[r].doc) \ req[r].units) \in Vectors
  BY DEF WellTyped, TypeOK, Only, Vectors
<1> DEFINE t == [req[r] EXCEPT !.at = "read", !.cached = Only(cache, UnitsOf(req[r].doc) \ req[r].units)]
<1>4. req[r] \in Asks
  BY DEF WellTyped, TypeOK
<1>5. t \in Asks
  BY <1>1, <1>4 DEF Asks
<1>6. req' = [req EXCEPT ![r] = t]
  BY DEF ReadCache
<1> HIDE DEF t
<1>2. TypeOK'
  BY <1>5, <1>6 DEF WellTyped, ReadCache, TypeOK, reembedding
<1>3. Formed' /\ EditsHold'
  BY DEF WellTyped, ReadCache, TypeOK, Asks, Formed, EditsHold, Rows
<1>20. RunsHaveDocuments'
  BY DEF WellTyped, ReadCache, RunsHaveDocuments
<1> QED
  BY <1>20, <1>2, <1>3 DEF WellTyped

LEMMA ReadNothingTyped ==
  ASSUME WellTyped, NEW r \in Requests, ReadNothing(r)
  PROVE  WellTyped'
<1>1. TypeOK'
  BY DEF WellTyped, ReadNothing, TypeOK, Asks, reembedding
<1>2. Formed' /\ EditsHold'
  BY DEF WellTyped, ReadNothing, TypeOK, Asks, Formed, EditsHold, Rows
<1>20. RunsHaveDocuments'
  BY DEF WellTyped, ReadNothing, RunsHaveDocuments
<1> QED
  BY <1>20, <1>1, <1>2 DEF WellTyped

LEMMA DeleteTyped ==
  ASSUME WellTyped, NEW r \in Requests, NEW S \in SUBSET Units, Delete(r, S)
  PROVE  WellTyped'
<1> USE UnitVectorsAssumption DEF WellTyped
<1> DEFINE d == Of[CHOOSE u \in S : TRUE]
<1>1. d \in Documents /\ changes + 1 \in 0..MaxChanges
  BY DEF Delete, Change, TypeOK
<1>2. Nothing \in Vectors
  BY DEF Nothing, Vectors
<1>3. req' = [req EXCEPT ![r] = [Free EXCEPT !.op = "delete", !.at = "flushed", !.doc = d, !.units = S]]
  BY DEF Delete
<1>4. Meets(d) /\ UNCHANGED <<row, marked, cache, index, run, reembedding, blind, lost>>
      /\ changes' = changes + 1
  BY DEF Delete, Change
<1> HIDE DEF d
<1>5. req'[r] \in Asks /\ req'[r].op = "delete" /\ req'[r].at = "flushed"
      /\ req'[r].doc \in Documents
  BY <1>1, <1>2, <1>3 DEF TypeOK, Free, Asks
<1>6. \A q \in Requests \ {r} : req'[q] = req[q]
  BY <1>3 DEF TypeOK
<1>7. TypeOK'
  BY <1>1, <1>3, <1>4, <1>5 DEF Meets, TypeOK, reembedding
<1>8. Formed' /\ EditsHold'
  BY <1>4, <1>5, <1>6 DEF Formed, EditsHold, Rows
<1>20. RunsHaveDocuments'
  BY DEF WellTyped, Delete, RunsHaveDocuments
<1> QED
  BY <1>20, <1>7, <1>8

LEMMA WriteCacheTyped ==
  ASSUME WellTyped, NEW r \in Requests, WriteCache(r)
  PROVE  WellTyped'
<1> USE DEF WellTyped
<1> DEFINE new == [u \in Units |-> IF u \in req[r].units THEN req[r].text ELSE req[r].cached[u]]
<1>1. new \in Vectors
  BY DEF TypeOK, Asks, Vectors
<1>2. cache' \in Vectors
  BY <1>1 DEF WriteCache, Replaced, TypeOK, Vectors
<1> DEFINE t == [req[r] EXCEPT !.at = "written", !.cached = Nothing]
<1>3. req[r].at = "read" /\ req' = [req EXCEPT ![r] = t]
      /\ UNCHANGED <<row, marked, index, run, reembedding, changes, blind, mixed, whole>>
  BY DEF WriteCache
<1>7. /\ t \in Asks /\ t.at = "written" /\ t.op = req[r].op /\ t.doc = req[r].doc
      /\ t.units = req[r].units /\ t.text = req[r].text
  BY DEF TypeOK, Asks, Nothing, Vectors
<1> HIDE DEF t
<1>4. lost' \subseteq Documents
  BY UnitVectorsAssumption DEF WriteCache, TypeOK, UnitsOf
<1>5. TypeOK'
  BY <1>2, <1>3, <1>4, <1>7 DEF TypeOK, reembedding
<1>6. Formed' /\ EditsHold'
  BY <1>3, <1>7 DEF TypeOK, Formed, EditsHold, Rows
<1>20. RunsHaveDocuments'
  BY DEF WellTyped, WriteCache, RunsHaveDocuments
<1> QED
  BY <1>20, <1>5, <1>6

LEMMA UpsertTyped ==
  ASSUME WellTyped, NEW r \in Requests, Upsert(r)
  PROVE  WellTyped'
<1>1. index' \in Vectors
  BY DEF WellTyped, Upsert, TypeOK, Asks, Vectors
<1>2. TypeOK'
  BY <1>1 DEF WellTyped, Upsert, TypeOK, Asks, reembedding
<1>3. Formed' /\ EditsHold'
  BY DEF WellTyped, Upsert, TypeOK, Asks, Formed, EditsHold, Rows
<1>20. RunsHaveDocuments'
  BY DEF WellTyped, Upsert, RunsHaveDocuments
<1> QED
  BY <1>20, <1>2, <1>3 DEF WellTyped

LEMMA CommitTyped ==
  ASSUME WellTyped, NEW r \in Requests, Commit(r)
  PROVE  WellTyped' /\ req[r].units \subseteq Rows'
<1> USE DEF WellTyped
<1>1. PICK u \in Units : req[r].units = {u}
  BY DEF Commit, Formed
<1>2. (CHOOSE x \in req[r].units : TRUE) = u
  BY <1>1
<1>3. req[r].text \in Texts /\ (req[r].op = "edit" => row[u] \in Texts)
  BY <1>1 DEF Commit, Formed, EditsHold, Rows, TypeOK, Vectors
<1> DEFINE new == IF req[r].op = "create" THEN req[r].text
                  ELSE [row[u] EXCEPT ![req[r].column] = req[r].text[req[r].column]]
<1>4. new \in Texts
  <2>1. CASE req[r].op = "create"
    BY <1>3, <2>1
  <2>2. CASE req[r].op = "edit"
    <3>1. row[u] \in Texts /\ req[r].text \in Texts
      BY <1>3, <2>2
    <3>2. new = [row[u] EXCEPT ![req[r].column] = req[r].text[req[r].column]]
      BY <2>2
    <3>3. new \in [Columns -> 0..MaxChanges]
      BY <3>1, <3>2 DEF Texts
    <3> QED
      BY <3>3 DEF Texts
  <2> QED
    BY <2>1, <2>2 DEF Commit, Formed
<1>5. row' = [row EXCEPT ![u] = new]
  <2> DEFINE x == CHOOSE x \in req[r].units : TRUE
  <2>1. row' = [row EXCEPT ![x] = IF req[r].op = "create" THEN req[r].text
                                  ELSE [row[x] EXCEPT ![req[r].column] = req[r].text[req[r].column]]]
    BY DEF Commit
  <2>2. x = u
    BY <1>2
  <2> HIDE DEF x
  <2> QED
    BY <2>1, <2>2
<1> HIDE DEF new
<1>6. row' \in Vectors /\ Rows \subseteq Rows' /\ u \in Rows'
  <2>1. new # None
    BY <1>4, UnitVectorsAssumption DEF Texts
  <2> QED
    BY <1>4, <1>5, <2>1 DEF TypeOK, Vectors, Rows
<1>7. Free \in Asks /\ Free.op = "none" /\ Free.at = "none"
  BY DEF Free, Asks, Nothing, Vectors
<1>8. /\ req' = [req EXCEPT ![r] = Free]
      /\ marked' = (IF req[r].set THEN marked \cup {u} ELSE marked)
      /\ blind' = (IF row'[u] = req[r].text THEN blind \ {u} ELSE blind \cup {u})
      /\ UNCHANGED <<cache, index, run, reembedding, changes, lost, mixed, whole>>
  BY <1>2 DEF Commit
<1> HIDE <1>5
<1>9. TypeOK'
  BY <1>6, <1>7, <1>8 DEF TypeOK, reembedding
<1>10. Formed' /\ EditsHold'
  <2>1. \A q \in Requests : req'[q] = req[q] \/ req'[q] = Free
    BY <1>8 DEF TypeOK
  <2> QED
    BY <1>6, <1>7, <2>1 DEF Formed, EditsHold
<1>20. RunsHaveDocuments'
  BY DEF WellTyped, Commit, RunsHaveDocuments
<1> QED
  BY <1>1, <1>6, <1>20, <1>9, <1>10

LEMMA DeleteCommitTyped ==
  ASSUME WellTyped, NEW r \in Requests, DeleteCommit(r)
  PROVE  WellTyped'
<1> USE DEF WellTyped
<1>1. row' \in Vectors
  BY DEF DeleteCommit, TypeOK, Vectors
<1>2. TypeOK'
  BY <1>1 DEF DeleteCommit, TypeOK, Asks, reembedding
<1>3. \A q \in Requests : /\ req'[q].op = req[q].op /\ req'[q].units = req[q].units
                          /\ req'[q].text = req[q].text /\ req'[q].doc = req[q].doc
                          /\ req'[q].at = IF q = r THEN "deleted" ELSE req[q].at
  BY DEF DeleteCommit, TypeOK, Asks
<1>4. Formed'
  BY <1>3 DEF Formed, DeleteCommit
<1>5. EditsHold'
  <2> SUFFICES ASSUME NEW q \in Requests, req'[q].op = "edit",
                      req'[q].at \in {"flushed", "read", "written", "upserted"},
                      NEW u \in req'[q].units
               PROVE  u \in Rows'
    BY DEF EditsHold
  <2>1. u \in req[q].units /\ u \in Rows /\ u \in LockedByAsks
    BY <1>3 DEF EditsHold, LockedByAsks
  <2>2. u \in Units /\ u \notin req[r].units
    BY <2>1 DEF DeleteCommit, Rows
  <2> QED
    BY <2>1, <2>2 DEF DeleteCommit, Rows
<1>20. RunsHaveDocuments'
  BY DEF WellTyped, DeleteCommit, RunsHaveDocuments
<1> QED
  BY <1>20, <1>2, <1>4, <1>5

LEMMA EditStaleTyped ==
  ASSUME WellTyped, NEW r \in Requests, EditStale(r)
  PROVE  WellTyped'
<1> USE DEF WellTyped
<1>1. Free \in Asks /\ Free.op = "none" /\ Free.at = "none"
  BY DEF Free, Asks, Nothing, Vectors
<1>2. index' \in Vectors
  BY DEF EditStale, TypeOK, Vectors, Asks
<1>3. mixed' \subseteq Documents
  BY DEF EditStale, TypeOK, Asks
<1>4. TypeOK'
  BY <1>1, <1>2, <1>3 DEF EditStale, TypeOK, reembedding
<1>5. \A q \in Requests : req'[q] = req[q] \/ req'[q] = Free
  BY DEF EditStale, TypeOK
<1>6. Formed' /\ EditsHold'
  BY <1>1, <1>5 DEF Formed, EditsHold, Rows, EditStale
<1>20. RunsHaveDocuments'
  BY DEF WellTyped, EditStale, RunsHaveDocuments
<1> QED
  BY <1>20, <1>4, <1>6

LEMMA DeleteVectorsTyped ==
  ASSUME WellTyped, NEW r \in Requests, DeleteVectors(r)
  PROVE  WellTyped'
<1> USE DEF WellTyped
<1>1. Free \in Asks /\ Free.op = "none" /\ Free.at = "none"
  BY DEF Free, Asks, Nothing, Vectors
<1>2. index' \in Vectors
  BY DEF DeleteVectors, TypeOK, Vectors, Asks
<1>3. mixed' \subseteq Documents
  BY DEF DeleteVectors, TypeOK, Asks
<1>4. TypeOK'
  BY <1>1, <1>2, <1>3 DEF DeleteVectors, TypeOK, reembedding
<1>5. \A q \in Requests : req'[q] = req[q] \/ req'[q] = Free
  BY DEF DeleteVectors, TypeOK
<1>6. Formed' /\ EditsHold'
  BY <1>1, <1>5 DEF Formed, EditsHold, Rows, DeleteVectors
<1>20. RunsHaveDocuments'
  BY DEF WellTyped, DeleteVectors, RunsHaveDocuments
<1> QED
  BY <1>20, <1>4, <1>6

LEMMA FailTyped ==
  ASSUME WellTyped, NEW r \in Requests, Fail(r)
  PROVE  WellTyped'
<1> USE DEF WellTyped
<1>1. Free \in Asks /\ Free.op = "none" /\ Free.at = "none"
  BY DEF Free, Asks, Nothing, Vectors
<1>2. index' \in Vectors
  BY DEF Fail, TypeOK, Vectors, Asks
<1>3. mixed' \subseteq Documents
  BY DEF Fail, TypeOK, Formed
<1>4. TypeOK'
  BY <1>1, <1>2, <1>3 DEF Fail, TypeOK, reembedding
<1>5. \A q \in Requests : req'[q] = req[q] \/ req'[q] = Free
  BY DEF Fail, TypeOK
<1>6. Formed' /\ EditsHold'
  BY <1>1, <1>5 DEF Formed, EditsHold, Rows, Fail
<1>20. RunsHaveDocuments'
  BY DEF WellTyped, Fail, RunsHaveDocuments
<1> QED
  BY <1>20, <1>4, <1>6

LEMMA RestingRuns == Resting \in Runs /\ Nothing \in Vectors
  BY DEF Resting, Runs, Nothing, Vectors

LEMMA AfterRuns ==
  ASSUME WellTyped, NEW w \in Workers
  PROVE  After(w) \in Runs /\ After(w).at \notin OfDocument
  BY RestingRuns DEF WellTyped, TypeOK, After, Resting, Runs, OfDocument

(* A run goes on and leaves rows and requests alone.                                             *)
LEMMA RunStep ==
  ASSUME WellTyped, NEW w \in Workers, NEW t \in Runs, run' = [run EXCEPT ![w] = t],
         t.at \in OfDocument => t.doc \in Documents,
         UNCHANGED <<row, req>>,
         cache' \in Vectors, index' \in Vectors, marked' \subseteq Units,
         status' \in [Tasks -> {"none", "asked", "pending", "running", "succeeded", "failed"}],
         message' \subseteq Tasks, ending' \subseteq Tasks, changes' \in 0..MaxChanges,
         blind' \subseteq Units, lost' \subseteq Documents, mixed' \subseteq Documents,
         halted' \subseteq Tasks, crossed' \subseteq Tasks, spare' \subseteq Workers,
         whole' \subseteq Workers
  PROVE  WellTyped'
<1>1. TypeOK'
  BY DEF WellTyped, TypeOK
<1> QED
  BY <1>1, RequestsAlone DEF WellTyped, TypeOK, RunsHaveDocuments

LEMMA RetryTyped ==
  ASSUME WellTyped, NEW w \in Workers, NEW d \in Documents, NEW at \in {"embed", "index"}, Retry(w, d, at)
  PROVE  WellTyped'
<1> USE DEF WellTyped
<1> DEFINE t == [Resting EXCEPT !.at = at, !.doc = d]
<1>1. run' = [run EXCEPT ![w] = t] /\ UNCHANGED <<row, req>>
  BY DEF Retry, reembedding, content
<1>2. t \in Runs
  BY RestingRuns, AfterRuns DEF TypeOK, Runs, Resting
<1>3. t.at \in OfDocument => t.doc \in Documents
  BY AfterRuns DEF Retry, TypeOK, Runs, RunsHaveDocuments, OfDocument, Resting
<1> HIDE DEF t
<1>4. UNCHANGED <<cache, index, marked, status, message, ending, blind, lost, mixed, halted, crossed, spare, whole>>
  BY DEF Retry, reembedding, content
<1>5. changes' \in 0..MaxChanges
  BY UnitVectorsAssumption DEF Retry, Change, TypeOK
<1>6. /\ cache' \in Vectors
      /\ index' \in Vectors
      /\ marked' \subseteq Units
      /\ status' \in [Tasks -> {"none", "asked", "pending", "running", "succeeded", "failed"}]
      /\ message' \subseteq Tasks
      /\ ending' \subseteq Tasks
      /\ blind' \subseteq Units
      /\ lost' \subseteq Documents
      /\ mixed' \subseteq Documents
      /\ halted' \subseteq Tasks
      /\ crossed' \subseteq Tasks
      /\ spare' \subseteq Workers
      /\ whole' \subseteq Workers
  BY <1>4 DEF TypeOK
<1> HIDE DEF WellTyped
<1> QED
  BY <1>1, <1>2, <1>3, <1>5, <1>6, RunStep

LEMMA EmbedReadTyped ==
  ASSUME WellTyped, NEW w \in Workers, EmbedRead(w)
  PROVE  WellTyped'
<1> USE DEF WellTyped
<1> DEFINE t == [run[w] EXCEPT !.at = "embedding", !.due = RowsOf(run[w].doc) \ marked,
                                !.got = Only(row, RowsOf(run[w].doc) \ marked)]
<1>1. run' = [run EXCEPT ![w] = t] /\ UNCHANGED <<row, req>>
  BY DEF EmbedRead, reembedding, content
<1>2. t \in Runs
  BY RestingRuns, AfterRuns DEF TypeOK, Runs, RowsOf, Rows, Only, Vectors
<1>3. t.at \in OfDocument => t.doc \in Documents
  BY AfterRuns DEF EmbedRead, TypeOK, Runs, RunsHaveDocuments, OfDocument, Resting
<1> HIDE DEF t
<1>4. UNCHANGED <<cache, index, marked, status, message, ending, changes, blind, lost, halted, crossed>>
  BY DEF EmbedRead, reembedding, content
<1>5. mixed' \subseteq Documents
  BY UnitVectorsAssumption DEF EmbedRead, TypeOK, RunsHaveDocuments, OfDocument
<1>6. spare' \subseteq Workers
  BY UnitVectorsAssumption DEF EmbedRead, TypeOK
<1>7. whole' \subseteq Workers
  BY UnitVectorsAssumption DEF EmbedRead, TypeOK
<1>8. /\ cache' \in Vectors
      /\ index' \in Vectors
      /\ marked' \subseteq Units
      /\ status' \in [Tasks -> {"none", "asked", "pending", "running", "succeeded", "failed"}]
      /\ message' \subseteq Tasks
      /\ ending' \subseteq Tasks
      /\ changes' \in 0..MaxChanges
      /\ blind' \subseteq Units
      /\ lost' \subseteq Documents
      /\ halted' \subseteq Tasks
      /\ crossed' \subseteq Tasks
  BY <1>4 DEF TypeOK
<1> HIDE DEF WellTyped
<1> QED
  BY <1>1, <1>2, <1>3, <1>5, <1>6, <1>7, <1>8, RunStep

LEMMA EmbedStoreTyped ==
  ASSUME WellTyped, NEW w \in Workers, EmbedStore(w)
  PROVE  WellTyped'
<1> USE DEF WellTyped
<1> DEFINE t == [run[w] EXCEPT !.at = "stored"]
<1>1. run' = [run EXCEPT ![w] = t] /\ UNCHANGED <<row, req>>
  BY DEF EmbedStore, reembedding, content
<1>2. t \in Runs
  BY RestingRuns, AfterRuns DEF TypeOK, Runs
<1>3. t.at \in OfDocument => t.doc \in Documents
  BY AfterRuns DEF EmbedStore, TypeOK, Runs, RunsHaveDocuments, OfDocument, Resting
<1> HIDE DEF t
<1>4. UNCHANGED <<index, marked, status, message, ending, changes, blind, mixed, halted, crossed, spare, whole>>
  BY DEF EmbedStore, reembedding, content
<1>5. cache' \in Vectors
  BY UnitVectorsAssumption DEF EmbedStore, Replaced, TypeOK, Vectors, Runs
<1>6. lost' \subseteq Documents
  BY UnitVectorsAssumption DEF EmbedStore, TypeOK
<1>7. /\ index' \in Vectors
      /\ marked' \subseteq Units
      /\ status' \in [Tasks -> {"none", "asked", "pending", "running", "succeeded", "failed"}]
      /\ message' \subseteq Tasks
      /\ ending' \subseteq Tasks
      /\ changes' \in 0..MaxChanges
      /\ blind' \subseteq Units
      /\ mixed' \subseteq Documents
      /\ halted' \subseteq Tasks
      /\ crossed' \subseteq Tasks
      /\ spare' \subseteq Workers
      /\ whole' \subseteq Workers
  BY <1>4 DEF TypeOK
<1> HIDE DEF WellTyped
<1> QED
  BY <1>1, <1>2, <1>3, <1>5, <1>6, <1>7, RunStep

LEMMA EmbedCommitTyped ==
  ASSUME WellTyped, NEW w \in Workers, EmbedCommit(w)
  PROVE  WellTyped'
<1> USE DEF WellTyped
<1> DEFINE t == [run[w] EXCEPT !.at = "index", !.due = {}, !.got = Nothing]
<1>1. run' = [run EXCEPT ![w] = t] /\ UNCHANGED <<row, req>>
  BY DEF EmbedCommit, reembedding, content
<1>2. t \in Runs
  BY RestingRuns, AfterRuns DEF TypeOK, Runs
<1>3. t.at \in OfDocument => t.doc \in Documents
  BY AfterRuns DEF EmbedCommit, TypeOK, Runs, RunsHaveDocuments, OfDocument, Resting
<1> HIDE DEF t
<1>4. UNCHANGED <<cache, index, status, message, ending, changes, blind, lost, mixed, halted, crossed, spare, whole>>
  BY DEF EmbedCommit, reembedding, content
<1>5. marked' \subseteq Units
  BY UnitVectorsAssumption DEF EmbedCommit, TypeOK, Runs
<1>6. /\ cache' \in Vectors
      /\ index' \in Vectors
      /\ status' \in [Tasks -> {"none", "asked", "pending", "running", "succeeded", "failed"}]
      /\ message' \subseteq Tasks
      /\ ending' \subseteq Tasks
      /\ changes' \in 0..MaxChanges
      /\ blind' \subseteq Units
      /\ lost' \subseteq Documents
      /\ mixed' \subseteq Documents
      /\ halted' \subseteq Tasks
      /\ crossed' \subseteq Tasks
      /\ spare' \subseteq Workers
      /\ whole' \subseteq Workers
  BY <1>4 DEF TypeOK
<1> HIDE DEF WellTyped
<1> QED
  BY <1>1, <1>2, <1>3, <1>5, <1>6, RunStep

LEMMA IndexReadTyped ==
  ASSUME WellTyped, NEW w \in Workers, IndexRead(w)
  PROVE  WellTyped'
<1> USE DEF WellTyped
<1> DEFINE t == [run[w] EXCEPT !.at = "indexing", !.got = Only(cache, RowsOf(run[w].doc) \cap marked)]
<1>1. run' = [run EXCEPT ![w] = t] /\ UNCHANGED <<row, req>>
  BY DEF IndexRead, reembedding, content
<1>2. t \in Runs
  BY RestingRuns, AfterRuns DEF TypeOK, Runs, Only, Vectors
<1>3. t.at \in OfDocument => t.doc \in Documents
  BY AfterRuns DEF IndexRead, TypeOK, Runs, RunsHaveDocuments, OfDocument, Resting
<1> HIDE DEF t
<1>4. UNCHANGED <<cache, index, marked, status, message, ending, changes, blind, lost, halted, crossed, spare>>
  BY DEF IndexRead, reembedding, content
<1>5. mixed' \subseteq Documents
  BY UnitVectorsAssumption DEF IndexRead, TypeOK, RunsHaveDocuments, OfDocument
<1>6. whole' \subseteq Workers
  BY UnitVectorsAssumption DEF IndexRead, TypeOK
<1>7. /\ cache' \in Vectors
      /\ index' \in Vectors
      /\ marked' \subseteq Units
      /\ status' \in [Tasks -> {"none", "asked", "pending", "running", "succeeded", "failed"}]
      /\ message' \subseteq Tasks
      /\ ending' \subseteq Tasks
      /\ changes' \in 0..MaxChanges
      /\ blind' \subseteq Units
      /\ lost' \subseteq Documents
      /\ halted' \subseteq Tasks
      /\ crossed' \subseteq Tasks
      /\ spare' \subseteq Workers
  BY <1>4 DEF TypeOK
<1> HIDE DEF WellTyped
<1> QED
  BY <1>1, <1>2, <1>3, <1>5, <1>6, <1>7, RunStep

LEMMA IndexDeleteTyped ==
  ASSUME WellTyped, NEW w \in Workers, IndexDelete(w)
  PROVE  WellTyped'
<1> USE DEF WellTyped
<1> DEFINE t == [run[w] EXCEPT !.at = "cleared"]
<1>1. run' = [run EXCEPT ![w] = t] /\ UNCHANGED <<row, req>>
  BY DEF IndexDelete, reembedding, content
<1>2. t \in Runs
  BY RestingRuns, AfterRuns DEF TypeOK, Runs
<1>3. t.at \in OfDocument => t.doc \in Documents
  BY AfterRuns DEF IndexDelete, TypeOK, Runs, RunsHaveDocuments, OfDocument, Resting
<1> HIDE DEF t
<1>4. UNCHANGED <<cache, marked, status, message, ending, changes, blind, lost, mixed, halted, crossed, spare, whole>>
  BY DEF IndexDelete, reembedding, content
<1>5. index' \in Vectors
  BY UnitVectorsAssumption DEF IndexDelete, Replaced, TypeOK, Vectors, Nothing
<1>6. /\ cache' \in Vectors
      /\ marked' \subseteq Units
      /\ status' \in [Tasks -> {"none", "asked", "pending", "running", "succeeded", "failed"}]
      /\ message' \subseteq Tasks
      /\ ending' \subseteq Tasks
      /\ changes' \in 0..MaxChanges
      /\ blind' \subseteq Units
      /\ lost' \subseteq Documents
      /\ mixed' \subseteq Documents
      /\ halted' \subseteq Tasks
      /\ crossed' \subseteq Tasks
      /\ spare' \subseteq Workers
      /\ whole' \subseteq Workers
  BY <1>4 DEF TypeOK
<1> HIDE DEF WellTyped
<1> QED
  BY <1>1, <1>2, <1>3, <1>5, <1>6, RunStep

LEMMA IndexUpsertTyped ==
  ASSUME WellTyped, NEW w \in Workers, IndexUpsert(w)
  PROVE  WellTyped'
<1> USE DEF WellTyped
<1> DEFINE t == After(w)
<1>1. run' = [run EXCEPT ![w] = t] /\ UNCHANGED <<row, req>>
  BY DEF IndexUpsert, reembedding, content
<1>2. t \in Runs
  BY RestingRuns, AfterRuns DEF TypeOK, Runs
<1>3. t.at \in OfDocument => t.doc \in Documents
  BY AfterRuns DEF IndexUpsert, TypeOK, Runs, RunsHaveDocuments, OfDocument, Resting
<1> HIDE DEF t
<1>4. UNCHANGED <<cache, marked, status, message, ending, changes, lost, halted, crossed, spare>>
  BY DEF IndexUpsert, reembedding, content
<1>5. index' \in Vectors
  BY UnitVectorsAssumption DEF IndexUpsert, TypeOK, Vectors, Runs
<1>6. mixed' \subseteq Documents
  BY UnitVectorsAssumption DEF IndexUpsert, TypeOK
<1>7. blind' \subseteq Units
  BY UnitVectorsAssumption DEF IndexUpsert, TypeOK
<1>8. whole' \subseteq Workers
  BY UnitVectorsAssumption DEF IndexUpsert, TypeOK
<1>9. /\ cache' \in Vectors
      /\ marked' \subseteq Units
      /\ status' \in [Tasks -> {"none", "asked", "pending", "running", "succeeded", "failed"}]
      /\ message' \subseteq Tasks
      /\ ending' \subseteq Tasks
      /\ changes' \in 0..MaxChanges
      /\ lost' \subseteq Documents
      /\ halted' \subseteq Tasks
      /\ crossed' \subseteq Tasks
      /\ spare' \subseteq Workers
  BY <1>4 DEF TypeOK
<1> HIDE DEF WellTyped
<1> QED
  BY <1>1, <1>2, <1>3, <1>5, <1>6, <1>7, <1>8, <1>9, RunStep

LEMMA RunFailsTyped ==
  ASSUME WellTyped, NEW w \in Workers, RunFails(w)
  PROVE  WellTyped'
<1> USE DEF WellTyped
<1> DEFINE t == After(w)
<1>1. run' = [run EXCEPT ![w] = t] /\ UNCHANGED <<row, req>>
  BY DEF RunFails, reembedding, content
<1>2. t \in Runs
  BY RestingRuns, AfterRuns DEF TypeOK, Runs
<1>3. t.at \in OfDocument => t.doc \in Documents
  BY AfterRuns DEF RunFails, TypeOK, Runs, RunsHaveDocuments, OfDocument, Resting
<1> HIDE DEF t
<1>4. UNCHANGED <<cache, index, status, message, ending, changes, blind, lost, halted, crossed>>
  BY DEF RunFails, reembedding, content
<1>5. marked' \subseteq Units
  BY UnitVectorsAssumption DEF RunFails, TypeOK, Runs
<1>6. mixed' \subseteq Documents
  BY UnitVectorsAssumption DEF RunFails, TypeOK, RunsHaveDocuments, OfDocument
<1>7. spare' \subseteq Workers
  BY UnitVectorsAssumption DEF RunFails, TypeOK
<1>8. whole' \subseteq Workers
  BY UnitVectorsAssumption DEF RunFails, TypeOK
<1>9. /\ cache' \in Vectors
      /\ index' \in Vectors
      /\ status' \in [Tasks -> {"none", "asked", "pending", "running", "succeeded", "failed"}]
      /\ message' \subseteq Tasks
      /\ ending' \subseteq Tasks
      /\ changes' \in 0..MaxChanges
      /\ blind' \subseteq Units
      /\ lost' \subseteq Documents
      /\ halted' \subseteq Tasks
      /\ crossed' \subseteq Tasks
  BY <1>4 DEF TypeOK
<1> HIDE DEF WellTyped
<1> QED
  BY <1>1, <1>2, <1>3, <1>5, <1>6, <1>7, <1>8, <1>9, RunStep

LEMMA StartTyped ==
  ASSUME WellTyped, NEW w \in Workers, Start(w)
  PROVE  WellTyped'
<1> USE DEF WellTyped
<1> DEFINE t == [Resting EXCEPT !.at = "check", !.task = run[w].task, !.left = Documents]
<1>1. run' = [run EXCEPT ![w] = t] /\ UNCHANGED <<row, req>>
  BY DEF Start, reembedding, content
<1>2. t \in Runs
  BY RestingRuns, AfterRuns DEF TypeOK, Runs, Resting
<1>3. t.at \in OfDocument => t.doc \in Documents
  BY AfterRuns DEF Start, TypeOK, Runs, RunsHaveDocuments, OfDocument, Resting
<1> HIDE DEF t
<1>4. UNCHANGED <<cache, index, message, ending, changes, blind, lost, mixed, halted, crossed, spare, whole>>
  BY DEF Start, reembedding, content
<1>5. status' \in [Tasks -> {"none", "asked", "pending", "running", "succeeded", "failed"}]
  BY UnitVectorsAssumption DEF Start, TypeOK, Runs
<1>6. marked' \subseteq Units
  BY UnitVectorsAssumption DEF Start, TypeOK
<1>7. /\ cache' \in Vectors
      /\ index' \in Vectors
      /\ message' \subseteq Tasks
      /\ ending' \subseteq Tasks
      /\ changes' \in 0..MaxChanges
      /\ blind' \subseteq Units
      /\ lost' \subseteq Documents
      /\ mixed' \subseteq Documents
      /\ halted' \subseteq Tasks
      /\ crossed' \subseteq Tasks
      /\ spare' \subseteq Workers
      /\ whole' \subseteq Workers
  BY <1>4 DEF TypeOK
<1> HIDE DEF WellTyped
<1> QED
  BY <1>1, <1>2, <1>3, <1>5, <1>6, <1>7, RunStep

LEMMA CheckTyped ==
  ASSUME WellTyped, NEW w \in Workers, NEW d \in Documents, Check(w, d)
  PROVE  WellTyped'
<1> USE DEF WellTyped
<1> DEFINE t == IF status[run[w].task] = "failed" THEN Resting
                  ELSE [run[w] EXCEPT !.at = "embed", !.doc = d, !.left = @ \ {d}]
<1>1. run' = [run EXCEPT ![w] = t] /\ UNCHANGED <<row, req>>
  BY DEF Check, reembedding, content
<1>2. t \in Runs
  BY RestingRuns, AfterRuns DEF TypeOK, Runs
<1>3. t.at \in OfDocument => t.doc \in Documents
  BY AfterRuns DEF Check, TypeOK, Runs, RunsHaveDocuments, OfDocument, Resting
<1> HIDE DEF t
<1>4. UNCHANGED <<cache, index, marked, status, message, ending, changes, blind, lost, mixed, halted, crossed, spare, whole>>
  BY DEF Check, reembedding, content
<1>5. /\ cache' \in Vectors
      /\ index' \in Vectors
      /\ marked' \subseteq Units
      /\ status' \in [Tasks -> {"none", "asked", "pending", "running", "succeeded", "failed"}]
      /\ message' \subseteq Tasks
      /\ ending' \subseteq Tasks
      /\ changes' \in 0..MaxChanges
      /\ blind' \subseteq Units
      /\ lost' \subseteq Documents
      /\ mixed' \subseteq Documents
      /\ halted' \subseteq Tasks
      /\ crossed' \subseteq Tasks
      /\ spare' \subseteq Workers
      /\ whole' \subseteq Workers
  BY <1>4 DEF TypeOK
<1> HIDE DEF WellTyped
<1> QED
  BY <1>1, <1>2, <1>3, <1>5, RunStep

LEMMA DeliverTyped ==
  ASSUME WellTyped, NEW w \in Workers, NEW d \in Tasks, Deliver(w, d)
  PROVE  WellTyped'
<1> USE DEF WellTyped
<1> DEFINE t == IF status[d] = "failed" THEN run[w]
                  ELSE [Resting EXCEPT !.at = "start", !.task = d, !.was = status[d]]
<1>1. run' = [run EXCEPT ![w] = t] /\ UNCHANGED <<row, req>>
  BY DEF TypeOK, Deliver, reembedding, content
<1>2. t \in Runs
  BY RestingRuns, AfterRuns DEF TypeOK, Runs, Resting
<1>3. t.at \in OfDocument => t.doc \in Documents
  BY AfterRuns DEF Deliver, TypeOK, Runs, RunsHaveDocuments, OfDocument, Resting
<1> HIDE DEF t
<1>4. UNCHANGED <<cache, index, marked, status, ending, blind, lost, mixed, halted, crossed, spare, whole>>
  BY DEF Deliver, reembedding, content
<1>5. message' \subseteq Tasks
  BY UnitVectorsAssumption DEF Deliver, TypeOK
<1>6. changes' \in 0..MaxChanges
  BY UnitVectorsAssumption DEF Deliver, Change, TypeOK
<1>7. /\ cache' \in Vectors
      /\ index' \in Vectors
      /\ marked' \subseteq Units
      /\ status' \in [Tasks -> {"none", "asked", "pending", "running", "succeeded", "failed"}]
      /\ ending' \subseteq Tasks
      /\ blind' \subseteq Units
      /\ lost' \subseteq Documents
      /\ mixed' \subseteq Documents
      /\ halted' \subseteq Tasks
      /\ crossed' \subseteq Tasks
      /\ spare' \subseteq Workers
      /\ whole' \subseteq Workers
  BY <1>4 DEF TypeOK
<1> HIDE DEF WellTyped
<1> QED
  BY <1>1, <1>2, <1>3, <1>5, <1>6, <1>7, RunStep

LEMMA FinishTyped ==
  ASSUME WellTyped, NEW w \in Workers, Finish(w)
  PROVE  WellTyped'
<1> USE DEF WellTyped
<1> DEFINE t == Resting
<1>1. run' = [run EXCEPT ![w] = t] /\ UNCHANGED <<row, req>>
  BY DEF Finish, reembedding, content
<1>2. t \in Runs
  BY RestingRuns, AfterRuns DEF TypeOK, Runs
<1>3. t.at \in OfDocument => t.doc \in Documents
  BY AfterRuns DEF Finish, TypeOK, Runs, RunsHaveDocuments, OfDocument, Resting
<1> HIDE DEF t
<1>4. UNCHANGED <<cache, index, marked, message, ending, changes, blind, lost, mixed, halted, crossed, spare, whole>>
  BY DEF Finish, reembedding, content
<1>5. status' \in [Tasks -> {"none", "asked", "pending", "running", "succeeded", "failed"}]
  BY UnitVectorsAssumption DEF Finish, TypeOK, Runs
<1>6. /\ cache' \in Vectors
      /\ index' \in Vectors
      /\ marked' \subseteq Units
      /\ message' \subseteq Tasks
      /\ ending' \subseteq Tasks
      /\ changes' \in 0..MaxChanges
      /\ blind' \subseteq Units
      /\ lost' \subseteq Documents
      /\ mixed' \subseteq Documents
      /\ halted' \subseteq Tasks
      /\ crossed' \subseteq Tasks
      /\ spare' \subseteq Workers
      /\ whole' \subseteq Workers
  BY <1>4 DEF TypeOK
<1> HIDE DEF WellTyped
<1> QED
  BY <1>1, <1>2, <1>3, <1>5, <1>6, RunStep

LEMMA StopTyped ==
  ASSUME WellTyped, NEW w \in Workers, Stop(w)
  PROVE  WellTyped'
<1> USE DEF WellTyped
<1> DEFINE t == Resting
<1>1. run' = [run EXCEPT ![w] = t] /\ UNCHANGED <<row, req>>
  BY DEF Stop, reembedding, content
<1>2. t \in Runs
  BY RestingRuns, AfterRuns DEF TypeOK, Runs
<1>3. t.at \in OfDocument => t.doc \in Documents
  BY AfterRuns DEF Stop, TypeOK, Runs, RunsHaveDocuments, OfDocument, Resting
<1> HIDE DEF t
<1>4. UNCHANGED <<cache, index, marked, status, message, ending, changes, blind, lost, mixed, halted, crossed, spare, whole>>
  BY DEF Stop, reembedding, content
<1>5. /\ cache' \in Vectors
      /\ index' \in Vectors
      /\ marked' \subseteq Units
      /\ status' \in [Tasks -> {"none", "asked", "pending", "running", "succeeded", "failed"}]
      /\ message' \subseteq Tasks
      /\ ending' \subseteq Tasks
      /\ changes' \in 0..MaxChanges
      /\ blind' \subseteq Units
      /\ lost' \subseteq Documents
      /\ mixed' \subseteq Documents
      /\ halted' \subseteq Tasks
      /\ crossed' \subseteq Tasks
      /\ spare' \subseteq Workers
      /\ whole' \subseteq Workers
  BY <1>4 DEF TypeOK
<1> HIDE DEF WellTyped
<1> QED
  BY <1>1, <1>2, <1>3, <1>5, RunStep

LEMMA TaskTyped ==
  ASSUME WellTyped, NEW t \in Tasks, Ask(t) \/ AskCommit(t) \/ Cancel(t) \/ CancelCommit(t)
  PROVE  WellTyped'
<1> USE DEF WellTyped
<1>1. UNCHANGED <<row, marked, cache, index, req, run, blind, lost, mixed, whole>>
  BY DEF Ask, AskCommit, Cancel, CancelCommit, content
<1>2. /\ status' \in [Tasks -> {"none", "asked", "pending", "running", "succeeded", "failed"}]
      /\ message' \subseteq Tasks /\ ending' \subseteq Tasks /\ changes' \in 0..MaxChanges
      /\ halted' \subseteq Tasks /\ crossed' \subseteq Tasks /\ spare' \subseteq Workers
  BY UnitVectorsAssumption DEF Ask, AskCommit, Cancel, CancelCommit, TypeOK, Change
<1>3. TypeOK'
  BY <1>1, <1>2 DEF TypeOK
<1>4. RunsHaveDocuments'
  BY <1>1 DEF RunsHaveDocuments
<1> QED
  BY <1>1, <1>3, <1>4, RequestsAlone

LEMMA NextWellTyped ==
  ASSUME WellTyped, [Next]_vars
  PROVE  WellTyped'
<1>1. CASE \E r \in Requests : \E u \in Units : Create(r, u)
  BY <1>1, CreateTyped
<1>2. CASE \E r \in Requests : \E u \in Units, column \in Columns : Edit(r, u, column)
  BY <1>2, EditTyped
<1>3. CASE \E r \in Requests : EditFlush(r)
  BY <1>3, EditFlushTyped
<1>4. CASE \E r \in Requests : EditStale(r)
  BY <1>4, EditStaleTyped
<1>5. CASE \E r \in Requests : ReadCache(r)
  BY <1>5, ReadCacheTyped
<1>6. CASE \E r \in Requests : \E S \in SUBSET Units : Delete(r, S)
  BY <1>6, DeleteTyped
<1>7. CASE \E r \in Requests : WriteCache(r)
  BY <1>7, WriteCacheTyped
<1>8. CASE \E r \in Requests : Upsert(r)
  BY <1>8, UpsertTyped
<1>9. CASE \E r \in Requests : Commit(r)
  BY <1>9, CommitTyped
<1>10. CASE \E r \in Requests : DeleteCommit(r)
  BY <1>10, DeleteCommitTyped
<1>11. CASE \E r \in Requests : DeleteVectors(r)
  BY <1>11, DeleteVectorsTyped
<1>12. CASE \E r \in Requests : Fail(r)
  BY <1>12, FailTyped
<1>13. CASE \E w \in Workers : \E d \in Documents, at \in {"embed", "index"} : Retry(w, d, at)
  BY <1>13, RetryTyped
<1>14. CASE \E w \in Workers : EmbedRead(w)
  BY <1>14, EmbedReadTyped
<1>15. CASE \E w \in Workers : EmbedStore(w)
  BY <1>15, EmbedStoreTyped
<1>16. CASE \E w \in Workers : EmbedCommit(w)
  BY <1>16, EmbedCommitTyped
<1>17. CASE \E w \in Workers : IndexRead(w)
  BY <1>17, IndexReadTyped
<1>18. CASE \E w \in Workers : IndexDelete(w)
  BY <1>18, IndexDeleteTyped
<1>19. CASE \E w \in Workers : IndexUpsert(w)
  BY <1>19, IndexUpsertTyped
<1>20. CASE \E w \in Workers : RunFails(w)
  BY <1>20, RunFailsTyped
<1>21. CASE \E w \in Workers : \E t \in Tasks : Deliver(w, t)
  BY <1>21, DeliverTyped
<1>22. CASE \E w \in Workers : Start(w)
  BY <1>22, StartTyped
<1>23. CASE \E w \in Workers : \E d \in Documents : Check(w, d)
  BY <1>23, CheckTyped
<1>24. CASE \E w \in Workers : Finish(w)
  BY <1>24, FinishTyped
<1>25. CASE \E w \in Workers : Stop(w)
  BY <1>25, StopTyped
<1>26. CASE \E t \in Tasks : Ask(t) \/ AskCommit(t) \/ Cancel(t) \/ CancelCommit(t)
  BY <1>26, TaskTyped
<1>28. CASE \E r \in Requests : ReadNothing(r)
  BY <1>28, ReadNothingTyped
<1>27. CASE UNCHANGED vars
  BY <1>27 DEF vars, WellTyped, TypeOK, Formed, EditsHold, RunsHaveDocuments, Rows
<1> QED
  BY <1>1, <1>2, <1>3, <1>4, <1>5, <1>6, <1>7, <1>8, <1>9, <1>10, <1>11, <1>12, <1>13, <1>14,
     <1>15, <1>16, <1>17, <1>18, <1>19, <1>20, <1>21, <1>22, <1>23, <1>24, <1>25, <1>26, <1>27, <1>28
  DEF Next

(* Every variable keeps its type, whatever requests, runs and cancellations overlap.             *)
THEOREM UnitVectorsTypeCorrect == Spec => []TypeOK
<1>1. Init => WellTyped
  BY InitWellTyped
<1>2. WellTyped /\ [Next]_vars => WellTyped'
  BY NextWellTyped
<1>3. WellTyped => TypeOK
  BY DEF WellTyped
<1> QED
  BY <1>1, <1>2, <1>3, PTL DEF Spec

(* A task whose cancellation found its workers at work, none at its start or last document: it   *)
(* is FAILED, its workers have documents left and turn to the check before the next of them.     *)
Held == halted \ crossed
CancelledWork ==
    /\ \A t \in Held : status[t] = "failed"
    /\ \A w \in Workers : run[w].task \in Held => run[w].at # "start" /\ run[w].left # {}
    /\ \A w \in Workers : (run[w].task \in Held /\ run[w].at = "embed") => w \in spare

LEMMA InitCancelledWork == Init => CancelledWork
  BY DEF Init, CancelledWork, Held

(* Steps that leave the re-embeddings alone.                                                     *)
LEMMA RequestsKeepTasks ==
  ASSUME CancelledWork, UNCHANGED <<run, reembedding>>
  PROVE  CancelledWork'
  BY DEF CancelledWork, Held, reembedding

(* Steps of a worker that keep its task, or leave it and come to no document.                    *)
LEMMA WorkersKeepTasks ==
  ASSUME TypeOK, CancelledWork, NEW w \in Workers, NEW t \in Runs, run' = [run EXCEPT ![w] = t],
         UNCHANGED <<status, halted, crossed>>, t.at # "start",
         \/ t.task = None
         \/ t.task = run[w].task /\ t.left = run[w].left,
         t.at # "embed" \/ t.task = None, spare \ {w} \subseteq spare'
  PROVE  CancelledWork'
<1>1. None \notin Held
  BY UnitVectorsAssumption DEF Held, TypeOK
<1>2. Held' = Held
  BY DEF Held
<1>3. run'[w] = t /\ \A o \in Workers \ {w} : run'[o] = run[o]
  BY DEF TypeOK
<1>4. ASSUME NEW o \in Workers, run'[o].task \in Held
      PROVE  /\ run'[o].at # "start" /\ run'[o].left # {}
             /\ run'[o].at = "embed" => o \in spare'
  <2>1. CASE o = w
    BY <1>1, <1>3, <1>4, <2>1 DEF CancelledWork
  <2>2. CASE o # w
    BY <1>3, <1>4, <2>2 DEF CancelledWork
  <2> QED
    BY <2>1, <2>2
<1> QED
  BY <1>2, <1>4 DEF CancelledWork

LEMMA RequestStepKeepsTasks ==
  ASSUME WellTyped, CancelledWork, NEW r \in Requests,
         \/ \E u \in Units : Create(r, u)
         \/ \E u \in Units, column \in Columns : Edit(r, u, column)
         \/ EditFlush(r) \/ EditStale(r) \/ ReadCache(r) \/ ReadNothing(r)
         \/ \E S \in SUBSET Units : Delete(r, S)
         \/ WriteCache(r) \/ Upsert(r) \/ Commit(r) \/ DeleteCommit(r) \/ DeleteVectors(r) \/ Fail(r)
  PROVE  CancelledWork'
<1>1. UNCHANGED <<run, reembedding>>
  BY DEF Create, Edit, EditFlush, EditStale, ReadCache, ReadNothing, Delete, WriteCache, Upsert, Commit,
         DeleteCommit, DeleteVectors, Fail
<1> QED
  BY <1>1, RequestsKeepTasks

LEMMA RetryKeepsTasks ==
  ASSUME WellTyped, CancelledWork, NEW w \in Workers, NEW d \in Documents, NEW at \in {"embed", "index"}, Retry(w, d, at)
  PROVE  CancelledWork'
<1> DEFINE t == [Resting EXCEPT !.at = at, !.doc = d]
<1>1. run' = [run EXCEPT ![w] = t]
  BY DEF Retry
<1>2. t \in Runs /\ t.at # "start" /\ (t.at # "embed" \/ t.task = None)
      /\ (t.task = None \/ (t.task = run[w].task /\ t.left = run[w].left))
  BY RestingRuns, AfterRuns DEF WellTyped, TypeOK, Runs, Resting
<1>3. UNCHANGED <<status, halted, crossed>> /\ spare \ {w} \subseteq spare'
  BY DEF Retry, reembedding
<1> HIDE DEF t
<1> QED
  BY <1>1, <1>2, <1>3, WorkersKeepTasks DEF WellTyped

LEMMA EmbedReadKeepsTasks ==
  ASSUME WellTyped, CancelledWork, NEW w \in Workers, EmbedRead(w)
  PROVE  CancelledWork'
<1> DEFINE t == [run[w] EXCEPT !.at = "embedding", !.due = RowsOf(run[w].doc) \ marked,
                                !.got = Only(row, RowsOf(run[w].doc) \ marked)]
<1>1. run' = [run EXCEPT ![w] = t]
  BY DEF EmbedRead
<1>2. t \in Runs /\ t.at # "start" /\ (t.at # "embed" \/ t.task = None)
      /\ (t.task = None \/ (t.task = run[w].task /\ t.left = run[w].left))
  BY RestingRuns, AfterRuns DEF WellTyped, TypeOK, Runs, RowsOf, Rows, Only, Vectors
<1>3. UNCHANGED <<status, halted, crossed>> /\ spare \ {w} \subseteq spare'
  BY DEF EmbedRead, reembedding
<1> HIDE DEF t
<1> QED
  BY <1>1, <1>2, <1>3, WorkersKeepTasks DEF WellTyped

LEMMA EmbedStoreKeepsTasks ==
  ASSUME WellTyped, CancelledWork, NEW w \in Workers, EmbedStore(w)
  PROVE  CancelledWork'
<1> DEFINE t == [run[w] EXCEPT !.at = "stored"]
<1>1. run' = [run EXCEPT ![w] = t]
  BY DEF EmbedStore
<1>2. t \in Runs /\ t.at # "start" /\ (t.at # "embed" \/ t.task = None)
      /\ (t.task = None \/ (t.task = run[w].task /\ t.left = run[w].left))
  BY RestingRuns, AfterRuns DEF WellTyped, TypeOK, Runs
<1>3. UNCHANGED <<status, halted, crossed>> /\ spare \ {w} \subseteq spare'
  BY DEF EmbedStore, reembedding
<1> HIDE DEF t
<1> QED
  BY <1>1, <1>2, <1>3, WorkersKeepTasks DEF WellTyped

LEMMA EmbedCommitKeepsTasks ==
  ASSUME WellTyped, CancelledWork, NEW w \in Workers, EmbedCommit(w)
  PROVE  CancelledWork'
<1> DEFINE t == [run[w] EXCEPT !.at = "index", !.due = {}, !.got = Nothing]
<1>1. run' = [run EXCEPT ![w] = t]
  BY DEF EmbedCommit
<1>2. t \in Runs /\ t.at # "start" /\ (t.at # "embed" \/ t.task = None)
      /\ (t.task = None \/ (t.task = run[w].task /\ t.left = run[w].left))
  BY RestingRuns, AfterRuns DEF WellTyped, TypeOK, Runs
<1>3. UNCHANGED <<status, halted, crossed>> /\ spare \ {w} \subseteq spare'
  BY DEF EmbedCommit, reembedding
<1> HIDE DEF t
<1> QED
  BY <1>1, <1>2, <1>3, WorkersKeepTasks DEF WellTyped

LEMMA IndexReadKeepsTasks ==
  ASSUME WellTyped, CancelledWork, NEW w \in Workers, IndexRead(w)
  PROVE  CancelledWork'
<1> DEFINE t == [run[w] EXCEPT !.at = "indexing", !.got = Only(cache, RowsOf(run[w].doc) \cap marked)]
<1>1. run' = [run EXCEPT ![w] = t]
  BY DEF IndexRead
<1>2. t \in Runs /\ t.at # "start" /\ (t.at # "embed" \/ t.task = None)
      /\ (t.task = None \/ (t.task = run[w].task /\ t.left = run[w].left))
  BY RestingRuns, AfterRuns DEF WellTyped, TypeOK, Runs, Only, Vectors
<1>3. UNCHANGED <<status, halted, crossed>> /\ spare \ {w} \subseteq spare'
  BY DEF IndexRead, reembedding
<1> HIDE DEF t
<1> QED
  BY <1>1, <1>2, <1>3, WorkersKeepTasks DEF WellTyped

LEMMA IndexDeleteKeepsTasks ==
  ASSUME WellTyped, CancelledWork, NEW w \in Workers, IndexDelete(w)
  PROVE  CancelledWork'
<1> DEFINE t == [run[w] EXCEPT !.at = "cleared"]
<1>1. run' = [run EXCEPT ![w] = t]
  BY DEF IndexDelete
<1>2. t \in Runs /\ t.at # "start" /\ (t.at # "embed" \/ t.task = None)
      /\ (t.task = None \/ (t.task = run[w].task /\ t.left = run[w].left))
  BY RestingRuns, AfterRuns DEF WellTyped, TypeOK, Runs
<1>3. UNCHANGED <<status, halted, crossed>> /\ spare \ {w} \subseteq spare'
  BY DEF IndexDelete, reembedding
<1> HIDE DEF t
<1> QED
  BY <1>1, <1>2, <1>3, WorkersKeepTasks DEF WellTyped

LEMMA IndexUpsertKeepsTasks ==
  ASSUME WellTyped, CancelledWork, NEW w \in Workers, IndexUpsert(w)
  PROVE  CancelledWork'
<1> DEFINE t == After(w)
<1>1. run' = [run EXCEPT ![w] = t]
  BY DEF IndexUpsert
<1>2. t \in Runs /\ t.at # "start" /\ (t.at # "embed" \/ t.task = None)
      /\ (t.task = None \/ (t.task = run[w].task /\ t.left = run[w].left))
  BY RestingRuns, AfterRuns DEF WellTyped, TypeOK, Runs, After, Resting
<1>3. UNCHANGED <<status, halted, crossed>> /\ spare \ {w} \subseteq spare'
  BY DEF IndexUpsert, reembedding
<1> HIDE DEF t
<1> QED
  BY <1>1, <1>2, <1>3, WorkersKeepTasks DEF WellTyped

LEMMA RunFailsKeepsTasks ==
  ASSUME WellTyped, CancelledWork, NEW w \in Workers, RunFails(w)
  PROVE  CancelledWork'
<1> DEFINE t == After(w)
<1>1. run' = [run EXCEPT ![w] = t]
  BY DEF RunFails
<1>2. t \in Runs /\ t.at # "start" /\ (t.at # "embed" \/ t.task = None)
      /\ (t.task = None \/ (t.task = run[w].task /\ t.left = run[w].left))
  BY RestingRuns, AfterRuns DEF WellTyped, TypeOK, Runs, After, Resting
<1>3. UNCHANGED <<status, halted, crossed>> /\ spare \ {w} \subseteq spare'
  BY DEF RunFails, reembedding
<1> HIDE DEF t
<1> QED
  BY <1>1, <1>2, <1>3, WorkersKeepTasks DEF WellTyped

(* A message of a cancelled task is dropped; another's worker may hold no cancelled task.        *)
LEMMA DeliverKeepsTasks ==
  ASSUME WellTyped, CancelledWork, NEW w \in Workers, NEW t \in Tasks, Deliver(w, t)
  PROVE  CancelledWork'
<1> USE DEF WellTyped
<1>1. UNCHANGED <<status, halted, crossed, spare>>
  BY DEF Deliver
<1>2. CASE status[t] = "failed"
  BY <1>1, <1>2 DEF Deliver, CancelledWork, Held
<1>3. CASE status[t] # "failed"
  <2>1. t \notin Held
    BY <1>3 DEF CancelledWork
  <2>2. run'[w].task = t /\ \A o \in Workers \ {w} : run'[o] = run[o]
    BY <1>3 DEF Deliver, Resting, TypeOK
  <2>3. Held' = Held
    BY <1>1 DEF Held
  <2> QED
    BY <1>1, <2>1, <2>2, <2>3 DEF CancelledWork
<1> QED
  BY <1>2, <1>3

(* Only a task that is not held starts, or finishes, or goes on to a document.                   *)
LEMMA StartKeepsTasks ==
  ASSUME WellTyped, CancelledWork, NEW w \in Workers, Start(w)
  PROVE  CancelledWork'
<1> USE DEF WellTyped
<1>1. run[w].task \notin Held
  BY DEF Start, CancelledWork
<1>2. run'[w].task = run[w].task /\ \A o \in Workers \ {w} : run'[o] = run[o]
  BY DEF Start, Resting, TypeOK
<1>3. Held' = Held /\ spare' = spare
  BY DEF Start, Held
<1>4. \A t \in Held : status'[t] = status[t]
  BY <1>1 DEF Start, TypeOK, Held
<1> QED
  BY <1>1, <1>2, <1>3, <1>4 DEF CancelledWork

LEMMA CheckKeepsTasks ==
  ASSUME WellTyped, CancelledWork, NEW w \in Workers, NEW d \in Documents, Check(w, d)
  PROVE  CancelledWork'
<1> USE DEF WellTyped
<1>1. Held' = Held /\ spare' = spare /\ status' = status
  BY DEF Check, Held
<1>2. \A o \in Workers \ {w} : run'[o] = run[o]
  BY DEF Check, TypeOK
<1>3. run'[w].task \notin Held
  <2>1. CASE status[run[w].task] = "failed"
    <3>1. run'[w].task = None
      BY <2>1 DEF Check, TypeOK, Resting
    <3> QED
      BY <3>1, UnitVectorsAssumption DEF Held, TypeOK
  <2>2. CASE status[run[w].task] # "failed"
    BY <2>2 DEF Check, TypeOK, Runs, CancelledWork
  <2> QED
    BY <2>1, <2>2
<1> QED
  BY <1>1, <1>2, <1>3 DEF CancelledWork

LEMMA FinishKeepsTasks ==
  ASSUME WellTyped, CancelledWork, NEW w \in Workers, Finish(w)
  PROVE  CancelledWork'
<1> USE DEF WellTyped
<1>1. run[w].task \notin Held
  BY DEF Finish, CancelledWork
<1>2. run'[w].task = None /\ \A o \in Workers \ {w} : run'[o] = run[o]
  BY DEF Finish, Resting, TypeOK
<1>3. Held' = Held /\ spare' = spare /\ None \notin Held
  BY UnitVectorsAssumption DEF Finish, Held, TypeOK
<1>4. \A t \in Held : status'[t] = status[t]
  BY <1>1 DEF Finish, TypeOK, Held
<1> QED
  BY <1>1, <1>2, <1>3, <1>4 DEF CancelledWork

LEMMA StopKeepsTasks ==
  ASSUME WellTyped, CancelledWork, NEW w \in Workers, Stop(w)
  PROVE  CancelledWork'
<1> USE DEF WellTyped
<1>1. run'[w].task = None /\ \A o \in Workers \ {w} : run'[o] = run[o]
  BY DEF Stop, Resting, TypeOK
<1>2. Held' = Held /\ spare' = spare /\ None \notin Held /\ status' = status
  BY UnitVectorsAssumption DEF Stop, Held, TypeOK
<1> QED
  BY <1>1, <1>2 DEF CancelledWork

(* A task that is asked for or becomes pending was not cancelled before; a cancellation sorts    *)
(* the workers of its task into those it stops, spares and misses.                               *)
LEMMA TasksKeepTasks ==
  ASSUME WellTyped, CancelledWork, NEW t \in Tasks, Ask(t) \/ AskCommit(t) \/ Cancel(t)
  PROVE  CancelledWork'
<1> USE DEF WellTyped
<1>1. Held' = Held /\ spare' = spare /\ run' = run
  BY DEF Ask, AskCommit, Cancel, Held
<1>2. \A o \in Held : status'[o] = status[o]
  BY DEF Ask, AskCommit, Cancel, CancelledWork, TypeOK, Held
<1> QED
  BY <1>1, <1>2 DEF CancelledWork

LEMMA CancelCommitKeepsTasks ==
  ASSUME WellTyped, CancelledWork, NEW t \in Tasks, CancelCommit(t)
  PROVE  CancelledWork'
<1> USE DEF WellTyped
<1>1. run' = run /\ spare \subseteq spare' /\ Held' \subseteq Held \cup {t}
  BY DEF CancelCommit, Held
<1>2. status'[t] = "failed" /\ \A o \in Tasks \ {t} : status'[o] = status[o]
  BY DEF CancelCommit, TypeOK
<1>3. ASSUME NEW w \in Workers, run[w].task = t, t \in Held'
      PROVE  /\ run[w].at # "start" /\ run[w].left # {}
             /\ run[w].at = "embed" => w \in spare'
  BY <1>3 DEF CancelCommit, Held
<1> QED
  BY <1>1, <1>2, <1>3 DEF CancelledWork, Held, TypeOK

LEMMA NextKeepsTasks ==
  ASSUME WellTyped, CancelledWork, [Next]_vars
  PROVE  CancelledWork'
<1>1. CASE \E r \in Requests :
             \/ \E u \in Units : Create(r, u)
             \/ \E u \in Units, column \in Columns : Edit(r, u, column)
             \/ EditFlush(r) \/ EditStale(r) \/ ReadCache(r) \/ ReadNothing(r)
             \/ \E S \in SUBSET Units : Delete(r, S)
             \/ WriteCache(r) \/ Upsert(r) \/ Commit(r) \/ DeleteCommit(r) \/ DeleteVectors(r) \/ Fail(r)
  BY <1>1, RequestStepKeepsTasks
<1>2. CASE \E w \in Workers : \E d \in Documents, at \in {"embed", "index"} : Retry(w, d, at)
  BY <1>2, RetryKeepsTasks
<1>3. CASE \E w \in Workers : EmbedRead(w) \/ EmbedStore(w) \/ EmbedCommit(w)
  BY <1>3, EmbedReadKeepsTasks, EmbedStoreKeepsTasks, EmbedCommitKeepsTasks
<1>4. CASE \E w \in Workers : IndexRead(w) \/ IndexDelete(w) \/ IndexUpsert(w) \/ RunFails(w)
  BY <1>4, IndexReadKeepsTasks, IndexDeleteKeepsTasks, IndexUpsertKeepsTasks, RunFailsKeepsTasks
<1>5. CASE \E w \in Workers : \E t \in Tasks : Deliver(w, t)
  BY <1>5, DeliverKeepsTasks
<1>6. CASE \E w \in Workers : Start(w) \/ Finish(w) \/ Stop(w)
  BY <1>6, StartKeepsTasks, FinishKeepsTasks, StopKeepsTasks
<1>7. CASE \E w \in Workers : \E d \in Documents : Check(w, d)
  BY <1>7, CheckKeepsTasks
<1>8. CASE \E t \in Tasks : Ask(t) \/ AskCommit(t) \/ Cancel(t)
  BY <1>8, TasksKeepTasks
<1>9. CASE \E t \in Tasks : CancelCommit(t)
  BY <1>9, CancelCommitKeepsTasks
<1>10. CASE UNCHANGED vars
  BY <1>10, RequestsKeepTasks DEF vars, reembedding
<1> QED
  BY <1>1, <1>2, <1>3, <1>4, <1>5, <1>6, <1>7, <1>8, <1>9, <1>10 DEF Next

(* The step that CancelStops speaks of.  A worker comes from "embed" to "embedding" in place.    *)
LEMMA StepObeysCancel ==
  ASSUME WellTyped, CancelledWork, [Next]_vars
  PROVE  /\ \A t \in Held : status[t] = "failed" => status'[t] = "failed"
         /\ \A w \in Workers :
               (run[w].at = "embed" /\ run'[w].at = "embedding" /\ run[w].task \in Held) => w \in spare
<1>1. \A t \in Held : t \in Tasks
  BY DEF WellTyped, TypeOK, Held
<1>2. Held \subseteq Held' \/ \E t \in Tasks : CancelCommit(t)
  <2>1. UNCHANGED <<halted, crossed>> \/ \E t \in Tasks : CancelCommit(t)
    BY DEF Next, vars, reembedding, Create, Edit, EditFlush, EditStale, ReadCache, ReadNothing, Delete,
           WriteCache, Upsert, Commit, DeleteCommit, DeleteVectors, Fail, Retry, EmbedRead, EmbedStore,
           EmbedCommit, IndexRead, IndexDelete, IndexUpsert, RunFails, Deliver, Start, Check,
           Finish, Stop, Ask, AskCommit, Cancel
  <2> QED
    BY <2>1 DEF Held
<1>3. \A t \in Held : status'[t] = "failed"
  <2>1. CASE Held \subseteq Held'
    BY <2>1, NextKeepsTasks DEF CancelledWork
  <2>2. CASE \E t \in Tasks : CancelCommit(t)
    BY <1>1, <2>2 DEF CancelCommit, CancelledWork, WellTyped, TypeOK
  <2> QED
    BY <1>2, <2>1, <2>2
<1> QED
  BY <1>3 DEF CancelledWork

(* A re-embedding that is cancelled while its worker is between its start and its last document  *)
(* stays FAILED and begins no further document but the one it had checked for.                   *)
THEOREM CancelHolds == Spec => CancelStops
<1>1. Init => WellTyped /\ CancelledWork
  BY InitWellTyped, InitCancelledWork
<1>2. WellTyped /\ CancelledWork /\ [Next]_vars => (WellTyped /\ CancelledWork)'
  BY NextWellTyped, NextKeepsTasks
<1> DEFINE A == /\ \A t \in (halted \ crossed) : status[t] = "failed" => status'[t] = "failed"
                /\ \A w \in Workers :
                      (run[w].at = "embed" /\ run'[w].at = "embedding" /\ run[w].task \in halted \ crossed)
                         => w \in spare
<1>3. WellTyped /\ CancelledWork /\ [Next]_vars => [A]_vars
  BY StepObeysCancel DEF Held
<1> HIDE DEF A
<1>4. Spec => [][A]_vars
  BY <1>1, <1>2, <1>3, PTL DEF Spec
<1> QED
  BY <1>4 DEF A, CancelStops
-----------------------------------------------------------------------------
(* Vectors of the rows: what requests and runs on a document have done so far. *)

WithText == {"create", "edit"}
PastFlush == {"flushed", "read", "written", "upserted"}

(* A request as it may be in each phase: it holds units of its document.                         *)
Phases ==
    \A r \in Requests :
        /\ req[r].units \subseteq UnitsOf(req[r].doc)
        /\ req[r].op = "none" => req[r] = Free
        /\ req[r].op = "create" => req[r].at \in PastFlush
        /\ req[r].op = "edit" => req[r].at \in {"loaded"} \cup PastFlush
        /\ req[r].op = "delete" => req[r].at \in {"flushed", "read", "written", "deleted"} /\ req[r].text = None

(* Who has the units of another: an addition nobody, an edit from its flush on no other edit; and *)
(* what is deleted is gone.                                                                      *)
HoldersApart ==
    \A r \in Requests :
        /\ req[r].op = "create" => req[r].units \cap Rows = {}
        /\ req[r].at = "deleted" => req[r].units \cap Rows = {}
        /\ \A q \in Requests \ {r} :
              /\ req[r].op = "create" => req[r].units \cap req[q].units = {}
              /\ (/\ req[r].op = "edit" /\ req[r].at \in PastFlush
                  /\ req[q].op = "edit" /\ req[q].at \in PastFlush) => req[r].units \cap req[q].units = {}

(* A deletion that has written the cache and waits for the row.                                  *)
Leaving(u) == \E q \in Requests : req[q].op = "delete" /\ req[q].at = "written" /\ u \in req[q].units

(* What a request has written is there still.                                                    *)
CacheWritten ==
    \A r \in Requests : \A u \in req[r].units :
        (/\ req[r].op \in WithText /\ req[r].at \in {"written", "upserted"}
         /\ Of[u] \notin mixed \cup lost) => cache[u] = req[r].text \/ Leaving(u)
IndexWritten ==
    \A r \in Requests : \A u \in req[r].units :
        (req[r].at = "upserted" /\ Of[u] \notin mixed) => index[u] = req[r].text

(* The cache and Milvus follow the rows, but for what a request or a run is at.                  *)
CacheFollows ==
    \A u \in Rows \ blind :
        (/\ Of[u] \notin mixed \cup lost
         /\ \A r \in Requests : u \in req[r].units => req[r].at \notin {"written", "upserted"})
            => cache[u] = row[u]
IndexFollows ==
    \A u \in Units \ blind :
        (/\ Of[u] \notin mixed
         /\ \A r \in Requests : u \in req[r].units => req[r].at \notin {"upserted", "deleted"}
         /\ \A w \in RunsFor(Of[u]) : run[w].at # "cleared") => index[u] = row[u]

(* A run with nobody beside it, of which nothing but the rows can have been read.                 *)
Working == {"embedding", "stored", "indexing", "cleared"}
Undisturbed(w) ==
    \/ w \in whole
    \/ run[w].at \in Working /\ run[w].doc \notin mixed
Reads(w) ==
    \A u \in UnitsOf(run[w].doc) :
        /\ run[w].at = "embedding" => run[w].got[u] = row[u]
        /\ run[w].at \in {"indexing", "cleared"} /\ (w \in whole \/ u \notin blind) => run[w].got[u] = row[u]
        /\ run[w].at = "cleared" => index[u] = None
        /\ w \in whole /\ run[w].at # "embedding" => cache[u] = row[u]
HasItAlone(w) ==
    /\ AsksFor(run[w].doc) = {}
    /\ \A o \in RunsFor(run[w].doc) \ {w} : run[o].at = "index" /\ o \notin whole
    /\ run[w].at \in {"embedding", "stored"} => w \in whole
    /\ w \in whole /\ run[w].at # "embedding" => run[w].doc \notin lost
    /\ Reads(w)
RunsFit ==
    \A w \in Workers :
        /\ w \in whole => run[w].at \in OfDocument \ {"embed"}
        /\ \A u \in Units : run[w].got[u] # None => Of[u] = run[w].doc
        /\ run[w].at \notin Working => run[w].got = Nothing
        /\ Undisturbed(w) => HasItAlone(w)

Followed ==
    /\ WellTyped /\ Phases /\ HoldersApart
    /\ CacheWritten /\ IndexWritten /\ CacheFollows /\ IndexFollows /\ RunsFit

LEMMA FreeIs ==
  /\ Free.op = "none" /\ Free.at = "none" /\ Free.doc = None /\ Free.units = {} /\ Free.text = None
  BY DEF Free

-----------------------------------------------------------------------------
(* What the steps of a request do to it. *)

OthersStay(r) == \A q \in Requests \ {r} : req'[q] = req[q]

(* A request begins, with units S of document d.                                                 *)
Begins(r, op, at, d, S) ==
    /\ req[r] = Free
    /\ req'[r].op = op /\ req'[r].at = at /\ req'[r].doc = d /\ req'[r].units = S
    /\ OthersStay(r) /\ Meets(d)
    /\ UNCHANGED <<row, cache, index, run, blind, lost>>

(* It goes on, with the same units.                                                              *)
GoesOn(r, at) ==
    /\ req[r].doc \in Documents
    /\ req'[r].at = at /\ req'[r].op = req[r].op /\ req'[r].units = req[r].units
    /\ req'[r].doc = req[r].doc /\ req'[r].text = req[r].text
    /\ OthersStay(r)
    /\ UNCHANGED <<run, whole>>

(* It ends.                                                                                      *)
Leaves(r) ==
    /\ req[r].doc \in Documents
    /\ req'[r] = Free
    /\ OthersStay(r)
    /\ UNCHANGED <<run, whole>>

LEMMA CreateDoes ==
  ASSUME WellTyped, NEW r \in Requests, NEW u \in Units, Create(r, u)
  PROVE  /\ Begins(r, "create", "flushed", Of[u], {u})
         /\ row[u] = None /\ cache[u] = None /\ index[u] = None
         /\ \A q \in Requests : u \notin req[q].units
<1>1. req' = [req EXCEPT ![r] = [Free EXCEPT !.op = "create", !.at = "flushed", !.doc = Of[u], !.units = {u},
                                             !.text = [c \in Columns |-> changes + 1], !.set = TRUE]]
  BY DEF Create
<1>2. r \in DOMAIN req /\ DOMAIN req = Requests
  BY DEF WellTyped, TypeOK
<1>3. /\ req'[r].op = "create" /\ req'[r].at = "flushed" /\ req'[r].doc = Of[u] /\ req'[r].units = {u}
      /\ OthersStay(r)
  BY <1>1, <1>2 DEF Free, OthersStay
<1> QED
  BY <1>3 DEF Create, Begins, Unused

LEMMA EditDoes ==
  ASSUME WellTyped, NEW r \in Requests, NEW u \in Units, NEW column \in Columns, Edit(r, u, column)
  PROVE  /\ Begins(r, "edit", "loaded", Of[u], {u})
         /\ u \in Rows
<1>1. req' = [req EXCEPT ![r] = [Free EXCEPT !.op = "edit", !.at = "loaded", !.doc = Of[u], !.units = {u},
                                             !.text = [row[u] EXCEPT ![column] = changes + 1],
                                             !.column = column, !.set = u \notin marked]]
  BY DEF Edit
<1>2. r \in DOMAIN req /\ DOMAIN req = Requests
  BY DEF WellTyped, TypeOK
<1>3. /\ req'[r].op = "edit" /\ req'[r].at = "loaded" /\ req'[r].doc = Of[u] /\ req'[r].units = {u}
      /\ OthersStay(r)
  BY <1>1, <1>2 DEF Free, OthersStay
<1> QED
  BY <1>3 DEF Edit, Begins, Rows

LEMMA DeleteDoes ==
  ASSUME WellTyped, NEW r \in Requests, NEW S \in SUBSET Units, Delete(r, S)
  PROVE  \E d \in Documents :
            /\ Begins(r, "delete", "flushed", d, S)
            /\ req'[r].text = None /\ S \subseteq RowsOf(d)
<1> DEFINE x == CHOOSE u \in S : TRUE
<1>1. PICK d \in Documents : S \subseteq RowsOf(d)
  BY DEF Delete
<1>2. x \in S
  BY DEF Delete
<1> HIDE DEF x
<1>3. Of[x] = d
  BY <1>1, <1>2 DEF RowsOf, UnitsOf
<1>4. /\ req[r] = Free /\ Meets(Of[x]) /\ UNCHANGED <<row, cache, index, run, blind, lost>>
      /\ req' = [req EXCEPT ![r] = [Free EXCEPT !.op = "delete", !.at = "flushed", !.doc = Of[x], !.units = S]]
  BY DEF Delete, x
<1>5. r \in DOMAIN req /\ DOMAIN req = Requests
  BY DEF WellTyped, TypeOK
<1>6. /\ req'[r].op = "delete" /\ req'[r].at = "flushed" /\ req'[r].doc = d /\ req'[r].units = S
      /\ req'[r].text = None /\ OthersStay(r)
  BY <1>3, <1>4, <1>5 DEF Free, OthersStay
<1> QED
  BY <1>1, <1>3, <1>4, <1>6 DEF Begins

LEMMA MovesOn ==
  ASSUME WellTyped, NEW r \in Requests, NEW at, req' = [req EXCEPT ![r].at = at],
         req[r].at # "none", UNCHANGED <<run, whole>>
  PROVE  GoesOn(r, at)
<1>1. req[r] \in Asks /\ req[r].doc \in Documents
  BY DEF WellTyped, TypeOK, Formed
<1> QED
  BY <1>1 DEF WellTyped, TypeOK, Asks, GoesOn, OthersStay

LEMMA EditFlushDoes ==
  ASSUME WellTyped, NEW r \in Requests, EditFlush(r)
  PROVE  /\ GoesOn(r, "flushed") /\ UNCHANGED <<row, cache, index, blind, lost, mixed>>
         /\ req[r].op = "edit" /\ req[r].at = "loaded"
         /\ req[r].units \subseteq Rows \ LockedByAsks
  BY MovesOn DEF EditFlush

LEMMA ReadCacheDoes ==
  ASSUME WellTyped, NEW r \in Requests, ReadCache(r)
  PROVE  /\ GoesOn(r, "read") /\ UNCHANGED <<row, cache, index, blind, lost, mixed>>
         /\ req[r].at = "flushed"
<1>1. req[r] \in Asks /\ req[r].doc \in Documents
  BY DEF WellTyped, TypeOK, Formed, ReadCache
<1> DEFINE c == Only(cache, UnitsOf(req[r].doc) \ req[r].units)
<1>2. req' = [req EXCEPT ![r] = [req[r] EXCEPT !.at = "read", !.cached = c]]
  BY DEF ReadCache
<1> HIDE DEF c
<1>3. /\ req'[r].at = "read" /\ req'[r].op = req[r].op /\ req'[r].units = req[r].units
      /\ req'[r].doc = req[r].doc /\ req'[r].text = req[r].text
      /\ OthersStay(r)
  BY <1>1, <1>2 DEF WellTyped, TypeOK, Asks, OthersStay
<1> QED
  BY <1>1, <1>3 DEF ReadCache, GoesOn

LEMMA ReadNothingDoes ==
  ASSUME WellTyped, NEW r \in Requests, ReadNothing(r)
  PROVE  /\ \E at \in {"read", "written"} :
               GoesOn(r, at) /\ (at = "written" => req[r].op \notin WithText)
         /\ UNCHANGED <<row, cache, index, blind, lost, mixed>>
         /\ req[r].at = "flushed"
<1> DEFINE at == IF req[r].op = "delete" THEN "written" ELSE "read"
<1>1. /\ req' = [req EXCEPT ![r].at = at] /\ req[r].at = "flushed"
      /\ UNCHANGED <<row, cache, index, blind, lost, mixed, run, whole>>
  BY DEF ReadNothing
<1>2. at \in {"read", "written"} /\ (at = "written" => req[r].op \notin WithText)
  BY DEF WithText
<1> HIDE DEF at
<1>3. GoesOn(r, at)
  BY <1>1, MovesOn
<1> QED
  BY <1>1, <1>2, <1>3

LEMMA WriteCacheDoes ==
  ASSUME WellTyped, NEW r \in Requests, WriteCache(r)
  PROVE  /\ GoesOn(r, "written") /\ UNCHANGED <<row, index, blind, mixed>>
         /\ req[r].at = "read"
         /\ \A u \in Units :
               /\ Of[u] # req[r].doc => cache'[u] = cache[u]
               /\ Of[u] = req[r].doc =>
                     IF u \in req[r].units THEN cache'[u] = req[r].text
                     ELSE cache'[u] = cache[u] \/ req[r].doc \in lost'
         /\ lost \subseteq lost' /\ lost' \subseteq lost \cup {req[r].doc}
<1> DEFINE d == req[r].doc
           new == [u \in Units |-> IF u \in req[r].units THEN req[r].text ELSE req[r].cached[u]]
<1>1. /\ req[r].at = "read" /\ req' = [req EXCEPT ![r] = [req[r] EXCEPT !.at = "written", !.cached = Nothing]]
      /\ cache' = Replaced(cache, d, new)
      /\ lost' = IF \E u \in UnitsOf(d) \ req[r].units : cache[u] # new[u] THEN lost \cup {d} ELSE lost
      /\ UNCHANGED <<row, index, run, blind, mixed, whole>>
  BY DEF WriteCache
<1>2. \A u \in Units : new[u] = IF u \in req[r].units THEN req[r].text ELSE req[r].cached[u]
  OBVIOUS
<1>7. req[r] \in Asks /\ req[r].doc \in Documents
  BY <1>1 DEF WellTyped, TypeOK, Formed
<1>8. /\ req'[r].at = "written" /\ req'[r].op = req[r].op /\ req'[r].units = req[r].units
      /\ req'[r].doc = req[r].doc /\ req'[r].text = req[r].text
      /\ OthersStay(r)
  BY <1>1, <1>7 DEF WellTyped, TypeOK, Asks, OthersStay
<1>3. GoesOn(r, "written")
  BY <1>1, <1>7, <1>8 DEF GoesOn
<1> HIDE DEF new
<1>4. \A u \in Units : cache'[u] = IF Of[u] = d THEN new[u] ELSE cache[u]
  BY <1>1 DEF Replaced
<1>5. lost \subseteq lost' /\ lost' \subseteq lost \cup {d}
  BY <1>1
<1>6. ASSUME NEW u \in Units, Of[u] = d, u \notin req[r].units
      PROVE  cache'[u] = cache[u] \/ d \in lost'
  BY <1>1, <1>4, <1>6 DEF UnitsOf
<1> QED
  BY <1>1, <1>2, <1>3, <1>4, <1>5, <1>6

LEMMA UpsertDoes ==
  ASSUME WellTyped, NEW r \in Requests, Upsert(r)
  PROVE  /\ GoesOn(r, "upserted") /\ UNCHANGED <<row, cache, blind, lost, mixed>>
         /\ req[r].op \in WithText /\ req[r].at = "written"
         /\ \A u \in Units : index'[u] = IF u \in req[r].units THEN req[r].text ELSE index[u]
<1>1. GoesOn(r, "upserted")
  BY MovesOn DEF Upsert
<1> QED
  BY <1>1 DEF Upsert, WithText

LEMMA DeleteCommitDoes ==
  ASSUME WellTyped, NEW r \in Requests, DeleteCommit(r)
  PROVE  /\ GoesOn(r, "deleted") /\ UNCHANGED <<cache, index, blind, lost, mixed>>
         /\ req[r].op = "delete" /\ req[r].at = "written"
         /\ req[r].units \cap LockedByAsks = {}
         /\ \A u \in Units : row'[u] = IF u \in req[r].units THEN None ELSE row[u]
<1>1. GoesOn(r, "deleted")
  BY MovesOn DEF DeleteCommit
<1> QED
  BY <1>1 DEF DeleteCommit

LEMMA EndsFree ==
  ASSUME WellTyped, NEW r \in Requests, req' = [req EXCEPT ![r] = Free],
         req[r].at # "none", UNCHANGED <<run, whole>>
  PROVE  Leaves(r)
<1>1. req[r].doc \in Documents
  BY DEF WellTyped, Formed
<1> QED
  BY <1>1 DEF WellTyped, TypeOK, Leaves, OthersStay

LEMMA EditStaleDoes ==
  ASSUME WellTyped, NEW r \in Requests, EditStale(r)
  PROVE  /\ Leaves(r) /\ UNCHANGED <<row, cache, index, blind, lost, mixed>>
         /\ req[r].at = "loaded"
  BY EndsFree DEF EditStale

LEMMA DeleteVectorsDoes ==
  ASSUME WellTyped, NEW r \in Requests, DeleteVectors(r)
  PROVE  /\ Leaves(r) /\ UNCHANGED <<row, cache, blind, lost, mixed>>
         /\ req[r].at = "deleted"
         /\ \A u \in Units : index'[u] = IF u \in req[r].units THEN None ELSE index[u]
<1>1. Leaves(r)
  BY EndsFree DEF DeleteVectors
<1> QED
  BY <1>1 DEF DeleteVectors

LEMMA FailDoes ==
  ASSUME WellTyped, Phases, NEW r \in Requests, Fail(r)
  PROVE  /\ Leaves(r) /\ UNCHANGED <<row, cache, index, blind, lost>>
         /\ mixed \subseteq mixed' /\ mixed' \subseteq mixed \cup {req[r].doc}
         /\ req[r].at \in {"written", "upserted", "deleted"} => req[r].doc \in mixed'
<1>1. req[r].at # "none"
  <2>1. req[r] \in Asks /\ req[r].op # "none"
    BY DEF Fail, WellTyped, TypeOK, Phases
  <2> QED
    BY <2>1 DEF Asks, Phases, PastFlush
<1>2. Leaves(r)
  BY <1>1, EndsFree DEF Fail
<1> QED
  BY <1>2 DEF Fail

LEMMA CommitDoes ==
  ASSUME WellTyped, NEW r \in Requests, Commit(r)
  PROVE  \E u \in Units :
            /\ Leaves(r) /\ UNCHANGED <<cache, index, lost, mixed>>
            /\ req[r].op \in WithText /\ req[r].at = "upserted" /\ req[r].units = {u}
            /\ row'[u] # None
            /\ \A x \in Units \ {u} : row'[x] = row[x] /\ (x \in blind <=> x \in blind')
            /\ u \notin blind' => row'[u] = req[r].text
<1>1. PICK u \in Units : req[r].units = {u}
  BY DEF Commit, WellTyped, Formed
<1>2. (CHOOSE x \in req[r].units : TRUE) = u
  BY <1>1
<1>3. Leaves(r)
  BY EndsFree DEF Commit
<1>4. req[r].op \in WithText /\ req[r].at = "upserted"
  BY DEF Commit, WellTyped, Formed, WithText
<1> DEFINE x == CHOOSE x \in req[r].units : TRUE
           new == IF req[r].op = "create" THEN req[r].text
                  ELSE [row[u] EXCEPT ![req[r].column] = req[r].text[req[r].column]]
<1>5. /\ row' = [row EXCEPT ![x] = IF req[r].op = "create" THEN req[r].text
                                   ELSE [row[x] EXCEPT ![req[r].column] = req[r].text[req[r].column]]]
      /\ blind' = IF row'[x] = req[r].text THEN blind \ {x} ELSE blind \cup {x}
      /\ UNCHANGED <<cache, index, lost, mixed>>
  BY DEF Commit
<1>6. x = u
  BY <1>2
<1> HIDE DEF x
<1>7. row' = [row EXCEPT ![u] = new] /\ blind' = IF row'[u] = req[r].text THEN blind \ {u} ELSE blind \cup {u}
  BY <1>5, <1>6
<1>8. u \in Rows'
  BY <1>1, CommitTyped
<1> HIDE DEF new
<1>9. \A y \in Units \ {u} : row'[y] = row[y]
  BY <1>7 DEF WellTyped, TypeOK, Vectors
<1> QED
  BY <1>1, <1>3, <1>4, <1>5, <1>7, <1>8, <1>9 DEF Rows

(* A step of a request.                                                                          *)
AskStep(r) ==
    \/ \E u \in Units : Create(r, u)
    \/ \E u \in Units, column \in Columns : Edit(r, u, column)
    \/ EditFlush(r)
    \/ EditStale(r)
    \/ ReadCache(r)
    \/ ReadNothing(r)
    \/ \E S \in SUBSET Units : Delete(r, S)
    \/ WriteCache(r)
    \/ Upsert(r)
    \/ Commit(r)
    \/ DeleteCommit(r)
    \/ DeleteVectors(r)
    \/ Fail(r)

(* All else leaves rows and requests alone.                                                      *)
LEMMA AsksOrNot ==
  ASSUME [Next]_vars
  PROVE  (\E r \in Requests : AskStep(r)) \/ UNCHANGED <<row, req>>
<1>1. CASE UNCHANGED vars
  BY <1>1 DEF vars
<1>2. CASE \E r \in Requests : AskStep(r)
  BY <1>2
<1>3. CASE \E w \in Workers : \/ \E d \in Documents, at \in {"embed", "index"} : Retry(w, d, at)
                              \/ EmbedRead(w) \/ EmbedStore(w) \/ EmbedCommit(w)
                              \/ IndexRead(w) \/ IndexDelete(w) \/ IndexUpsert(w) \/ RunFails(w)
  BY <1>3 DEF Retry, EmbedRead, EmbedStore, EmbedCommit, IndexRead, IndexDelete, IndexUpsert, RunFails
<1>4. CASE \E w \in Workers : \/ \E t \in Tasks : Deliver(w, t)
                              \/ Start(w) \/ Finish(w) \/ Stop(w)
                              \/ \E d \in Documents : Check(w, d)
  BY <1>4 DEF Deliver, Start, Check, Finish, Stop, content
<1>5. CASE \E t \in Tasks : Ask(t) \/ AskCommit(t) \/ Cancel(t) \/ CancelCommit(t)
  BY <1>5 DEF Ask, AskCommit, Cancel, CancelCommit, content
<1> QED
  BY <1>1, <1>2, <1>3, <1>4, <1>5 DEF Next, AskStep

(* A request that goes on to a phase of its own, or ends.                                        *)
LEMMA AskPhases ==
  ASSUME Phases, NEW r \in Requests, OthersStay(r),
         req'[r].units \subseteq UnitsOf(req'[r].doc),
         req'[r].op = "none" => req'[r] = Free,
         req'[r].op = "create" => req'[r].at \in PastFlush,
         req'[r].op = "edit" => req'[r].at \in {"loaded"} \cup PastFlush,
         req'[r].op = "delete" => /\ req'[r].at \in {"flushed", "read", "written", "deleted"}
                                  /\ req'[r].text = None
  PROVE  Phases'
  BY DEF Phases, OthersStay

LEMMA GoesOnPhases ==
  ASSUME WellTyped, Phases, NEW r \in Requests, NEW at, GoesOn(r, at),
         req[r].at # "none", at \in PastFlush \cup {"deleted"},
         at = "deleted" => req[r].op = "delete",
         at = "upserted" => req[r].op \in WithText
  PROVE  Phases'
<1>1. req[r].op # "none"
  BY FreeIs DEF Phases
<1> QED
  BY <1>1, AskPhases DEF Phases, GoesOn, PastFlush, WithText

LEMMA LeavesPhases ==
  ASSUME Phases, NEW r \in Requests, Leaves(r)
  PROVE  Phases'
  BY FreeIs, AskPhases DEF Leaves

LEMMA NextPhases ==
  ASSUME WellTyped, Phases, [Next]_vars
  PROVE  Phases'
<1>1. CASE UNCHANGED <<row, req>>
  BY <1>1 DEF Phases
<1>2. ASSUME NEW r \in Requests, AskStep(r)
      PROVE  Phases'
  <2>1. ASSUME NEW u \in Units, Create(r, u) PROVE Phases'
    BY <2>1, CreateDoes, AskPhases DEF Begins, UnitsOf, PastFlush
  <2>2. ASSUME NEW u \in Units, NEW column \in Columns, Edit(r, u, column) PROVE Phases'
    BY <2>2, EditDoes, AskPhases DEF Begins, UnitsOf
  <2>3. ASSUME NEW S \in SUBSET Units, Delete(r, S) PROVE Phases'
    <3>1. PICK d \in Documents : Begins(r, "delete", "flushed", d, S) /\ req'[r].text = None /\ S \subseteq RowsOf(d)
      BY <2>3, DeleteDoes
    <3> QED
      BY <3>1, AskPhases DEF Begins, RowsOf
  <2>4. CASE EditFlush(r)
    BY <2>4, EditFlushDoes, GoesOnPhases DEF PastFlush
  <2>5. CASE ReadCache(r)
    BY <2>5, ReadCacheDoes, GoesOnPhases DEF PastFlush
  <2>6. CASE WriteCache(r)
    BY <2>6, WriteCacheDoes, GoesOnPhases DEF PastFlush
  <2>7. CASE Upsert(r)
    BY <2>7, UpsertDoes, GoesOnPhases DEF PastFlush
  <2>8. CASE DeleteCommit(r)
    BY <2>8, DeleteCommitDoes, GoesOnPhases
  <2>9. CASE EditStale(r) \/ DeleteVectors(r)
    BY <2>9, EditStaleDoes, DeleteVectorsDoes, LeavesPhases
  <2>10. CASE Commit(r)
    BY <2>10, CommitDoes, LeavesPhases
  <2>11. CASE Fail(r)
    BY <2>11, FailDoes, LeavesPhases
  <2>12. CASE ReadNothing(r)
    BY <2>12, ReadNothingDoes, GoesOnPhases DEF PastFlush
  <2> QED
    BY <1>2, <2>1, <2>2, <2>3, <2>4, <2>5, <2>6, <2>7, <2>8, <2>9, <2>10, <2>11, <2>12 DEF AskStep
<1> QED
  BY <1>1, <1>2, AsksOrNot

(* An edit past its flush has its row locked.                                                    *)
LEMMA EditsLock ==
  ASSUME NEW r \in Requests, req[r].op = "edit", req[r].at \in PastFlush, NEW u \in req[r].units
  PROVE  u \in LockedByAsks
  BY DEF LockedByAsks, PastFlush

LEMMA GoesOnApart ==
  ASSUME HoldersApart, NEW r \in Requests, NEW at, GoesOn(r, at), req[r].at \in PastFlush, at # "deleted",
         UNCHANGED row
  PROVE  HoldersApart'
<1>1. ASSUME NEW q \in Requests
      PROVE  /\ req'[q].units = req[q].units /\ req'[q].op = req[q].op
             /\ req'[q].at = "deleted" => req[q].at = "deleted"
             /\ req'[q].at \in PastFlush => req[q].at \in PastFlush
  BY DEF GoesOn, OthersStay
<1> QED
  BY <1>1 DEF HoldersApart, Rows

LEMMA LeavesApart ==
  ASSUME HoldersApart, NEW r \in Requests, Leaves(r), \A u \in Rows' : u \in Rows \/ u \in req[r].units,
         \/ Rows' \subseteq Rows
         \/ req[r].op = "create"
  PROVE  HoldersApart'
<1>1. \A q \in Requests \ {r} : req'[q] = req[q]
  BY DEF Leaves, OthersStay
<1>2. req'[r].op = "none" /\ req'[r].units = {} /\ req'[r].at = "none"
  BY FreeIs DEF Leaves
<1>3. \A q \in Requests \ {r} : req[q].units \cap Rows = {} => req[q].units \cap Rows' = {}
  BY DEF HoldersApart
<1> QED
  BY <1>1, <1>2, <1>3 DEF HoldersApart

LEMMA NextApart ==
  ASSUME WellTyped, Phases, HoldersApart, [Next]_vars
  PROVE  HoldersApart'
<1>1. CASE UNCHANGED <<row, req>>
  BY <1>1 DEF HoldersApart, Rows
<1>2. ASSUME NEW r \in Requests, AskStep(r)
      PROVE  HoldersApart'
  <2>1. ASSUME NEW u \in Units, Create(r, u) PROVE HoldersApart'
    <3>1. /\ Begins(r, "create", "flushed", Of[u], {u}) /\ row[u] = None
          /\ \A q \in Requests : u \notin req[q].units
      BY <2>1, CreateDoes
    <3> QED
      BY <3>1 DEF Begins, OthersStay, HoldersApart, Rows
  <2>2. ASSUME NEW u \in Units, NEW column \in Columns, Edit(r, u, column) PROVE HoldersApart'
    <3>1. Begins(r, "edit", "loaded", Of[u], {u}) /\ u \in Rows
      BY <2>2, EditDoes
    <3> QED
      BY <3>1 DEF Begins, OthersStay, HoldersApart, Rows, PastFlush
  <2>3. ASSUME NEW S \in SUBSET Units, Delete(r, S) PROVE HoldersApart'
    <3>1. PICK d \in Documents : Begins(r, "delete", "flushed", d, S) /\ req'[r].text = None /\ S \subseteq RowsOf(d)
      BY <2>3, DeleteDoes
    <3>2. S \subseteq Rows
      BY <3>1 DEF RowsOf
    <3> QED
      BY <3>1, <3>2 DEF Begins, OthersStay, HoldersApart, Rows
  <2>4. CASE EditFlush(r)
    <3>1. /\ GoesOn(r, "flushed") /\ UNCHANGED row /\ req[r].op = "edit"
          /\ req[r].units \cap LockedByAsks = {}
      BY <2>4, EditFlushDoes
    <3>2. \A q \in Requests : \A u \in req[q].units : (req[q].op = "edit" /\ req[q].at \in PastFlush) => u \notin req[r].units
      BY <3>1, EditsLock
    <3> QED
      BY <3>1, <3>2 DEF GoesOn, OthersStay, HoldersApart, Rows
  <2>5. CASE ReadCache(r)
    BY <2>5, ReadCacheDoes, GoesOnApart DEF PastFlush
  <2>6. CASE WriteCache(r)
    BY <2>6, WriteCacheDoes, GoesOnApart DEF PastFlush
  <2>7. CASE Upsert(r)
    BY <2>7, UpsertDoes, GoesOnApart DEF PastFlush
  <2>8. CASE DeleteCommit(r)
    <3>1. /\ GoesOn(r, "deleted") /\ req[r].op = "delete"
          /\ \A u \in Units : row'[u] = IF u \in req[r].units THEN None ELSE row[u]
      BY <2>8, DeleteCommitDoes
    <3>2. Rows' = Rows \ req[r].units
      BY <3>1 DEF Rows
    <3> QED
      BY <3>1, <3>2 DEF GoesOn, OthersStay, HoldersApart
  <2>9. CASE EditStale(r) \/ DeleteVectors(r) \/ Fail(r)
    <3>1. Leaves(r) /\ UNCHANGED row
      BY <2>9, EditStaleDoes, DeleteVectorsDoes, FailDoes
    <3> QED
      BY <3>1, LeavesApart DEF Rows
  <2>10. CASE Commit(r)
    <3>1. PICK u \in Units : /\ Leaves(r) /\ req[r].op \in WithText /\ req[r].at = "upserted" /\ req[r].units = {u}
                             /\ \A x \in Units \ {u} : row'[x] = row[x]
      BY <2>10, CommitDoes
    <3>2. req[r].op = "edit" => u \in Rows
      BY <3>1 DEF WellTyped, EditsHold
    <3>3. \A x \in Rows' : x \in Rows \/ x \in req[r].units
      BY <3>1 DEF Rows
    <3>4. Rows' \subseteq Rows \/ req[r].op = "create"
      BY <3>1, <3>2, <3>3 DEF WithText
    <3> QED
      BY <3>1, <3>3, <3>4, LeavesApart
  <2>11. CASE ReadNothing(r)
    BY <2>11, ReadNothingDoes, GoesOnApart DEF PastFlush
  <2> QED
    BY <1>2, <2>1, <2>2, <2>3, <2>4, <2>5, <2>6, <2>7, <2>8, <2>9, <2>10, <2>11 DEF AskStep
<1> QED
  BY <1>1, <1>2, AsksOrNot

-----------------------------------------------------------------------------
(* What the requests have written, while they go on. *)

LEMMA AskedUnits ==
  ASSUME Phases, NEW r \in Requests, NEW u \in req[r].units
  PROVE  u \in Units /\ Of[u] = req[r].doc /\ r \in AsksFor(Of[u])
  BY DEF Phases, UnitsOf, AsksFor

(* While an edit or an addition has a unit, nobody else comes to write it.                       *)
LEMMA NobodyElse ==
  ASSUME WellTyped, Phases, HoldersApart, NEW r \in Requests, NEW q \in Requests \ {r}, NEW u \in req[r].units,
         req[r].op \in WithText, req[r].at \in PastFlush, u \in req[q].units
  PROVE  /\ req[q].op \in WithText => req[q].at \notin PastFlush
         /\ req[q].at # "deleted"
         /\ u \in LockedByAsks
<1>1. req[r].op = "edit"
  BY DEF HoldersApart, WithText
<1>2. u \in Rows
  BY <1>1 DEF WellTyped, EditsHold, PastFlush
<1>3. u \in LockedByAsks
  BY <1>1, EditsLock
<1> QED
  BY <1>1, <1>2, <1>3 DEF HoldersApart, WithText

LEMMA BeginsWritten ==
  ASSUME CacheWritten, IndexWritten, NEW r \in Requests, NEW op, NEW at \in {"loaded", "flushed"}, NEW d, NEW S,
         Begins(r, op, at, d, S)
  PROVE  CacheWritten' /\ IndexWritten'
<1>1. /\ \A q \in Requests \ {r} : req'[q] = req[q]
      /\ req'[r].at = at /\ UNCHANGED <<cache, index, lost>> /\ mixed \subseteq mixed'
  BY DEF Begins, OthersStay, Meets
<1>2. req[r].at = "none"
  BY FreeIs DEF Begins
<1>3. ASSUME NEW u, Leaving(u) PROVE Leaving(u)'
  <2>1. PICK q \in Requests : req[q].op = "delete" /\ req[q].at = "written" /\ u \in req[q].units
    BY <1>3 DEF Leaving
  <2>2. req'[q] = req[q]
    BY <1>1, <1>2, <2>1
  <2> QED
    BY <2>1, <2>2 DEF Leaving
<1>4. CacheWritten'
  BY <1>1, <1>3 DEF CacheWritten
<1>5. IndexWritten'
  BY <1>1 DEF IndexWritten
<1> QED
  BY <1>4, <1>5

(* A request goes on or ends, and a deletion that was leaving still is.                           *)
LEMMA LeavingStays ==
  ASSUME NEW r \in Requests, OthersStay(r), NEW u, Leaving(u),
         ~ (req[r].op = "delete" /\ req[r].at = "written" /\ u \in req[r].units)
  PROVE  Leaving(u)'
  BY DEF Leaving, OthersStay

LEMMA AsksCacheWritten ==
  ASSUME WellTyped, Phases, HoldersApart, CacheWritten, IndexWritten, NEW r \in Requests, AskStep(r)
  PROVE  CacheWritten'
<1>1. CASE \/ \E u \in Units : Create(r, u)
           \/ \E u \in Units, column \in Columns : Edit(r, u, column)
  BY <1>1, CreateDoes, EditDoes, BeginsWritten
<1>2. ASSUME NEW S \in SUBSET Units, Delete(r, S) PROVE CacheWritten'
  BY <1>2, DeleteDoes, BeginsWritten
<1>3. ASSUME OthersStay(r), UNCHANGED cache, mixed \subseteq mixed', lost \subseteq lost',
             req'[r].at \in {"written", "upserted"} /\ req'[r].op \in WithText =>
                 req[r].at \in {"written", "upserted"} /\ req'[r].op = req[r].op
                 /\ req'[r].units = req[r].units /\ req'[r].text = req[r].text,
             \A u \in req[r].units : req[r].op = "delete" /\ req[r].at = "written" =>
                 Of[u] \in mixed' \/ u \notin LockedByAsks
      PROVE  CacheWritten'
  <2> SUFFICES ASSUME NEW q \in Requests, NEW u \in req'[q].units,
                      req'[q].op \in WithText, req'[q].at \in {"written", "upserted"},
                      Of[u] \notin mixed' \cup lost'
               PROVE  cache'[u] = req'[q].text \/ Leaving(u)'
    BY DEF CacheWritten
  <2>1. /\ req[q].op \in WithText /\ req[q].at \in {"written", "upserted"} /\ u \in req[q].units
        /\ req'[q].text = req[q].text
    BY <1>3 DEF OthersStay
  <2>2. cache[u] = req[q].text \/ Leaving(u)
    BY <1>3, <2>1 DEF CacheWritten
  <2>3. ASSUME req[r].op = "delete", req[r].at = "written", u \in req[r].units
        PROVE  FALSE
    <3>1. q # r
      BY <2>1, <2>3 DEF WithText
    <3>2. u \in LockedByAsks
      BY <2>1, <2>3, <3>1, NobodyElse DEF PastFlush
    <3> QED
      BY <1>3, <2>3, <3>2
  <2> QED
    BY <1>3, <2>1, <2>2, <2>3, LeavingStays
<1>4. CASE EditFlush(r)
  <2>1. GoesOn(r, "flushed") /\ UNCHANGED <<cache, mixed, lost>> /\ req[r].at = "loaded"
    BY <1>4, EditFlushDoes
  <2> QED
    BY <1>3, <2>1 DEF GoesOn
<1>5. CASE ReadCache(r)
  <2>1. GoesOn(r, "read") /\ UNCHANGED <<cache, mixed, lost>> /\ req[r].at = "flushed"
    BY <1>5, ReadCacheDoes
  <2> QED
    BY <1>3, <2>1 DEF GoesOn
<1>6. CASE Upsert(r)
  <2>1. GoesOn(r, "upserted") /\ UNCHANGED <<cache, mixed, lost>> /\ req[r].at = "written" /\ req[r].op \in WithText
    BY <1>6, UpsertDoes
  <2> QED
    BY <1>3, <2>1 DEF GoesOn, WithText
<1>7. CASE DeleteCommit(r)
  <2>1. GoesOn(r, "deleted") /\ UNCHANGED <<cache, mixed, lost>> /\ req[r].units \cap LockedByAsks = {}
    BY <1>7, DeleteCommitDoes
  <2> QED
    BY <1>3, <2>1 DEF GoesOn
<1>8. CASE EditStale(r) \/ DeleteVectors(r) \/ Commit(r)
  <2>1. /\ Leaves(r) /\ UNCHANGED <<cache, mixed, lost>>
        /\ req[r].at # "written"
    BY <1>8, EditStaleDoes, DeleteVectorsDoes, CommitDoes
  <2> QED
    BY <1>3, <2>1, FreeIs DEF Leaves
<1>9. CASE Fail(r)
  <2>1. /\ Leaves(r) /\ UNCHANGED <<cache, lost>> /\ mixed \subseteq mixed'
        /\ req[r].at = "written" => req[r].doc \in mixed'
    BY <1>9, FailDoes
  <2> QED
    BY <1>3, <2>1, FreeIs, AskedUnits DEF Leaves
<1>10. CASE WriteCache(r)
  <2>1. /\ GoesOn(r, "written") /\ mixed' = mixed /\ req[r].at = "read" /\ lost \subseteq lost'
        /\ \A u \in Units :
               /\ Of[u] # req[r].doc => cache'[u] = cache[u]
               /\ Of[u] = req[r].doc =>
                     IF u \in req[r].units THEN cache'[u] = req[r].text
                     ELSE cache'[u] = cache[u] \/ req[r].doc \in lost'
    BY <1>10, WriteCacheDoes
  <2> SUFFICES ASSUME NEW q \in Requests, NEW u \in req'[q].units,
                      req'[q].op \in WithText, req'[q].at \in {"written", "upserted"},
                      Of[u] \notin mixed' \cup lost'
               PROVE  cache'[u] = req'[q].text \/ Leaving(u)'
    BY DEF CacheWritten
  <2>2. /\ req[q].op = req'[q].op /\ req[q].units = req'[q].units /\ req[q].text = req'[q].text
        /\ q # r => req[q] = req'[q]
    BY <2>1 DEF GoesOn, OthersStay
  <2>3. u \in Units /\ Of[u] = req[q].doc
    BY <2>2, AskedUnits
  <2>4. CASE q = r
    BY <2>1, <2>2, <2>3, <2>4
  <2>5. CASE q # r /\ u \in req[r].units
    <3>1. req[r].op \notin WithText
      BY <2>1, <2>2, <2>5, NobodyElse DEF PastFlush
    <3>2. req[r].op = "delete"
      BY <2>1, <3>1, FreeIs DEF WithText, Phases, WellTyped, TypeOK, Asks
    <3>3. req'[r].op = "delete" /\ req'[r].at = "written" /\ u \in req'[r].units
      BY <2>1, <2>5, <3>2 DEF GoesOn
    <3> QED
      BY <3>3 DEF Leaving
  <2>6. CASE q # r /\ u \notin req[r].units
    <3>1. cache'[u] = cache[u]
      BY <2>1, <2>3, <2>6
    <3>2. cache[u] = req[q].text \/ Leaving(u)
      BY <2>1, <2>2, <2>6 DEF CacheWritten
    <3> QED
      BY <2>1, <2>2, <2>6, <3>1, <3>2, LeavingStays DEF GoesOn
  <2> QED
    BY <2>4, <2>5, <2>6
<1>11. CASE ReadNothing(r)
  <2>1. /\ OthersStay(r) /\ UNCHANGED <<cache, mixed, lost>> /\ req[r].at = "flushed"
        /\ ~(req'[r].at \in {"written", "upserted"} /\ req'[r].op \in WithText)
    BY <1>11, ReadNothingDoes DEF GoesOn
  <2> QED
    BY <1>3, <2>1
<1> QED
  BY <1>1, <1>2, <1>4, <1>5, <1>6, <1>7, <1>8, <1>9, <1>10, <1>11 DEF AskStep

LEMMA AsksIndexWritten ==
  ASSUME WellTyped, Phases, HoldersApart, CacheWritten, IndexWritten, NEW r \in Requests, AskStep(r)
  PROVE  IndexWritten'
<1>1. CASE \/ \E u \in Units : Create(r, u)
           \/ \E u \in Units, column \in Columns : Edit(r, u, column)
  BY <1>1, CreateDoes, EditDoes, BeginsWritten
<1>2. ASSUME NEW S \in SUBSET Units, Delete(r, S) PROVE IndexWritten'
  BY <1>2, DeleteDoes, BeginsWritten
<1>3. ASSUME OthersStay(r), UNCHANGED index, mixed \subseteq mixed', req'[r].at # "upserted"
      PROVE  IndexWritten'
  BY <1>3 DEF OthersStay, IndexWritten
<1>4. CASE EditFlush(r) \/ ReadCache(r) \/ ReadNothing(r) \/ WriteCache(r) \/ DeleteCommit(r)
  <2>1. /\ OthersStay(r) /\ UNCHANGED <<index, mixed>> /\ req'[r].at # "upserted"
    BY <1>4, EditFlushDoes, ReadCacheDoes, ReadNothingDoes, WriteCacheDoes, DeleteCommitDoes DEF GoesOn
  <2> QED
    BY <1>3, <2>1
<1>5. CASE EditStale(r) \/ Commit(r) \/ Fail(r)
  <2>1. /\ Leaves(r) /\ UNCHANGED index /\ mixed \subseteq mixed'
    BY <1>5, EditStaleDoes, CommitDoes, FailDoes
  <2> QED
    BY <1>3, <2>1, FreeIs DEF Leaves
<1>6. CASE Upsert(r)
  <2>1. /\ GoesOn(r, "upserted") /\ mixed' = mixed /\ req[r].at = "written" /\ req[r].op \in WithText
        /\ \A u \in Units : index'[u] = IF u \in req[r].units THEN req[r].text ELSE index[u]
    BY <1>6, UpsertDoes
  <2> SUFFICES ASSUME NEW q \in Requests, NEW u \in req'[q].units, req'[q].at = "upserted", Of[u] \notin mixed'
               PROVE  index'[u] = req'[q].text
    BY DEF IndexWritten
  <2>2. /\ req[q].units = req'[q].units /\ req[q].text = req'[q].text
        /\ q # r => req[q] = req'[q]
    BY <2>1 DEF GoesOn, OthersStay
  <2>3. u \in Units
    BY <2>2, AskedUnits
  <2>4. CASE q = r
    BY <2>1, <2>2, <2>3, <2>4
  <2>5. CASE q # r
    <3>1. req[q].op \in WithText
      BY <2>2, <2>5 DEF WellTyped, Formed, WithText
    <3>2. u \notin req[r].units
      BY <2>1, <2>2, <2>5, <3>1, NobodyElse DEF PastFlush
    <3> QED
      BY <2>1, <2>2, <2>3, <2>5, <3>2 DEF IndexWritten
  <2> QED
    BY <2>4, <2>5
<1>7. CASE DeleteVectors(r)
  <2>1. /\ Leaves(r) /\ mixed' = mixed /\ req[r].at = "deleted"
        /\ \A u \in Units : index'[u] = IF u \in req[r].units THEN None ELSE index[u]
    BY <1>7, DeleteVectorsDoes
  <2> SUFFICES ASSUME NEW q \in Requests, NEW u \in req'[q].units, req'[q].at = "upserted", Of[u] \notin mixed'
               PROVE  index'[u] = req'[q].text
    BY DEF IndexWritten
  <2>2. q # r /\ req[q] = req'[q]
    BY <2>1, FreeIs DEF Leaves, OthersStay
  <2>3. u \in Units
    BY <2>2, AskedUnits
  <2>4. u \notin req[r].units
    <3>1. req[q].op \in WithText
      BY <2>2 DEF WellTyped, Formed, WithText
    <3> QED
      BY <2>1, <2>2, <3>1, NobodyElse DEF PastFlush
  <2> QED
    BY <2>1, <2>2, <2>3, <2>4 DEF IndexWritten
<1> QED
  BY <1>1, <1>2, <1>4, <1>5, <1>6, <1>7 DEF AskStep

-----------------------------------------------------------------------------
(* That the cache and Milvus follow the rows is kept by the requests. *)

NotWritten(u) == \A r \in Requests : u \in req[r].units => req[r].at \notin {"written", "upserted"}
NotIndexed(u) ==
    /\ \A r \in Requests : u \in req[r].units => req[r].at \notin {"upserted", "deleted"}
    /\ \A w \in RunsFor(Of[u]) : run[w].at # "cleared"

(* A step of a request that leaves rows and stores alone, and does not end what it has written.   *)
LEMMA QuietAskFollows ==
  ASSUME CacheFollows, IndexFollows, NEW r \in Requests, OthersStay(r),
         UNCHANGED <<row, cache, index, run, blind>>, mixed \subseteq mixed', lost \subseteq lost',
         \A u \in req[r].units :
            /\ req[r].at \in {"written", "upserted"} =>
                  Of[u] \in mixed' \/ u \notin Rows \/ (u \in req'[r].units /\ req'[r].at \in {"written", "upserted"})
            /\ req[r].at \in {"upserted", "deleted"} =>
                  Of[u] \in mixed' \/ (u \in req'[r].units /\ req'[r].at \in {"upserted", "deleted"})
  PROVE  CacheFollows' /\ IndexFollows'
<1>1. ASSUME NEW u \in Rows', u \notin blind', Of[u] \notin mixed' \cup lost', NotWritten(u)'
      PROVE  cache'[u] = row'[u]
  <2>1. u \in Rows /\ u \notin blind /\ Of[u] \notin mixed \cup lost
    BY <1>1 DEF Rows
  <2>2. NotWritten(u)
    BY <1>1, <2>1 DEF NotWritten, OthersStay
  <2> QED
    BY <2>1, <2>2 DEF CacheFollows, NotWritten
<1>2. ASSUME NEW u \in Units, u \notin blind', Of[u] \notin mixed', NotIndexed(u)'
      PROVE  index'[u] = row'[u]
  <2>1. u \notin blind /\ Of[u] \notin mixed
    BY <1>2
  <2>2. NotIndexed(u)
    BY <1>2, <2>1 DEF NotIndexed, OthersStay, RunsFor
  <2> QED
    BY <2>1, <2>2 DEF IndexFollows, NotIndexed
<1> QED
  BY <1>1, <1>2 DEF CacheFollows, IndexFollows, NotWritten, NotIndexed

LEMMA BeginsFollows ==
  ASSUME CacheFollows, IndexFollows, NEW r \in Requests, NEW op, NEW at, NEW d, NEW S,
         Begins(r, op, at, d, S)
  PROVE  CacheFollows' /\ IndexFollows'
  BY QuietAskFollows, FreeIs DEF Begins, Meets

LEMMA CommitFollows ==
  ASSUME WellTyped, Phases, HoldersApart, CacheWritten, IndexWritten, CacheFollows, IndexFollows,
         NEW r \in Requests, Commit(r)
  PROVE  CacheFollows' /\ IndexFollows'
<1>1. PICK u \in Units :
            /\ Leaves(r) /\ UNCHANGED <<cache, index, lost, mixed>>
            /\ req[r].op \in WithText /\ req[r].at = "upserted" /\ req[r].units = {u}
            /\ row'[u] # None
            /\ \A x \in Units \ {u} : row'[x] = row[x] /\ (x \in blind <=> x \in blind')
            /\ u \notin blind' => row'[u] = req[r].text
  BY CommitDoes
<1>2. /\ \A q \in Requests \ {r} : req'[q] = req[q]
      /\ req'[r].units = {} /\ run' = run
  BY <1>1, FreeIs DEF Leaves, OthersStay
<1>3. ASSUME NEW x \in Rows', x \notin blind', Of[x] \notin mixed' \cup lost', NotWritten(x)'
      PROVE  cache'[x] = row'[x]
  <2>1. CASE x = u
    <3>1. cache[u] = req[r].text \/ Leaving(u)
      BY <1>1, <1>3, <2>1 DEF CacheWritten
    <3>2. ~ Leaving(u)
      <4>1. SUFFICES ASSUME NEW q \in Requests, req[q].op = "delete", req[q].at = "written", u \in req[q].units
                     PROVE  FALSE
        BY DEF Leaving
      <4>2. q # r
        BY <1>1, <4>1
      <4> QED
        BY <1>2, <1>3, <2>1, <4>1, <4>2 DEF NotWritten
    <3> QED
      BY <1>1, <1>3, <2>1, <3>1, <3>2
  <2>2. CASE x # u
    <3>1. x \in Rows /\ x \notin blind
      BY <1>1, <1>3, <2>2 DEF Rows
    <3>2. NotWritten(x)
      BY <1>1, <1>2, <1>3, <2>2 DEF NotWritten
    <3> QED
      BY <1>1, <1>3, <2>2, <3>1, <3>2 DEF CacheFollows, NotWritten, Rows
  <2> QED
    BY <2>1, <2>2
<1>4. ASSUME NEW x \in Units, x \notin blind', Of[x] \notin mixed', NotIndexed(x)'
      PROVE  index'[x] = row'[x]
  <2>1. CASE x = u
    BY <1>1, <1>4, <2>1 DEF IndexWritten
  <2>2. CASE x # u
    <3>1. NotIndexed(x)
      BY <1>1, <1>2, <1>4, <2>2 DEF NotIndexed, RunsFor
    <3> QED
      BY <1>1, <1>4, <2>2, <3>1 DEF IndexFollows, NotIndexed
  <2> QED
    BY <2>1, <2>2
<1> QED
  BY <1>3, <1>4 DEF CacheFollows, IndexFollows, NotWritten, NotIndexed

LEMMA WriteCacheFollows ==
  ASSUME WellTyped, Phases, HoldersApart, CacheFollows, IndexFollows, NEW r \in Requests, WriteCache(r)
  PROVE  CacheFollows' /\ IndexFollows'
<1>1. /\ GoesOn(r, "written") /\ UNCHANGED <<row, index, blind, mixed>>
      /\ req[r].at = "read"
      /\ \A u \in Units :
               /\ Of[u] # req[r].doc => cache'[u] = cache[u]
               /\ Of[u] = req[r].doc =>
                     IF u \in req[r].units THEN cache'[u] = req[r].text
                     ELSE cache'[u] = cache[u] \/ req[r].doc \in lost'
      /\ lost \subseteq lost'
  BY WriteCacheDoes
<1>2. /\ \A q \in Requests \ {r} : req'[q] = req[q]
      /\ req'[r].units = req[r].units /\ req'[r].at = "written" /\ run' = run
  BY <1>1 DEF GoesOn, OthersStay
<1>3. ASSUME NEW x \in Rows', x \notin blind', Of[x] \notin mixed' \cup lost', NotWritten(x)'
      PROVE  cache'[x] = row'[x]
  <2>1. x \in Rows /\ x \in Units /\ NotWritten(x) /\ x \notin req[r].units
    BY <1>1, <1>2, <1>3 DEF Rows, NotWritten
  <2>2. cache'[x] = cache[x]
    BY <1>1, <1>3, <2>1
  <2> QED
    BY <1>1, <1>3, <2>1, <2>2 DEF CacheFollows, NotWritten
<1>4. ASSUME NEW x \in Units, x \notin blind', Of[x] \notin mixed', NotIndexed(x)'
      PROVE  index'[x] = row'[x]
  <2>1. NotIndexed(x)
    BY <1>1, <1>2, <1>4 DEF NotIndexed, RunsFor
  <2> QED
    BY <1>1, <1>4, <2>1 DEF IndexFollows, NotIndexed
<1> QED
  BY <1>3, <1>4 DEF CacheFollows, IndexFollows, NotWritten, NotIndexed

LEMMA UpsertFollows ==
  ASSUME WellTyped, Phases, HoldersApart, CacheFollows, IndexFollows, NEW r \in Requests, Upsert(r)
  PROVE  CacheFollows' /\ IndexFollows'
<1>1. /\ GoesOn(r, "upserted") /\ UNCHANGED <<row, cache, blind, lost, mixed>>
      /\ req[r].at = "written"
      /\ \A u \in Units : index'[u] = IF u \in req[r].units THEN req[r].text ELSE index[u]
  BY UpsertDoes
<1>2. /\ \A q \in Requests \ {r} : req'[q] = req[q]
      /\ req'[r].units = req[r].units /\ req'[r].at = "upserted" /\ run' = run
  BY <1>1 DEF GoesOn, OthersStay
<1>3. ASSUME NEW x \in Rows', x \notin blind', Of[x] \notin mixed' \cup lost', NotWritten(x)'
      PROVE  cache'[x] = row'[x]
  <2>1. x \in Rows /\ NotWritten(x)
    BY <1>1, <1>2, <1>3 DEF Rows, NotWritten
  <2> QED
    BY <1>1, <1>3, <2>1 DEF CacheFollows, NotWritten
<1>4. ASSUME NEW x \in Units, x \notin blind', Of[x] \notin mixed', NotIndexed(x)'
      PROVE  index'[x] = row'[x]
  <2>1. NotIndexed(x) /\ x \notin req[r].units
    BY <1>1, <1>2, <1>4 DEF NotIndexed, RunsFor
  <2> QED
    BY <1>1, <1>4, <2>1 DEF IndexFollows, NotIndexed
<1> QED
  BY <1>3, <1>4 DEF CacheFollows, IndexFollows, NotWritten, NotIndexed

LEMMA DeleteCommitFollows ==
  ASSUME WellTyped, Phases, HoldersApart, CacheFollows, IndexFollows, NEW r \in Requests, DeleteCommit(r)
  PROVE  CacheFollows' /\ IndexFollows'
<1>1. /\ GoesOn(r, "deleted") /\ UNCHANGED <<cache, index, blind, lost, mixed>>
      /\ req[r].at = "written"
      /\ \A u \in Units : row'[u] = IF u \in req[r].units THEN None ELSE row[u]
  BY DeleteCommitDoes
<1>2. /\ \A q \in Requests \ {r} : req'[q] = req[q]
      /\ req'[r].units = req[r].units /\ req'[r].at = "deleted" /\ run' = run
  BY <1>1 DEF GoesOn, OthersStay
<1>3. ASSUME NEW x \in Rows', x \notin blind', Of[x] \notin mixed' \cup lost', NotWritten(x)'
      PROVE  cache'[x] = row'[x]
  <2>1. x \in Rows /\ x \notin req[r].units /\ row'[x] = row[x]
    BY <1>1, <1>3 DEF Rows
  <2>2. NotWritten(x)
    BY <1>2, <1>3, <2>1 DEF NotWritten
  <2> QED
    BY <1>1, <1>3, <2>1, <2>2 DEF CacheFollows, NotWritten
<1>4. ASSUME NEW x \in Units, x \notin blind', Of[x] \notin mixed', NotIndexed(x)'
      PROVE  index'[x] = row'[x]
  <2>1. NotIndexed(x) /\ x \notin req[r].units
    BY <1>1, <1>2, <1>4 DEF NotIndexed, RunsFor
  <2> QED
    BY <1>1, <1>4, <2>1 DEF IndexFollows, NotIndexed
<1> QED
  BY <1>3, <1>4 DEF CacheFollows, IndexFollows, NotWritten, NotIndexed

LEMMA DeleteVectorsFollows ==
  ASSUME WellTyped, Phases, HoldersApart, CacheFollows, IndexFollows, NEW r \in Requests, DeleteVectors(r)
  PROVE  CacheFollows' /\ IndexFollows'
<1>1. /\ Leaves(r) /\ UNCHANGED <<row, cache, blind, lost, mixed>>
      /\ req[r].at = "deleted"
      /\ \A u \in Units : index'[u] = IF u \in req[r].units THEN None ELSE index[u]
  BY DeleteVectorsDoes
<1>2. /\ \A q \in Requests \ {r} : req'[q] = req[q]
      /\ req'[r].units = {} /\ run' = run
  BY <1>1, FreeIs DEF Leaves, OthersStay
<1>3. ASSUME NEW x \in Rows', x \notin blind', Of[x] \notin mixed' \cup lost', NotWritten(x)'
      PROVE  cache'[x] = row'[x]
  <2>1. x \in Rows /\ NotWritten(x)
    BY <1>1, <1>2, <1>3 DEF Rows, NotWritten
  <2> QED
    BY <1>1, <1>3, <2>1 DEF CacheFollows, NotWritten
<1>4. ASSUME NEW x \in Units, x \notin blind', Of[x] \notin mixed', NotIndexed(x)'
      PROVE  index'[x] = row'[x]
  <2>1. CASE x \in req[r].units
    BY <1>1, <2>1 DEF HoldersApart, Rows
  <2>2. CASE x \notin req[r].units
    <3>1. NotIndexed(x)
      BY <1>1, <1>2, <1>4, <2>2 DEF NotIndexed, RunsFor
    <3> QED
      BY <1>1, <1>4, <2>2, <3>1 DEF IndexFollows, NotIndexed
  <2> QED
    BY <2>1, <2>2
<1> QED
  BY <1>3, <1>4 DEF CacheFollows, IndexFollows, NotWritten, NotIndexed

LEMMA AsksFollow ==
  ASSUME WellTyped, Phases, HoldersApart, CacheWritten, IndexWritten, CacheFollows, IndexFollows,
         NEW r \in Requests, AskStep(r)
  PROVE  CacheFollows' /\ IndexFollows'
<1>1. CASE \/ \E u \in Units : Create(r, u)
           \/ \E u \in Units, column \in Columns : Edit(r, u, column)
  BY <1>1, CreateDoes, EditDoes, BeginsFollows
<1>2. ASSUME NEW S \in SUBSET Units, Delete(r, S) PROVE CacheFollows' /\ IndexFollows'
  BY <1>2, DeleteDoes, BeginsFollows
<1>3. CASE EditFlush(r) \/ ReadCache(r) \/ ReadNothing(r)
  <2>1. /\ OthersStay(r) /\ UNCHANGED <<row, cache, index, run, blind, mixed, lost>>
        /\ req[r].at \in {"loaded", "flushed"}
    BY <1>3, EditFlushDoes, ReadCacheDoes, ReadNothingDoes DEF GoesOn
  <2> QED
    BY <2>1, QuietAskFollows
<1>4. CASE EditStale(r)
  <2>1. /\ OthersStay(r) /\ UNCHANGED <<row, cache, index, run, blind, mixed, lost>>
        /\ req[r].at = "loaded"
    BY <1>4, EditStaleDoes DEF Leaves
  <2> QED
    BY <2>1, QuietAskFollows
<1>5. CASE Fail(r)
  <2>1. /\ OthersStay(r) /\ UNCHANGED <<row, cache, index, run, blind, lost>> /\ mixed \subseteq mixed'
        /\ req[r].at \in {"written", "upserted", "deleted"} => req[r].doc \in mixed'
    BY <1>5, FailDoes DEF Leaves
  <2> QED
    BY <2>1, QuietAskFollows, AskedUnits
<1> QED
  BY <1>1, <1>2, <1>3, <1>4, <1>5, CommitFollows, WriteCacheFollows, UpsertFollows, DeleteCommitFollows,
     DeleteVectorsFollows DEF AskStep

-----------------------------------------------------------------------------
(* A run that has its document alone keeps it so, whatever the requests do. *)

(* A step that is at one document, which no undisturbed run is at.                               *)
LEMMA ElsewhereFits ==
  ASSUME RunsFit, NEW d, run' = run, whole' \subseteq whole, mixed \subseteq mixed',
         \A w \in Workers : Undisturbed(w)' => run[w].doc # d,
         \A w \in whole : run[w].doc # d => w \in whole',
         \A u \in Units : Of[u] # d =>
             /\ row'[u] = row[u] /\ cache'[u] = cache[u] /\ index'[u] = index[u]
             /\ u \in blind' <=> u \in blind,
         lost' \subseteq lost \cup {d},
         \A q \in Requests : req'[q].doc # d => req'[q].doc = req[q].doc \/ req'[q].doc = None,
         None \notin Documents, RunsHaveDocuments
  PROVE  RunsFit'
<1>1. ASSUME NEW w \in Workers, Undisturbed(w)'
      PROVE  HasItAlone(w)'
  <2> DEFINE e == run[w].doc
  <2>1. Undisturbed(w) /\ e # d
    BY <1>1 DEF Undisturbed
  <2>2. HasItAlone(w) /\ e \in Documents
    BY <2>1 DEF RunsFit, Undisturbed, Working, RunsHaveDocuments, OfDocument
  <2>3. AsksFor(e)' = {}
    BY <2>1, <2>2 DEF HasItAlone, AsksFor
  <2>4. RunsFor(e)' = RunsFor(e)
    BY DEF RunsFor
  <2>5. w \in whole' <=> w \in whole
    BY <2>1
  <2>6. Reads(w)'
    BY <2>1, <2>2, <2>5 DEF HasItAlone, Reads, UnitsOf
  <2> QED
    BY <2>1, <2>2, <2>3, <2>4, <2>5, <2>6 DEF HasItAlone
<1> QED
  BY <1>1 DEF RunsFit

LEMMA BeginsFits ==
  ASSUME WellTyped, RunsFit, NEW r \in Requests, NEW op, NEW at, NEW d, NEW S,
         Begins(r, op, at, d, S)
  PROVE  RunsFit'
<1>1. /\ req'[r].doc = d /\ \A q \in Requests \ {r} : req'[q] = req[q]
      /\ UNCHANGED <<row, cache, index, run, blind, lost>>
      /\ mixed' = (IF RunsFor(d) # {} THEN mixed \cup {d} ELSE mixed)
      /\ whole' = whole \ RunsFor(d)
  BY DEF Begins, OthersStay, Meets
<1>2. ASSUME NEW w \in Workers, Undisturbed(w)', run[w].doc = d
      PROVE  FALSE
  <2>1. w \notin whole'
    BY <1>1, <1>2 DEF RunsFit, RunsFor, OfDocument
  <2>2. run[w].at \in Working /\ d \notin mixed'
    BY <1>1, <1>2, <2>1 DEF Undisturbed
  <2> QED
    BY <1>1, <1>2, <2>2 DEF RunsFor, Working
<1>3. \A w \in whole : run[w].doc # d => w \in whole'
  BY <1>1 DEF RunsFor
<1> QED
  BY <1>1, <1>2, <1>3, ElsewhereFits, UnitVectorsAssumption DEF WellTyped

LEMMA AskedFits ==
  ASSUME WellTyped, Phases, RunsFit, NEW r \in Requests, OthersStay(r), req[r].doc \in Documents,
         req'[r].doc = req[r].doc \/ req'[r] = Free,
         UNCHANGED <<run, whole>>, mixed \subseteq mixed',
         \A u \in Units : u \notin req[r].units =>
             row'[u] = row[u] /\ index'[u] = index[u] /\ (u \in blind' <=> u \in blind),
         \A u \in Units : Of[u] # req[r].doc => cache'[u] = cache[u],
         lost' \subseteq lost \cup {req[r].doc}
  PROVE  RunsFit'
<1>1. ASSUME NEW w \in Workers, Undisturbed(w)', run[w].doc = req[r].doc
      PROVE  FALSE
  <2>1. Undisturbed(w)
    BY <1>1 DEF Undisturbed
  <2>2. AsksFor(run[w].doc) = {}
    BY <2>1 DEF RunsFit, HasItAlone
  <2> QED
    BY <1>1, <2>2 DEF AsksFor
<1>2. \A u \in Units : Of[u] # req[r].doc => u \notin req[r].units
  BY AskedUnits
<1> QED
  BY <1>1, <1>2, ElsewhereFits, UnitVectorsAssumption, FreeIs DEF WellTyped, OthersStay

LEMMA AsksFit ==
  ASSUME WellTyped, Phases, RunsFit, NEW r \in Requests, AskStep(r)
  PROVE  RunsFit'
<1>1. CASE \/ \E u \in Units : Create(r, u)
           \/ \E u \in Units, column \in Columns : Edit(r, u, column)
  BY <1>1, CreateDoes, EditDoes, BeginsFits
<1>2. ASSUME NEW S \in SUBSET Units, Delete(r, S) PROVE RunsFit'
  BY <1>2, DeleteDoes, BeginsFits
<1>3. CASE EditFlush(r) \/ ReadCache(r) \/ ReadNothing(r)
  <2>1. \E at : GoesOn(r, at) /\ UNCHANGED <<row, cache, index, blind, lost, mixed>>
    BY <1>3, EditFlushDoes, ReadCacheDoes, ReadNothingDoes
  <2> QED
    BY <2>1, AskedFits DEF GoesOn
<1>4. CASE WriteCache(r)
  <2>1. /\ GoesOn(r, "written") /\ UNCHANGED <<row, index, blind, mixed>>
        /\ \A u \in Units : Of[u] # req[r].doc => cache'[u] = cache[u]
        /\ lost' \subseteq lost \cup {req[r].doc}
    BY <1>4, WriteCacheDoes
  <2> QED
    BY <2>1, AskedFits DEF GoesOn
<1>5. CASE Upsert(r)
  <2>1. /\ GoesOn(r, "upserted") /\ UNCHANGED <<row, cache, blind, lost, mixed>>
        /\ \A u \in Units : u \notin req[r].units => index'[u] = index[u]
    BY <1>5, UpsertDoes
  <2> QED
    BY <2>1, AskedFits DEF GoesOn
<1>6. CASE DeleteCommit(r)
  <2>1. /\ GoesOn(r, "deleted") /\ UNCHANGED <<cache, index, blind, lost, mixed>>
        /\ \A u \in Units : u \notin req[r].units => row'[u] = row[u]
    BY <1>6, DeleteCommitDoes
  <2> QED
    BY <2>1, AskedFits DEF GoesOn
<1>7. CASE EditStale(r) \/ Fail(r)
  <2>1. Leaves(r) /\ UNCHANGED <<row, cache, index, blind, lost>> /\ mixed \subseteq mixed'
    BY <1>7, EditStaleDoes, FailDoes
  <2> QED
    BY <2>1, AskedFits DEF Leaves
<1>8. CASE Commit(r)
  <2>1. /\ Leaves(r) /\ UNCHANGED <<cache, index, lost, mixed>>
        /\ \A x \in Units : x \notin req[r].units => row'[x] = row[x] /\ (x \in blind' <=> x \in blind)
    BY <1>8, CommitDoes
  <2> QED
    BY <2>1, AskedFits DEF Leaves
<1>9. CASE DeleteVectors(r)
  <2>1. /\ Leaves(r) /\ UNCHANGED <<row, cache, blind, lost, mixed>>
        /\ \A u \in Units : u \notin req[r].units => index'[u] = index[u]
    BY <1>9, DeleteVectorsDoes
  <2> QED
    BY <2>1, AskedFits DEF Leaves
<1> QED
  BY <1>1, <1>2, <1>3, <1>4, <1>5, <1>6, <1>7, <1>8, <1>9 DEF AskStep

-----------------------------------------------------------------------------
(* What the steps of a run do: they stay at its document. *)

AtWork == OfDocument \ {"embed"}

AtItsDocument(w) ==
    /\ run[w].doc \in Documents
    /\ run'[w].at \in AtWork => run'[w].doc = run[w].doc
    /\ \A u \in Units : run'[w].got[u] # None => Of[u] = run'[w].doc
    /\ run'[w].at \notin Working => run'[w].got = Nothing
    /\ w \in whole' => run'[w].at \in AtWork
    /\ \A o \in Workers \ {w} : run'[o] = run[o] /\ (o \in whole' => o \in whole)
    /\ \A o \in Workers \ {w} : run[o].doc # run[w].doc => (o \in whole' <=> o \in whole)
    /\ UNCHANGED <<row, req>>
    /\ \A u \in Units : Of[u] # run[w].doc =>
          /\ cache'[u] = cache[u] /\ index'[u] = index[u]
          /\ u \in blind' <=> u \in blind
    /\ \A e \in Documents \ {run[w].doc} : (e \in mixed' <=> e \in mixed) /\ (e \in lost' <=> e \in lost)

(* What the run has before and after the step.                                                    *)
GoesTo(w, from, to) ==
    /\ run[w].at = from /\ run'[w].at = to
    /\ run'[w].doc = run[w].doc

LEMMA AtWorkRuns ==
  ASSUME NEW w \in Workers
  PROVE  \A e : w \in RunsFor(e) <=> run[w].at \in AtWork /\ run[w].doc = e
  BY DEF RunsFor, AtWork, OfDocument

LEMMA EmbedReadDoes ==
  ASSUME WellTyped, RunsFit, NEW w \in Workers, EmbedRead(w)
  PROVE  /\ AtItsDocument(w) /\ GoesTo(w, "embed", "embedding")
         /\ UNCHANGED <<cache, index, blind, lost>> /\ mixed \subseteq mixed'
         /\ \A o \in Workers \ {w} : o \in whole' => run[o].doc # run[w].doc
         /\ \/ /\ AsksFor(run[w].doc) = {} /\ RunsFor(run[w].doc) = {} /\ w \in whole'
               /\ \A u \in UnitsOf(run[w].doc) : run'[w].got[u] = row[u]
            \/ run[w].doc \in mixed' /\ w \notin whole'
<1> DEFINE d == run[w].doc
           due == RowsOf(d) \ marked
           alone == AsksFor(d) = {} /\ RunsFor(d) = {} /\ due = RowsOf(d)
           t == [run[w] EXCEPT !.at = "embedding", !.due = due, !.got = Only(row, due)]
<1>1. run[w] \in Runs /\ d \in Documents /\ run[w].at = "embed"
  BY DEF WellTyped, TypeOK, RunsHaveDocuments, OfDocument, EmbedRead
<1>2. /\ run' = [run EXCEPT ![w] = t]
      /\ mixed' = (IF alone THEN mixed ELSE mixed \cup {d})
      /\ whole' = (whole \ (RunsFor(d) \cup {w})) \cup IF alone THEN {w} ELSE {}
      /\ UNCHANGED <<row, req, cache, index, blind, lost>>
  BY DEF EmbedRead
<1>3. /\ run'[w].at = "embedding" /\ run'[w].doc = d /\ run'[w].got = Only(row, due)
      /\ \A o \in Workers \ {w} : run'[o] = run[o]
  BY <1>1, <1>2 DEF WellTyped, TypeOK, Runs
<1>4. \A u \in Units : run'[w].got[u] # None => Of[u] = d
  BY <1>3 DEF Only, RowsOf, UnitsOf
<1>5. alone => \A u \in UnitsOf(d) : run'[w].got[u] = row[u]
  BY <1>3 DEF Only, RowsOf, UnitsOf, Rows
<1> HIDE DEF alone, due, t
<1>6. \A o \in Workers \ {w} : o \in whole' => o \in whole /\ run[o].doc # d
  <2>1. \A o \in Workers \ {w} : o \in whole' => o \in whole /\ o \notin RunsFor(d)
    BY <1>2
  <2> QED
    BY <2>1, AtWorkRuns DEF RunsFit, AtWork
<1>7. \A o \in Workers \ {w} : run[o].doc # d => (o \in whole' <=> o \in whole)
  BY <1>2 DEF RunsFor
<1>8. alone => AsksFor(d) = {} /\ RunsFor(d) = {}
  BY DEF alone
<1>9. AtItsDocument(w)
  BY <1>1, <1>2, <1>3, <1>4, <1>6, <1>7 DEF AtItsDocument, AtWork, OfDocument, Working
<1> QED
  BY <1>1, <1>2, <1>3, <1>5, <1>6, <1>8, <1>9 DEF GoesTo

LEMMA EmbedStoreDoes ==
  ASSUME WellTyped, RunsFit, NEW w \in Workers, EmbedStore(w)
  PROVE  /\ AtItsDocument(w) /\ GoesTo(w, "embedding", "stored")
         /\ UNCHANGED <<index, blind, mixed, whole>>
         /\ \A u \in UnitsOf(run[w].doc) : cache'[u] = run[w].got[u]
         /\ w \in whole => run[w].doc \notin lost'
<1> DEFINE d == run[w].doc
           t == [run[w] EXCEPT !.at = "stored"]
<1>1. run[w] \in Runs /\ d \in Documents /\ run[w].at = "embedding"
  BY DEF WellTyped, TypeOK, RunsHaveDocuments, OfDocument, EmbedStore
<1>2. /\ run' = [run EXCEPT ![w] = t]
      /\ cache' = Replaced(cache, d, run[w].got)
      /\ lost' = (IF w \in whole THEN lost \ {d} ELSE lost)
      /\ UNCHANGED <<row, req, index, blind, mixed, whole>>
  BY DEF EmbedStore
<1>3. /\ run'[w].at = "stored" /\ run'[w].doc = d /\ run'[w].got = run[w].got
      /\ \A o \in Workers \ {w} : run'[o] = run[o]
  BY <1>1, <1>2 DEF WellTyped, TypeOK, Runs
<1> HIDE DEF t
<1>4. \A u \in Units : cache'[u] = IF Of[u] = d THEN run[w].got[u] ELSE cache[u]
  BY <1>2 DEF Replaced
<1>5. AtItsDocument(w)
  BY <1>1, <1>2, <1>3, <1>4 DEF AtItsDocument, AtWork, OfDocument, Working, RunsFit
<1> QED
  BY <1>1, <1>2, <1>3, <1>4, <1>5 DEF GoesTo, UnitsOf

LEMMA EmbedCommitDoes ==
  ASSUME WellTyped, RunsFit, NEW w \in Workers, EmbedCommit(w)
  PROVE  /\ AtItsDocument(w) /\ GoesTo(w, "stored", "index")
         /\ UNCHANGED <<cache, index, blind, lost, mixed, whole>>
<1> DEFINE t == [run[w] EXCEPT !.at = "index", !.due = {}, !.got = Nothing]
<1>1. run[w] \in Runs /\ run[w].doc \in Documents /\ run[w].at = "stored"
  BY DEF WellTyped, TypeOK, RunsHaveDocuments, OfDocument, EmbedCommit
<1>2. /\ run' = [run EXCEPT ![w] = t]
      /\ UNCHANGED <<row, req, cache, index, blind, lost, mixed, whole>>
  BY DEF EmbedCommit
<1>3. /\ run'[w].at = "index" /\ run'[w].doc = run[w].doc /\ run'[w].got = Nothing
      /\ \A o \in Workers \ {w} : run'[o] = run[o]
  BY <1>1, <1>2 DEF WellTyped, TypeOK, Runs
<1> HIDE DEF t
<1>5. AtItsDocument(w)
  BY <1>1, <1>2, <1>3 DEF AtItsDocument, AtWork, OfDocument, Nothing
<1> QED
  BY <1>1, <1>2, <1>3, <1>5 DEF GoesTo

LEMMA IndexReadDoes ==
  ASSUME WellTyped, RunsFit, NEW w \in Workers, IndexRead(w)
  PROVE  /\ AtItsDocument(w) /\ GoesTo(w, "index", "indexing")
         /\ UNCHANGED <<cache, index, blind, lost>> /\ mixed \subseteq mixed'
         /\ \/ /\ AsksFor(run[w].doc) = {} /\ RunsFor(run[w].doc) \ {w} = {}
               /\ run[w].doc \notin lost
               /\ UNCHANGED <<mixed, whole>>
               /\ \A u \in UnitsOf(run[w].doc) :
                     run'[w].got[u] = IF u \in Rows THEN cache[u] ELSE None
            \/ run[w].doc \in mixed' /\ \A o \in whole' : run[o].doc # run[w].doc
<1> DEFINE d == run[w].doc
           rows == RowsOf(d) \cap marked
           others == RunsFor(d) \ {w}
           sound == AsksFor(d) = {} /\ others = {} /\ d \notin lost /\ rows = RowsOf(d)
           t == [run[w] EXCEPT !.at = "indexing", !.got = Only(cache, rows)]
<1>1. run[w] \in Runs /\ d \in Documents /\ run[w].at = "index"
  BY DEF WellTyped, TypeOK, RunsHaveDocuments, OfDocument, IndexRead
<1>2. /\ run' = [run EXCEPT ![w] = t]
      /\ mixed' = (IF sound THEN mixed ELSE mixed \cup {d})
      /\ whole' = (IF sound THEN whole ELSE whole \ RunsFor(d))
      /\ UNCHANGED <<row, req, cache, index, blind, lost>>
  BY DEF IndexRead
<1>3. /\ run'[w].at = "indexing" /\ run'[w].doc = d /\ run'[w].got = Only(cache, rows)
      /\ \A o \in Workers \ {w} : run'[o] = run[o]
  BY <1>1, <1>2 DEF WellTyped, TypeOK, Runs
<1>4. \A u \in Units : run'[w].got[u] # None => Of[u] = d
  BY <1>3 DEF Only, RowsOf, UnitsOf
<1>5. sound => \A u \in UnitsOf(d) : run'[w].got[u] = IF u \in Rows THEN cache[u] ELSE None
  BY <1>3 DEF Only, RowsOf, UnitsOf
<1>6. sound => AsksFor(d) = {} /\ RunsFor(d) \ {w} = {} /\ d \notin lost
  OBVIOUS
<1> HIDE DEF sound, rows, t
<1>7. ~ sound => \A o \in whole' : run[o].doc # d
  <2>1. ~ sound => \A o \in whole' : o \in whole /\ o \notin RunsFor(d)
    BY <1>2
  <2> QED
    BY <2>1, AtWorkRuns DEF WellTyped, TypeOK, RunsFit, AtWork
<1>8. \A o \in Workers \ {w} : run[o].doc # d => (o \in whole' <=> o \in whole)
  BY <1>2 DEF RunsFor
<1>9. AtItsDocument(w)
  BY <1>1, <1>2, <1>3, <1>4, <1>8 DEF AtItsDocument, AtWork, OfDocument, Working
<1> QED
  BY <1>1, <1>2, <1>3, <1>5, <1>6, <1>7, <1>9 DEF GoesTo

LEMMA IndexDeleteDoes ==
  ASSUME WellTyped, RunsFit, NEW w \in Workers, IndexDelete(w)
  PROVE  /\ AtItsDocument(w) /\ GoesTo(w, "indexing", "cleared") /\ run'[w].got = run[w].got
         /\ UNCHANGED <<cache, blind, lost, mixed, whole>>
         /\ \A u \in UnitsOf(run[w].doc) : index'[u] = None
<1> DEFINE d == run[w].doc
           t == [run[w] EXCEPT !.at = "cleared"]
<1>1. run[w] \in Runs /\ d \in Documents /\ run[w].at = "indexing"
  BY DEF WellTyped, TypeOK, RunsHaveDocuments, OfDocument, IndexDelete
<1>2. /\ run' = [run EXCEPT ![w] = t]
      /\ index' = Replaced(index, d, Nothing)
      /\ UNCHANGED <<row, req, cache, blind, lost, mixed, whole>>
  BY DEF IndexDelete
<1>3. /\ run'[w].at = "cleared" /\ run'[w].doc = d /\ run'[w].got = run[w].got
      /\ \A o \in Workers \ {w} : run'[o] = run[o]
  BY <1>1, <1>2 DEF WellTyped, TypeOK, Runs
<1> HIDE DEF t
<1>4. \A u \in Units : index'[u] = IF Of[u] = d THEN None ELSE index[u]
  BY <1>2 DEF Replaced, Nothing
<1>5. AtItsDocument(w)
  BY <1>1, <1>2, <1>3, <1>4 DEF AtItsDocument, AtWork, OfDocument, Working, RunsFit
<1> QED
  BY <1>1, <1>2, <1>3, <1>4, <1>5 DEF GoesTo, UnitsOf

LEMMA AfterIs ==
  ASSUME NEW w
  PROVE  After(w).at \notin OfDocument /\ After(w).got = Nothing /\ After(w).doc = None
  BY DEF After, Resting, OfDocument

LEMMA IndexUpsertDoes ==
  ASSUME WellTyped, RunsFit, NEW w \in Workers, IndexUpsert(w)
  PROVE  /\ AtItsDocument(w) /\ run[w].at = "cleared" /\ run'[w].at \notin OfDocument
         /\ UNCHANGED <<cache, lost>> /\ whole' = whole \ {w}
         /\ \A u \in Units : index'[u] = IF run[w].got[u] # None THEN run[w].got[u] ELSE index[u]
         /\ w \notin whole => UNCHANGED <<mixed, blind>>
<1> DEFINE d == run[w].doc
           got == run[w].got
<1>1. run[w] \in Runs /\ d \in Documents /\ run[w].at = "cleared"
  BY DEF WellTyped, TypeOK, RunsHaveDocuments, OfDocument, IndexUpsert
<1>2. /\ run' = [run EXCEPT ![w] = After(w)]
      /\ index' = [u \in Units |-> IF got[u] # None THEN got[u] ELSE index[u]]
      /\ mixed' = (IF w \in whole THEN mixed \ {d} ELSE mixed)
      /\ blind' = (IF w \in whole THEN blind \ UnitsOf(d) ELSE blind)
      /\ whole' = whole \ {w}
      /\ UNCHANGED <<row, req, cache, lost>>
  BY DEF IndexUpsert
<1>3. /\ run'[w] = After(w)
      /\ \A o \in Workers \ {w} : run'[o] = run[o]
  BY <1>1, <1>2 DEF WellTyped, TypeOK
<1>4. \A u \in Units : Of[u] # d => got[u] = None
  BY DEF RunsFit
<1>5. \A u \in Units : Of[u] # d => (u \in blind' <=> u \in blind)
  BY <1>2 DEF UnitsOf
<1>6. \A u \in Units : index'[u] = IF got[u] # None THEN got[u] ELSE index[u]
  BY <1>2
<1> HIDE DEF got
<1>7. AtItsDocument(w)
  BY <1>1, <1>2, <1>3, <1>4, <1>5, <1>6, AfterIs DEF AtItsDocument, AtWork, Working, Nothing
<1> QED
  BY <1>1, <1>2, <1>3, <1>6, <1>7, AfterIs DEF got

LEMMA RunFailsDoes ==
  ASSUME WellTyped, RunsFit, NEW w \in Workers, RunFails(w)
  PROVE  /\ AtItsDocument(w) /\ run'[w].at \notin OfDocument
         /\ UNCHANGED <<cache, index, blind, lost>> /\ whole' = whole \ {w}
         /\ run[w].doc \in mixed'
<1>1. run[w] \in Runs /\ run[w].doc \in Documents
  BY DEF WellTyped, TypeOK, RunsHaveDocuments, OfDocument, RunFails
<1>2. /\ run' = [run EXCEPT ![w] = After(w)]
      /\ mixed' = mixed \cup {run[w].doc} /\ whole' = whole \ {w}
      /\ UNCHANGED <<row, req, cache, index, blind, lost>>
  BY DEF RunFails
<1>3. /\ run'[w] = After(w)
      /\ \A o \in Workers \ {w} : run'[o] = run[o]
  BY <1>1, <1>2 DEF WellTyped, TypeOK
<1>4. AtItsDocument(w)
  BY <1>1, <1>2, <1>3, AfterIs DEF AtItsDocument, AtWork, Working, Nothing
<1> QED
  BY <1>2, <1>3, <1>4, AfterIs

-----------------------------------------------------------------------------
(* The invariant is kept by the runs: at other documents by all, at its own by what it has read. *)

(* What is left to show for a step of a run, at its own document.                                *)
CacheThere(d) ==
    \A u \in Rows \ blind : (Of[u] = d /\ d \notin mixed \cup lost) => cache[u] = row[u]
IndexThere(d) ==
    \A u \in Units \ blind :
        (Of[u] = d /\ d \notin mixed /\ \A w \in RunsFor(d) : run[w].at # "cleared") => index[u] = row[u]

LEMMA RunsElsewhere ==
  ASSUME NEW w \in Workers, AtItsDocument(w), NEW e, e # run[w].doc
  PROVE  /\ RunsFor(e)' = RunsFor(e) /\ w \notin RunsFor(e)
         /\ AsksFor(e)' = AsksFor(e)
<1>1. \A o \in Workers \ {w} : run'[o] = run[o]
  BY DEF AtItsDocument
<1>2. run'[w].at \in AtWork => run'[w].doc # e
  BY DEF AtItsDocument
<1>3. w \notin RunsFor(e) /\ w \notin RunsFor(e)'
  BY <1>2 DEF RunsFor, AtWork, OfDocument
<1>4. \A o \in Workers : o \in RunsFor(e)' <=> o \in RunsFor(e)
  BY <1>1, <1>3 DEF RunsFor
<1> QED
  BY <1>3, <1>4 DEF AtItsDocument, AsksFor, RunsFor

LEMMA RunKeepsWritten ==
  ASSUME Phases, CacheWritten, IndexWritten, NEW w \in Workers, AtItsDocument(w),
         run[w].doc \in mixed' \/ AsksFor(run[w].doc) = {}
  PROVE  CacheWritten' /\ IndexWritten'
<1>1. req' = req /\ \A u : Leaving(u)' <=> Leaving(u)
  BY DEF AtItsDocument, Leaving
<1>2. ASSUME NEW r \in Requests, NEW u \in req[r].units, Of[u] \notin mixed'
      PROVE  /\ cache'[u] = cache[u] /\ index'[u] = index[u]
             /\ Of[u] \notin mixed
             /\ Of[u] \notin lost' => Of[u] \notin lost
  <2>1. u \in Units /\ Of[u] \in Documents /\ r \in AsksFor(Of[u])
    BY AskedUnits, UnitVectorsAssumption
  <2>2. Of[u] # run[w].doc
    BY <1>2, <2>1
  <2> QED
    BY <1>2, <2>1, <2>2 DEF AtItsDocument
<1>3. ASSUME NEW r \in Requests, NEW u \in req[r].units,
             req[r].op \in WithText, req[r].at \in {"written", "upserted"}, Of[u] \notin mixed' \cup lost'
      PROVE  cache'[u] = req[r].text \/ Leaving(u)'
  BY <1>1, <1>2, <1>3 DEF CacheWritten
<1>4. ASSUME NEW r \in Requests, NEW u \in req[r].units, req[r].at = "upserted", Of[u] \notin mixed'
      PROVE  index'[u] = req[r].text
  BY <1>2, <1>4 DEF IndexWritten
<1> QED
  BY <1>1, <1>3, <1>4 DEF CacheWritten, IndexWritten

LEMMA RunKeepsStores ==
  ASSUME CacheFollows, IndexFollows, NEW w \in Workers, AtItsDocument(w), NEW d, run[w].doc = d,
         CacheThere(d)', IndexThere(d)'
  PROVE  CacheFollows' /\ IndexFollows'
<1>1. /\ req' = req /\ row' = row
      /\ \A u \in Units : Of[u] # d =>
            /\ cache'[u] = cache[u] /\ index'[u] = index[u]
            /\ (u \in blind => u \in blind')
            /\ (Of[u] \in mixed => Of[u] \in mixed')
            /\ (Of[u] \in lost => Of[u] \in lost')
  BY UnitVectorsAssumption DEF AtItsDocument
<1>2. ASSUME NEW u \in Rows', u \notin blind', Of[u] \notin mixed' \cup lost', NotWritten(u)'
      PROVE  cache'[u] = row'[u]
  <2>1. u \in Units /\ u \in Rows /\ NotWritten(u)
    BY <1>1, <1>2 DEF Rows, NotWritten
  <2>2. CASE Of[u] = d
    BY <1>1, <1>2, <2>2 DEF CacheThere
  <2>3. CASE Of[u] # d
    BY <1>1, <1>2, <2>1, <2>3 DEF CacheFollows, NotWritten
  <2> QED
    BY <2>2, <2>3
<1>3. ASSUME NEW u \in Units, u \notin blind', Of[u] \notin mixed', NotIndexed(u)'
      PROVE  index'[u] = row'[u]
  <2>1. CASE Of[u] = d
    <3>1. \A o \in RunsFor(d)' : run'[o].at # "cleared"
      BY <1>3, <2>1 DEF NotIndexed
    <3> QED
      BY <1>1, <1>3, <2>1, <3>1 DEF IndexThere
  <2>2. CASE Of[u] # d
    <3>1. RunsFor(Of[u])' = RunsFor(Of[u]) /\ w \notin RunsFor(Of[u])
      BY <2>2, RunsElsewhere
    <3>2. \A o \in RunsFor(Of[u]) : run'[o] = run[o]
      BY <3>1 DEF AtItsDocument, RunsFor
    <3>3. NotIndexed(u)
      BY <1>1, <1>3, <3>1, <3>2 DEF NotIndexed
    <3> QED
      BY <1>1, <1>3, <2>2, <3>3 DEF IndexFollows, NotIndexed
  <2> QED
    BY <2>1, <2>2
<1> QED
  BY <1>2, <1>3 DEF CacheFollows, IndexFollows, NotWritten, NotIndexed

(* A run at another document keeps what it has.                                                   *)
LEMMA OthersFit ==
  ASSUME WellTyped, RunsFit, NEW w \in Workers, AtItsDocument(w),
         NEW o \in Workers \ {w}, run[o].doc # run[w].doc, Undisturbed(o)'
  PROVE  HasItAlone(o)'
<1> PICK e : e = run[o].doc
  OBVIOUS
<1>1. run'[o] = run[o] /\ (o \in whole' <=> o \in whole) /\ UNCHANGED <<row, req>>
  BY DEF AtItsDocument
<1>2. e \in Documents
  <2>1. o \in whole \/ run[o].at \in Working
    BY <1>1 DEF Undisturbed
  <2> QED
    BY <2>1 DEF RunsFit, Working, WellTyped, RunsHaveDocuments, OfDocument
<1>3. (e \in mixed' <=> e \in mixed) /\ (e \in lost' <=> e \in lost)
  BY <1>2 DEF AtItsDocument
<1>4. Undisturbed(o)
  BY <1>1, <1>3 DEF Undisturbed
<1>5. HasItAlone(o)
  BY <1>4 DEF RunsFit
<1>6. RunsFor(e)' = RunsFor(e) /\ AsksFor(e)' = AsksFor(e) /\ w \notin RunsFor(e)
  BY RunsElsewhere
<1>7. \A x \in RunsFor(e) : run'[x] = run[x] /\ (x \in whole' => x \in whole)
  BY <1>6 DEF AtItsDocument, RunsFor
<1>8. Reads(o)'
  BY <1>1, <1>5 DEF HasItAlone, Reads, AtItsDocument, UnitsOf
<1> QED
  BY <1>1, <1>3, <1>5, <1>6, <1>7, <1>8 DEF HasItAlone

LEMMA RunKeepsRuns ==
  ASSUME WellTyped, RunsFit, NEW w \in Workers, AtItsDocument(w),
         Undisturbed(w)' => HasItAlone(w)',
         \A o \in Workers \ {w} : (run[o].doc = run[w].doc /\ Undisturbed(o)') => HasItAlone(o)'
  PROVE  RunsFit'
<1>1. ASSUME NEW o \in Workers
      PROVE  /\ o \in whole' => run'[o].at \in AtWork
             /\ \A u \in Units : run'[o].got[u] # None => Of[u] = run'[o].doc
             /\ run'[o].at \notin Working => run'[o].got = Nothing
  BY DEF AtItsDocument, RunsFit, AtWork
<1>2. ASSUME NEW o \in Workers, Undisturbed(o)' PROVE HasItAlone(o)'
  BY <1>2, OthersFit
<1> QED
  BY <1>1, <1>2 DEF RunsFit, AtWork

(* Beside a run that has its document alone, others are at their start of index.                  *)
LEMMA NobodyBeside ==
  ASSUME RunsFit, NEW w \in Workers, NEW o \in Workers \ {w}, run[o].doc = run[w].doc,
         run[w].at \in AtWork \ {"index"} \/ w \in whole
  PROVE  ~ Undisturbed(o)
<1>1. run[w].at \in AtWork
  BY DEF RunsFit, AtWork
<1> QED
  BY <1>1, AtWorkRuns DEF RunsFit, HasItAlone

(* Where neither rows nor stores change and no run has cleared Milvus, they follow as before.     *)
LEMMA CacheThereStays ==
  ASSUME Phases, CacheFollows, NEW w \in Workers, AtItsDocument(w), NEW d, run[w].doc = d,
         d \in mixed' \/ (d \notin mixed /\ AsksFor(d) = {} /\ UNCHANGED <<cache, blind, lost>>)
  PROVE  CacheThere(d)'
<1> SUFFICES ASSUME NEW u \in Rows', u \notin blind', Of[u] = d, d \notin mixed' \cup lost'
             PROVE  cache'[u] = row'[u]
  BY DEF CacheThere
<1>1. row' = row /\ u \in Rows /\ u \in Units
  BY DEF AtItsDocument, Rows
<1>2. \A r \in Requests : u \notin req[r].units
  BY AskedUnits
<1> QED
  BY <1>1, <1>2 DEF CacheFollows

LEMMA IndexThereStays ==
  ASSUME Phases, IndexFollows, NEW w \in Workers, AtItsDocument(w), NEW d, run[w].doc = d,
         run[w].at # "cleared",
         d \in mixed' \/ (d \notin mixed /\ AsksFor(d) = {} /\ UNCHANGED <<index, blind>>)
  PROVE  IndexThere(d)'
<1> SUFFICES ASSUME NEW u \in Units, u \notin blind', Of[u] = d, d \notin mixed',
                    \A o \in RunsFor(d)' : run'[o].at # "cleared"
             PROVE  index'[u] = row'[u]
  BY DEF IndexThere
<1>1. row' = row
  BY DEF AtItsDocument
<1>2. \A r \in Requests : u \notin req[r].units
  BY AskedUnits
<1>3. \A o \in RunsFor(d) : run[o].at # "cleared"
  BY DEF RunsFor, AtItsDocument
<1> QED
  BY <1>1, <1>2, <1>3 DEF IndexFollows

-----------------------------------------------------------------------------
(* The steps of a run, one by one. *)

Kept == CacheWritten /\ IndexWritten /\ CacheFollows /\ IndexFollows /\ RunsFit

(* The parts of what a run leaves at its document give the whole.                                *)
LEMMA RunKeeps ==
  ASSUME Followed, NEW w \in Workers, AtItsDocument(w), NEW d, run[w].doc = d,
         d \in mixed' \/ AsksFor(d) = {},
         CacheThere(d)', IndexThere(d)',
         Undisturbed(w)' => HasItAlone(w)',
         \A o \in Workers \ {w} : (run[o].doc = d /\ Undisturbed(o)') => HasItAlone(o)'
  PROVE  Kept'
  BY RunKeepsWritten, RunKeepsStores, RunKeepsRuns DEF Followed, Kept

LEMMA AloneThen ==
  ASSUME NEW w \in Workers, NEW d, run'[w].doc = d, AsksFor(d)' = {},
         \A o \in RunsFor(d)' \ {w} : run'[o].at = "index" /\ o \notin whole',
         run'[w].at \in {"embedding", "stored"} => w \in whole',
         w \in whole' /\ run'[w].at # "embedding" => d \notin lost',
         Reads(w)'
  PROVE  HasItAlone(w)'
  BY DEF HasItAlone, AsksFor, RunsFor

LEMMA EmbedReadKeeps ==
  ASSUME Followed, NEW w \in Workers, EmbedRead(w)
  PROVE  Kept'
<1> PICK d : d = run[w].doc
  OBVIOUS
<1>1. /\ AtItsDocument(w) /\ GoesTo(w, "embed", "embedding")
      /\ UNCHANGED <<cache, index, blind, lost>> /\ mixed \subseteq mixed'
      /\ \A o \in Workers \ {w} : o \in whole' => run[o].doc # d
      /\ \/ /\ AsksFor(d) = {} /\ RunsFor(d) = {} /\ w \in whole'
            /\ \A u \in UnitsOf(d) : run'[w].got[u] = row[u]
         \/ d \in mixed' /\ w \notin whole'
  BY EmbedReadDoes DEF Followed
<1>2. CacheThere(d)' /\ IndexThere(d)'
  BY <1>1, CacheThereStays, IndexThereStays DEF Followed, GoesTo
<1>3. \A o \in Workers \ {w} : run'[o] = run[o]
  BY <1>1 DEF AtItsDocument
<1>4. ASSUME Undisturbed(w)' PROVE HasItAlone(w)'
  <2>1. AsksFor(d) = {} /\ RunsFor(d) = {} /\ w \in whole' /\ \A u \in UnitsOf(d) : run'[w].got[u] = row[u]
    BY <1>1, <1>4 DEF Undisturbed, GoesTo
  <2>2. run'[w].at = "embedding" /\ run'[w].doc = d /\ UNCHANGED <<row, req>>
    BY <1>1 DEF GoesTo, AtItsDocument
  <2>3. \A o \in Workers \ {w} : o \notin RunsFor(d)'
    BY <1>3, <2>1 DEF RunsFor
  <2>4. AsksFor(d)' = {}
    BY <2>1, <2>2 DEF AsksFor
  <2>5. Reads(w)'
    BY <2>1, <2>2 DEF Reads, UnitsOf
  <2> QED
    BY <2>1, <2>2, <2>3, <2>4, <2>5, AloneThen DEF RunsFor
<1>5. ASSUME NEW o \in Workers \ {w}, run[o].doc = d, Undisturbed(o)' PROVE FALSE
  <2>1. run[o].at \in Working /\ d \notin mixed'
    BY <1>1, <1>3, <1>5 DEF Undisturbed
  <2>2. o \in RunsFor(d)
    BY <1>5, <2>1 DEF RunsFor, Working
  <2> QED
    BY <1>1, <2>1, <2>2
<1>6. d \in mixed' \/ AsksFor(d) = {}
  BY <1>1
<1> QED
  BY <1>1, <1>2, <1>4, <1>5, <1>6, RunKeeps

(* A run that has its document alone replaces the cache by what it has read.                      *)
LEMMA EmbedStoreKeeps ==
  ASSUME Followed, NEW w \in Workers, EmbedStore(w)
  PROVE  Kept'
<1> PICK d : d = run[w].doc
  OBVIOUS
<1>1. /\ AtItsDocument(w) /\ GoesTo(w, "embedding", "stored")
      /\ UNCHANGED <<index, blind, mixed, whole>>
      /\ \A u \in UnitsOf(d) : cache'[u] = run[w].got[u]
      /\ w \in whole => d \notin lost'
  BY EmbedStoreDoes DEF Followed
<1>2. /\ run[w].at = "embedding" /\ run'[w].at = "stored" /\ run'[w].doc = d
      /\ UNCHANGED <<row, req>> /\ \A o \in Workers \ {w} : run'[o] = run[o]
  BY <1>1 DEF GoesTo, AtItsDocument
<1>3. ASSUME Undisturbed(w)
      PROVE  HasItAlone(w) /\ w \in whole /\ \A u \in UnitsOf(d) : cache'[u] = row'[u]
  BY <1>1, <1>2, <1>3 DEF Followed, RunsFit, HasItAlone, Reads
<1>4. d \notin mixed => Undisturbed(w)
  BY <1>2 DEF Undisturbed, Working
<1>5. d \in mixed' \/ AsksFor(d) = {}
  BY <1>1, <1>3, <1>4 DEF HasItAlone
<1>6. CacheThere(d)'
  <2>1. d \in mixed' \/ \A u \in UnitsOf(d) : cache'[u] = row'[u]
    BY <1>1, <1>3, <1>4
  <2> QED
    BY <2>1 DEF CacheThere, UnitsOf, Rows
<1>7. IndexThere(d)'
  BY <1>1, <1>2, <1>5, IndexThereStays DEF Followed
<1>8. ASSUME Undisturbed(w)' PROVE HasItAlone(w)'
  <2>1. Undisturbed(w)
    BY <1>1, <1>2, <1>8 DEF Undisturbed, Working
  <2>2. HasItAlone(w) /\ w \in whole /\ \A u \in UnitsOf(d) : cache'[u] = row'[u]
    BY <1>3, <2>1
  <2>3. AsksFor(d)' = {} /\ \A o \in RunsFor(d)' \ {w} : run'[o].at = "index" /\ o \notin whole
    BY <1>2, <2>2 DEF HasItAlone, AsksFor, RunsFor
  <2>4. Reads(w)'
    BY <1>1, <1>2, <2>2 DEF Reads, UnitsOf
  <2> QED
    BY <1>1, <1>2, <2>2, <2>3, <2>4, AloneThen DEF HasItAlone
<1>9. ASSUME NEW o \in Workers \ {w}, run[o].doc = d, Undisturbed(o)' PROVE FALSE
  <2>1. Undisturbed(o)
    BY <1>1, <1>2, <1>9 DEF Undisturbed
  <2> QED
    BY <1>2, <1>9, <2>1, NobodyBeside DEF Followed, AtWork, OfDocument
<1> QED
  BY <1>1, <1>5, <1>6, <1>7, <1>8, <1>9, RunKeeps

LEMMA EmbedCommitKeeps ==
  ASSUME Followed, NEW w \in Workers, EmbedCommit(w)
  PROVE  Kept'
<1> PICK d : d = run[w].doc
  OBVIOUS
<1>1. /\ AtItsDocument(w) /\ GoesTo(w, "stored", "index")
      /\ UNCHANGED <<cache, index, blind, lost, mixed, whole>>
  BY EmbedCommitDoes DEF Followed
<1>2. /\ run[w].at = "stored" /\ run'[w].at = "index" /\ run'[w].doc = d
      /\ UNCHANGED <<row, req>> /\ \A o \in Workers \ {w} : run'[o] = run[o]
  BY <1>1 DEF GoesTo, AtItsDocument
<1>3. Undisturbed(w) => HasItAlone(w)
  BY DEF Followed, RunsFit
<1>4. d \notin mixed => Undisturbed(w)
  BY <1>2 DEF Undisturbed, Working
<1>5. d \in mixed' \/ AsksFor(d) = {}
  BY <1>1, <1>3, <1>4 DEF HasItAlone
<1>6. CacheThere(d)' /\ IndexThere(d)'
  BY <1>1, <1>2, <1>5, CacheThereStays, IndexThereStays DEF Followed
<1>8. ASSUME Undisturbed(w)' PROVE HasItAlone(w)'
  <2>1. w \in whole
    BY <1>1, <1>2, <1>8 DEF Undisturbed, Working
  <2>2. HasItAlone(w)
    BY <1>3, <2>1 DEF Undisturbed
  <2>3. AsksFor(d)' = {} /\ \A o \in RunsFor(d)' \ {w} : run'[o].at = "index" /\ o \notin whole
    BY <1>2, <2>2 DEF HasItAlone, AsksFor, RunsFor
  <2>4. Reads(w)'
    BY <1>1, <1>2, <2>1, <2>2 DEF HasItAlone, Reads, UnitsOf
  <2> QED
    BY <1>1, <1>2, <2>1, <2>2, <2>3, <2>4, AloneThen DEF HasItAlone
<1>9. ASSUME NEW o \in Workers \ {w}, run[o].doc = d, Undisturbed(o)' PROVE FALSE
  <2>1. Undisturbed(o)
    BY <1>1, <1>2, <1>9 DEF Undisturbed
  <2> QED
    BY <1>2, <1>9, <2>1, NobodyBeside DEF Followed, AtWork, OfDocument
<1> QED
  BY <1>1, <1>5, <1>6, <1>8, <1>9, RunKeeps

LEMMA IndexReadKeeps ==
  ASSUME Followed, NEW w \in Workers, IndexRead(w)
  PROVE  Kept'
<1> PICK d : d = run[w].doc
  OBVIOUS
<1> DEFINE sound == /\ AsksFor(d) = {} /\ RunsFor(d) \ {w} = {}
                    /\ d \notin lost
                    /\ UNCHANGED <<mixed, whole>>
                    /\ \A u \in UnitsOf(d) : run'[w].got[u] = IF u \in Rows THEN cache[u] ELSE None
<1>1. /\ AtItsDocument(w) /\ GoesTo(w, "index", "indexing")
      /\ UNCHANGED <<cache, index, blind, lost>> /\ mixed \subseteq mixed'
      /\ sound \/ (d \in mixed' /\ \A o \in whole' : run[o].doc # d)
  BY IndexReadDoes DEF Followed
<1>2. /\ run[w].at = "index" /\ run'[w].at = "indexing" /\ run'[w].doc = d
      /\ UNCHANGED <<row, req>> /\ \A o \in Workers \ {w} : run'[o] = run[o]
  BY <1>1 DEF GoesTo, AtItsDocument
<1>5. d \in mixed' \/ (d \notin mixed /\ AsksFor(d) = {})
  BY <1>1
<1>6. CacheThere(d)' /\ IndexThere(d)'
  BY <1>1, <1>2, <1>5, CacheThereStays, IndexThereStays DEF Followed
<1>7. \A o \in Workers : Undisturbed(o)' /\ (o = w \/ run[o].doc = d) => sound
  BY <1>1, <1>2 DEF Undisturbed
<1>8. ASSUME Undisturbed(w)' PROVE HasItAlone(w)'
  <2>1. sound
    BY <1>7, <1>8
  <2>2. AsksFor(d)' = {} /\ RunsFor(d)' \ {w} = {}
    BY <1>2, <2>1 DEF AsksFor, RunsFor
  <2>3. ASSUME w \in whole, NEW u \in UnitsOf(d)
        PROVE  cache[u] = row[u]
    BY <1>2, <2>3 DEF Followed, RunsFit, Undisturbed, HasItAlone, Reads
  <2>4. ASSUME w \notin whole, NEW u \in UnitsOf(d), u \notin blind, u \in Rows
        PROVE  cache[u] = row[u]
    <3>1. d \notin mixed' /\ d \notin mixed /\ d \notin lost
      BY <1>2, <1>8, <2>1, <2>4 DEF Undisturbed
    <3>2. \A r \in Requests : u \notin req[r].units
      BY <2>1, <2>4, AskedUnits DEF Followed, UnitsOf
    <3> QED
      BY <2>4, <3>1, <3>2 DEF Followed, CacheFollows, UnitsOf
  <2>5. \A u \in UnitsOf(d) : u \notin Rows => row[u] = None
    BY DEF UnitsOf, Rows
  <2>6. Reads(w)'
    BY <1>1, <1>2, <2>1, <2>3, <2>4, <2>5 DEF Reads, UnitsOf
  <2> QED
    BY <1>1, <1>2, <2>1, <2>2, <2>6, AloneThen DEF HasItAlone
<1>9. ASSUME NEW o \in Workers \ {w}, run[o].doc = d, Undisturbed(o)' PROVE FALSE
  <2>1. sound
    BY <1>7, <1>9
  <2>2. run[o].at \in AtWork
    BY <1>2, <1>9, <2>1 DEF Undisturbed, Followed, RunsFit, AtWork, OfDocument, Working
  <2> QED
    BY <1>9, <2>1, <2>2, AtWorkRuns
<1> QED
  BY <1>1, <1>5, <1>6, <1>8, <1>9, RunKeeps

LEMMA IndexDeleteKeeps ==
  ASSUME Followed, NEW w \in Workers, IndexDelete(w)
  PROVE  Kept'
<1> PICK d : d = run[w].doc
  OBVIOUS
<1>1. /\ AtItsDocument(w) /\ GoesTo(w, "indexing", "cleared") /\ run'[w].got = run[w].got
      /\ UNCHANGED <<cache, blind, lost, mixed, whole>>
      /\ \A u \in UnitsOf(d) : index'[u] = None
  BY IndexDeleteDoes DEF Followed
<1>2. /\ run[w].at = "indexing" /\ run'[w].at = "cleared" /\ run'[w].doc = d
      /\ UNCHANGED <<row, req>> /\ \A o \in Workers \ {w} : run'[o] = run[o]
  BY <1>1 DEF GoesTo, AtItsDocument
<1>3. Undisturbed(w) => HasItAlone(w)
  BY DEF Followed, RunsFit
<1>4. d \notin mixed => Undisturbed(w)
  BY <1>2 DEF Undisturbed, Working
<1>5. d \in mixed' \/ AsksFor(d) = {}
  BY <1>1, <1>3, <1>4 DEF HasItAlone
<1>6. CacheThere(d)'
  BY <1>1, <1>2, <1>5, CacheThereStays DEF Followed
<1>7. IndexThere(d)'
  BY <1>2 DEF IndexThere, RunsFor
<1>8. ASSUME Undisturbed(w)' PROVE HasItAlone(w)'
  <2>2. Undisturbed(w) /\ HasItAlone(w)
    BY <1>1, <1>2, <1>3, <1>8 DEF Undisturbed, Working
  <2>3. AsksFor(d)' = {} /\ \A o \in RunsFor(d)' \ {w} : run'[o].at = "index" /\ o \notin whole
    BY <1>2, <2>2 DEF HasItAlone, AsksFor, RunsFor
  <2>4. Reads(w)'
    BY <1>1, <1>2, <2>2 DEF HasItAlone, Reads, UnitsOf
  <2> QED
    BY <1>1, <1>2, <2>2, <2>3, <2>4, AloneThen DEF HasItAlone
<1>9. ASSUME NEW o \in Workers \ {w}, run[o].doc = d, Undisturbed(o)' PROVE FALSE
  <2>1. Undisturbed(o)
    BY <1>1, <1>2, <1>9 DEF Undisturbed
  <2> QED
    BY <1>2, <1>9, <2>1, NobodyBeside DEF Followed, AtWork, OfDocument
<1> QED
  BY <1>1, <1>5, <1>6, <1>7, <1>8, <1>9, RunKeeps

(* The vectors a run brings are those of the rows: it puts the document in order.                *)
LEMMA IndexUpsertKeeps ==
  ASSUME Followed, NEW w \in Workers, IndexUpsert(w)
  PROVE  Kept'
<1> PICK d : d = run[w].doc
  OBVIOUS
<1>1. /\ AtItsDocument(w) /\ run[w].at = "cleared" /\ run'[w].at \notin OfDocument
      /\ UNCHANGED <<cache, lost>> /\ whole' = whole \ {w}
      /\ \A u \in Units : index'[u] = IF run[w].got[u] # None THEN run[w].got[u] ELSE index[u]
      /\ w \notin whole => UNCHANGED <<mixed, blind>>
  BY IndexUpsertDoes DEF Followed
<1>2. UNCHANGED <<row, req>> /\ \A o \in Workers \ {w} : run'[o] = run[o]
  BY <1>1 DEF AtItsDocument
<1>3. Undisturbed(w) => HasItAlone(w)
  BY DEF Followed, RunsFit
<1>4. d \notin mixed' => Undisturbed(w)
  BY <1>1 DEF Undisturbed, Working
<1>5. d \in mixed' \/ AsksFor(d) = {}
  BY <1>3, <1>4 DEF HasItAlone
<1>6. CacheThere(d)'
  <2>1. CASE w \in whole
    <3>1. \A u \in UnitsOf(d) : cache[u] = row[u]
      BY <1>1, <1>3, <2>1 DEF Undisturbed, HasItAlone, Reads
    <3> QED
      BY <1>1, <1>2, <3>1 DEF CacheThere, UnitsOf, Rows
  <2>2. CASE w \notin whole
    BY <1>1, <1>5, <2>2, CacheThereStays DEF Followed
  <2> QED
    BY <2>1, <2>2
<1>7. IndexThere(d)'
  <2> SUFFICES ASSUME NEW u \in Units, u \notin blind', Of[u] = d, d \notin mixed'
               PROVE  index'[u] = row'[u]
    BY DEF IndexThere
  <2>1. HasItAlone(w) /\ (w \in whole \/ u \notin blind)
    BY <1>1, <1>3, <1>4
  <2>2. run[w].got[u] = row[u] /\ index[u] = None
    BY <1>1, <2>1 DEF HasItAlone, Reads, UnitsOf
  <2> QED
    BY <1>1, <1>2, <2>2
<1>8. ~ Undisturbed(w)'
  BY <1>1 DEF Undisturbed, Working, OfDocument
<1>9. ASSUME NEW o \in Workers \ {w}, run[o].doc = d, Undisturbed(o)' PROVE FALSE
  <2>1. CASE w \in whole
    <3>1. o \notin whole
      BY <1>9, <2>1, NobodyBeside DEF Followed, Undisturbed
    <3>2. run[o].at \in Working
      BY <1>1, <1>2, <1>9, <3>1 DEF Undisturbed
    <3>3. o \in RunsFor(d)
      BY <1>9, <3>2 DEF RunsFor, Working
    <3> QED
      BY <1>3, <2>1, <3>2, <3>3 DEF Undisturbed, HasItAlone, Working
  <2>2. CASE w \notin whole
    <3>1. Undisturbed(o)
      BY <1>1, <1>2, <1>9, <2>2 DEF Undisturbed
    <3> QED
      BY <1>1, <1>9, <3>1, NobodyBeside DEF Followed, AtWork, OfDocument
  <2> QED
    BY <2>1, <2>2
<1> QED
  BY <1>1, <1>5, <1>6, <1>7, <1>8, <1>9, RunKeeps

LEMMA RunFailsKeeps ==
  ASSUME Followed, NEW w \in Workers, RunFails(w)
  PROVE  Kept'
<1> PICK d : d = run[w].doc
  OBVIOUS
<1>1. /\ AtItsDocument(w) /\ run'[w].at \notin OfDocument
      /\ UNCHANGED <<cache, index, blind, lost>> /\ whole' = whole \ {w}
      /\ d \in mixed'
  BY RunFailsDoes DEF Followed
<1>2. UNCHANGED <<row, req>> /\ \A o \in Workers \ {w} : run'[o] = run[o]
  BY <1>1 DEF AtItsDocument
<1>6. CacheThere(d)' /\ IndexThere(d)'
  BY <1>1 DEF CacheThere, IndexThere
<1>8. ~ Undisturbed(w)'
  BY <1>1 DEF Undisturbed, Working, OfDocument
<1>9. ASSUME NEW o \in Workers \ {w}, run[o].doc = d, Undisturbed(o)' PROVE HasItAlone(o)'
  <2>1. o \in whole /\ o \in whole'
    BY <1>1, <1>2, <1>9 DEF Undisturbed
  <2>2. HasItAlone(o)
    BY <2>1 DEF Followed, RunsFit, Undisturbed
  <2>3. AsksFor(d)' = {} /\ \A x \in RunsFor(d)' \ {o} : run'[x].at = "index" /\ x \notin whole
    BY <1>1, <1>2, <1>9, <2>2 DEF HasItAlone, AsksFor, RunsFor, OfDocument
  <2>4. Reads(o)'
    BY <1>1, <1>2, <2>1, <2>2 DEF HasItAlone, Reads, UnitsOf
  <2> QED
    BY <1>1, <1>2, <1>9, <2>1, <2>2, <2>3, <2>4, AloneThen DEF HasItAlone
<1> QED
  BY <1>1, <1>6, <1>8, <1>9, RunKeeps

-----------------------------------------------------------------------------
(* Steps that come to a document or leave the documents alone. *)

Idles(w) ==
    /\ UNCHANGED content
    /\ \A o \in Workers \ {w} : run'[o] = run[o]
    /\ run[w].at \notin AtWork /\ run'[w].at \notin Working /\ run'[w].got = Nothing

LEMMA IdlesDoes ==
  ASSUME WellTyped, RunsFit, NEW w \in Workers,
         \/ \E d \in Documents, at \in {"embed", "index"} : Retry(w, d, at)
         \/ \E t \in Tasks : Deliver(w, t)
         \/ Start(w) \/ Finish(w) \/ Stop(w)
         \/ \E d \in Documents : Check(w, d)
  PROVE  Idles(w)
<1>1. Resting.at = "none" /\ Resting.got = Nothing
  BY DEF Resting
<1>2. run[w] \in Runs /\ w \in DOMAIN run
  BY DEF WellTyped, TypeOK
<1>3. ASSUME NEW d \in Documents, NEW at \in {"embed", "index"}, Retry(w, d, at) PROVE Idles(w)
  <2>1. run'[w].at = at /\ run'[w].got = Nothing /\ \A o \in Workers \ {w} : run'[o] = run[o]
    BY <1>2, <1>3 DEF Retry, Resting, WellTyped, TypeOK
  <2> QED
    BY <1>1, <1>3, <2>1 DEF Retry, Idles, content, AtWork, OfDocument, Working
<1>4. ASSUME NEW t \in Tasks, Deliver(w, t) PROVE Idles(w)
  <2>1. \/ run' = run
        \/ run' = [run EXCEPT ![w] = [Resting EXCEPT !.at = "start", !.task = t, !.was = status[t]]]
    BY <1>4 DEF Deliver
  <2>2. run[w] = Resting
    BY <1>4 DEF Deliver
  <2>3. /\ run'[w].at \in {"none", "start"} /\ run'[w].got = Nothing
        /\ \A o \in Workers \ {w} : run'[o] = run[o]
    <3>1. CASE run' = run
      BY <1>1, <2>2, <3>1
    <3>2. CASE run' = [run EXCEPT ![w] = [Resting EXCEPT !.at = "start", !.task = t, !.was = status[t]]]
      BY <1>2, <3>2 DEF Resting, WellTyped, TypeOK
    <3> QED
      BY <2>1, <3>1, <3>2
  <2> QED
    BY <1>1, <1>4, <2>2, <2>3 DEF Deliver, Idles, AtWork, OfDocument, Working
<1>5. CASE Start(w)
  <2>1. run'[w].at = "check" /\ run'[w].got = Nothing /\ \A o \in Workers \ {w} : run'[o] = run[o]
    BY <1>2, <1>5 DEF Start, Resting, WellTyped, TypeOK
  <2> QED
    BY <1>5, <2>1 DEF Start, Idles, AtWork, OfDocument, Working
<1>6. CASE Finish(w) \/ Stop(w)
  <2>1. run' = [run EXCEPT ![w] = Resting] /\ run[w].at \in {"start", "check"} /\ UNCHANGED content
    BY <1>6 DEF Finish, Stop
  <2> QED
    BY <1>1, <1>2, <2>1 DEF Idles, AtWork, OfDocument, Working, WellTyped, TypeOK
<1>7. ASSUME NEW d \in Documents, Check(w, d) PROVE Idles(w)
  <2>1. run[w].at = "check" /\ run[w].got = Nothing /\ UNCHANGED content
    BY <1>7 DEF Check, RunsFit, Working
  <2>2. CASE run' = [run EXCEPT ![w] = Resting]
    BY <1>1, <1>2, <2>1, <2>2 DEF Idles, AtWork, OfDocument, Working, WellTyped, TypeOK
  <2>3. CASE run' = [run EXCEPT ![w].at = "embed", ![w].doc = d, ![w].left = @ \ {d}]
    <3>1. run'[w].at = "embed" /\ run'[w].got = Nothing /\ \A o \in Workers \ {w} : run'[o] = run[o]
      BY <1>2, <2>1, <2>3 DEF WellTyped, TypeOK, Runs
    <3> QED
      BY <2>1, <3>1 DEF Idles, AtWork, OfDocument, Working
  <2> QED
    BY <1>7, <2>2, <2>3 DEF Check
<1> QED
  BY <1>3, <1>4, <1>5, <1>6, <1>7

LEMMA QuietKeeps ==
  ASSUME CacheWritten, IndexWritten, CacheFollows, UNCHANGED content
  PROVE  CacheWritten' /\ IndexWritten' /\ CacheFollows'
<1>1. \A u : Leaving(u)' <=> Leaving(u)
  BY DEF Leaving, content
<1>2. Rows' = Rows
  BY DEF Rows, content
<1> QED
  BY <1>1, <1>2 DEF CacheWritten, IndexWritten, CacheFollows, content

LEMMA IdlesKeeps ==
  ASSUME Followed, NEW w \in Workers, Idles(w)
  PROVE  Kept'
<1>1. /\ UNCHANGED <<row, cache, index, req, blind, lost, mixed, whole>>
      /\ \A o \in Workers \ {w} : run'[o] = run[o]
      /\ run[w].at \notin AtWork /\ run'[w].at \notin Working /\ run'[w].got = Nothing
  BY DEF Idles, content
<1>2. CacheWritten' /\ IndexWritten' /\ CacheFollows'
  BY <1>1, QuietKeeps DEF Followed, content
<1>3. IndexFollows'
  <2> SUFFICES ASSUME NEW u \in Units, u \notin blind', Of[u] \notin mixed', NotIndexed(u)'
               PROVE  index'[u] = row'[u]
    BY DEF IndexFollows, NotIndexed
  <2>1. \A o \in RunsFor(Of[u]) : o \in RunsFor(Of[u])' /\ run'[o] = run[o]
    BY <1>1 DEF RunsFor, AtWork, OfDocument
  <2>2. NotIndexed(u)
    BY <1>1, <2>1 DEF NotIndexed
  <2> QED
    BY <1>1, <2>2 DEF Followed, IndexFollows, NotIndexed
<1>4. w \notin whole /\ ~ Undisturbed(w)'
  <2>1. w \notin whole
    BY <1>1 DEF Followed, RunsFit, AtWork
  <2> QED
    BY <1>1, <2>1 DEF Undisturbed
<1>5. ASSUME NEW o \in Workers \ {w}, Undisturbed(o)' PROVE HasItAlone(o)'
  <2> PICK d : d = run[o].doc
    OBVIOUS
  <2>1. Undisturbed(o) /\ run'[o] = run[o]
    BY <1>1, <1>5 DEF Undisturbed
  <2>2. HasItAlone(o)
    BY <2>1 DEF Followed, RunsFit
  <2>3. AsksFor(d)' = {} /\ \A x \in RunsFor(d)' \ {o} : run'[x].at = "index" /\ x \notin whole
    BY <1>1, <1>4, <2>1, <2>2 DEF HasItAlone, AsksFor, RunsFor, Working
  <2>4. Reads(o)'
    BY <1>1, <2>1, <2>2 DEF HasItAlone, Reads, UnitsOf
  <2> QED
    BY <1>1, <2>1, <2>2, <2>3, <2>4, AloneThen DEF HasItAlone
<1>6. RunsFit'
  <2>1. ASSUME NEW o \in Workers
        PROVE  /\ o \in whole' => run'[o].at \in AtWork
               /\ \A u \in Units : run'[o].got[u] # None => Of[u] = run'[o].doc
               /\ run'[o].at \notin Working => run'[o].got = Nothing
    BY <1>1, <1>4 DEF Followed, RunsFit, AtWork, Nothing
  <2>2. \A o \in Workers : Undisturbed(o)' => HasItAlone(o)'
    BY <1>4, <1>5
  <2> QED
    BY <2>1, <2>2 DEF RunsFit, AtWork
<1> QED
  BY <1>2, <1>3, <1>6 DEF Kept

LEMMA NoRunKeeps ==
  ASSUME Followed, UNCHANGED content, UNCHANGED run
  PROVE  Kept'
<1>1. CacheWritten' /\ IndexWritten' /\ CacheFollows'
  BY QuietKeeps DEF Followed
<1>2. UNCHANGED <<row, cache, index, req, blind, lost, mixed, whole, run>>
  BY DEF content
<1>3. IndexFollows'
  BY <1>2 DEF Followed, IndexFollows, RunsFor
<1>4. RunsFit'
  BY <1>2 DEF Followed, RunsFit, Undisturbed, HasItAlone, Reads, AsksFor, RunsFor
<1> QED
  BY <1>1, <1>3, <1>4 DEF Kept

LEMMA NextFollowed ==
  ASSUME Followed, [Next]_vars
  PROVE  Followed'
<1>1. WellTyped' /\ Phases' /\ HoldersApart'
  BY NextWellTyped, NextPhases, NextApart DEF Followed
<1>2. ASSUME NEW r \in Requests, AskStep(r) PROVE Kept'
  BY <1>2, AsksCacheWritten, AsksIndexWritten, AsksFollow, AsksFit DEF Followed, Kept
<1>3. ASSUME NEW w \in Workers,
             \/ EmbedRead(w) \/ EmbedStore(w) \/ EmbedCommit(w)
             \/ IndexRead(w) \/ IndexDelete(w) \/ IndexUpsert(w) \/ RunFails(w)
      PROVE  Kept'
  BY <1>3, EmbedReadKeeps, EmbedStoreKeeps, EmbedCommitKeeps, IndexReadKeeps, IndexDeleteKeeps,
     IndexUpsertKeeps, RunFailsKeeps
<1>4. ASSUME NEW w \in Workers,
             \/ \E d \in Documents, at \in {"embed", "index"} : Retry(w, d, at)
             \/ \E t \in Tasks : Deliver(w, t)
             \/ Start(w) \/ Finish(w) \/ Stop(w)
             \/ \E d \in Documents : Check(w, d)
      PROVE  Kept'
  BY <1>4, IdlesDoes, IdlesKeeps DEF Followed
<1>5. ASSUME NEW t \in Tasks, Ask(t) \/ AskCommit(t) \/ Cancel(t) \/ CancelCommit(t)
      PROVE  Kept'
  BY <1>5, NoRunKeeps DEF Ask, AskCommit, Cancel, CancelCommit
<1>6. ASSUME UNCHANGED vars PROVE Kept'
  <2>1. UNCHANGED content /\ UNCHANGED run
    BY <1>6 DEF vars, content
  <2> QED
    BY <2>1, NoRunKeeps
<1>7. ASSUME Next PROVE Kept'
  <2>1. ASSUME NEW w \in Workers, \E d \in Documents, at \in {"embed", "index"} : Retry(w, d, at)
        PROVE  Kept'
    BY <1>4, <2>1
  <2>2. ASSUME NEW w \in Workers, (\E t \in Tasks : Deliver(w, t)) \/ (\E d \in Documents : Check(w, d))
        PROVE  Kept'
    BY <1>4, <2>2
  <2>3. ASSUME NEW w \in Workers, Start(w) \/ Finish(w) \/ Stop(w)
        PROVE  Kept'
    BY <1>4, <2>3
  <2>4. ASSUME \E r \in Requests : AskStep(r)
        PROVE  Kept'
    BY <1>2, <2>4
  <2> QED
    BY <1>3, <1>5, <1>7, <2>1, <2>2, <2>3, <2>4 DEF Next, AskStep
<1> QED
  BY <1>1, <1>6, <1>7 DEF Followed, Kept

LEMMA InitFollowed == Init => Followed
<1> SUFFICES ASSUME Init PROVE Followed
  OBVIOUS
<1>1. /\ \A r \in Requests : req[r] = Free
      /\ \A w \in Workers : run[w] = Resting
      /\ cache = row /\ index = row /\ whole = {}
  BY DEF Init
<1>2. Resting.at = "none" /\ Resting.got = Nothing
  BY DEF Resting
<1>3. Phases /\ HoldersApart
  BY <1>1, FreeIs DEF Phases, HoldersApart
<1>4. CacheWritten /\ IndexWritten /\ CacheFollows /\ IndexFollows
  BY <1>1, FreeIs DEF CacheWritten, IndexWritten, CacheFollows, IndexFollows
<1>5. RunsFit
  BY <1>1, <1>2 DEF RunsFit, Undisturbed, Working, Nothing
<1> QED
  BY <1>3, <1>4, <1>5, InitWellTyped DEF Followed

LEMMA AlwaysFollowed == Spec => []Followed
  BY InitFollowed, NextFollowed, PTL DEF Spec

(* Milvus has the vector of each unit's present text, and none of a unit that is gone, once no    *)
(* request has the unit and no run its document: whatever additions, edits, deletions, runs and  *)
(* re-embeddings overlapped, but for a blind edit and a document on which runs met others.       *)
THEOREM SearchStaysWithEdits == Spec => []SearchFollowsEdits
<1>1. Followed => SearchFollowsEdits
  BY DEF Followed, IndexFollows, SearchFollowsEdits, Settled
<1> QED
  BY <1>1, AlwaysFollowed, PTL

(* And the cache, from which a later index step takes them, unless requests have overwritten each *)
(* other's cache.                                                                                *)
THEOREM CacheStaysWithEdits == Spec => []CacheFollowsEdits
<1>1. Followed => CacheFollowsEdits
  BY DEF Followed, CacheFollows, CacheFollowsEdits, Settled
<1> QED
  BY <1>1, AlwaysFollowed, PTL
=============================================================================
