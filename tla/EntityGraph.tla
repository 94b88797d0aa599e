---------------------------- MODULE EntityGraph ----------------------------
(***************************************************************************)
(* The knowledge graph of one space: the rows of its entities in           *)
(* PostgreSQL, nodes and edges in AGE (the same database) and the vectors  *)
(* of the entities in Milvus.  Documents write what they say, the worker   *)
(* merges spellings of one name, owners roll merges back                   *)
(* (core/pipeline/graph_flow.py, core/graph/merge.py, core/graph/age.py).  *)
(* Those three take the advisory lock of the space, but after they have    *)
(* loaded rows; deleting a document, rebuilding the graph and the cleaning *)
(* script (scripts/gc_entities.py) take no lock.                           *)
(***************************************************************************)
EXTENDS Naturals, FiniteSets, Sequences

CONSTANTS
    Entities,    \* entity rows, each known by its name and type (entity_key)
    Spellings,   \* the sets of entities of one type whose names have one variant_key
    Assets,      \* documents
    Facts,       \* the relations a document can state: pairs of entities
    Sessions,    \* database sessions that take the advisory lock
    None,        \* no entity, no session
    MaxChanges   \* bound: transactions that begin; the script's counts when it reads and when it updates

ASSUME NoneAssumption == None \notin Entities \cup Sessions
ASSUME FiniteAssumption == IsFiniteSet(Entities) /\ IsFiniteSet(Assets)
ASSUME FactsAssumption == Facts \subseteq {f \in Entities \X Entities : f[1] # f[2]}
ASSUME SpellingsAssumption == Spellings \subseteq SUBSET Entities
ASSUME MaxChangesAssumption == MaxChanges \in Nat

VARIABLES
    db,        \* what is committed: nodes, edges; rows that exist (known), deleted_at (gone), merged_into (into)
    log,       \* entity_merge_log, committed
    vectors,   \* the entities with a vector in Milvus
    plan,      \* what the cleaning script has read, or what it is to take away
    doomed,    \* the entities whose vectors the cleaning script is about to delete
    deleted,   \* the documents that are deleted
    lock,      \* the session that holds pg_advisory_xact_lock, or None
    seen,      \* what its latest statement saw of others ...
    work,      \* ... and that with its own changes
    tx,        \* what each session is doing
    changes,   \* transactions begun
    undo,      \* the merge that was committed last, with what was there before (not in the code)
    stale,     \* a session changed rows that others had changed since it loaded them (not in the code)
    swept,     \* the cleaning script ran across a change (not in the code)
    late,      \* deleted documents of which something was written later (not in the code)
    bare       \* entities whose vector was given up (not in the code)

vars == <<db, log, vectors, plan, doomed, deleted, lock, seen, work, tx, changes,
          undo, stale, swept, late, bare>>

(* An edge with the documents it is evidence of (asset_ids).  Edges alike in all three are one,   *)
(* unless one was created where the other was: they are two copies then, and so are more.         *)
Edges == [h : Entities, t : Entities, of : SUBSET Assets, copy : 1..2]
Twice(S) == UNION {{[edge EXCEPT !.copy = 1], [edge EXCEPT !.copy = 2]} : edge \in S}
Created(there, S) == there \cup S \cup Twice(there \cap S)
Ends(edge) == {edge.h, edge.t}
Other(edge, e) == IF edge.h = e THEN edge.t ELSE edge.h
At(g, e) == {edge \in g.edges : e \in Ends(edge)}

Databases == [nodes : SUBSET Entities, edges : SUBSET Edges, known : SUBSET Entities,
              gone : SUBSET Entities, into : [Entities -> Entities \cup {None}]]
Empty == [nodes |-> {}, edges |-> {}, known |-> {}, gone |-> {},
          into |-> [e \in Entities |-> None]]

Live(g) == {e \in g.known \ g.gone : g.into[e] = None}

Logs == [winner : Entities, loser : Entities, applied : BOOLEAN,
         mine : SUBSET Edges, theirs : SUBSET Edges]

NoPlan == [at |-> "none", used |-> {}, isolated |-> {}, stale |-> {}]

Idle == [op |-> "idle", asset |-> None, facts |-> {}, pairs |-> {}, of |-> 0,
         gone |-> FALSE, into |-> None, merges |-> <<>>]

Init ==
    /\ db = Empty /\ seen = Empty /\ work = Empty
    /\ log = <<>>
    /\ plan = NoPlan
    /\ vectors = {} /\ doomed = {} /\ deleted = {}
    /\ lock = None
    /\ tx = [s \in Sessions |-> Idle]
    /\ changes = 0
    /\ undo = [at |-> 0, before |-> Empty]
    /\ stale = FALSE /\ swept = FALSE
    /\ late = {} /\ bare = {}
----------------------------------------------------------------------------
(* READ COMMITTED: a statement sees what others have committed and its own transaction's         *)
(* changes.  An edge one of whose nodes is gone matches no pattern any more.                      *)
Rebased(theirs, from, to) == (theirs \ (from \ to)) \cup (to \ from)
Attached(g) == [g EXCEPT !.edges = {edge \in @ : Ends(edge) \subseteq g.nodes}]
Visible ==
    Attached([nodes |-> Rebased(db.nodes, seen.nodes, work.nodes),
              edges |-> Rebased(db.edges, seen.edges, work.edges),
              known |-> Rebased(db.known, seen.known, work.known),
              gone |-> Rebased(db.gone, seen.gone, work.gone),
              into |-> [e \in Entities |->
                            IF work.into[e] # seen.into[e] THEN work.into[e] ELSE db.into[e]]])

(* A session takes the lock with its first statement on the graph and keeps it to its end.       *)
Locked(s) == /\ lock \in {None, s}
             /\ lock' = s
             /\ seen' = db

(* _resolve_live_entity: the end of the chain of merges, None where the chain runs in a circle.  *)
Closed(into, S) == \A e \in S : into[e] # None => into[e] \in S
Chain(into, e) == {x \in Entities : \A S \in SUBSET Entities : (e \in S /\ Closed(into, S)) => x \in S}
Resolve(into, e) ==
    LET ends == {x \in Chain(into, e) : into[x] = None}
    IN IF ends = {} THEN None ELSE CHOOSE x \in ends : TRUE

Mentioned(facts) == UNION {{f[1], f[2]} : f \in facts}

(* _link_exact: a name goes to its row, through merges, and to a new one if it has none.         *)
Key(g, e) == LET end == Resolve(g.into, e)
             IN IF e \in g.known /\ end # None THEN end ELSE e
New(g, facts) == Mentioned(facts) \ g.known
Resolved(g, facts) ==
    {Resolve(g.into, e) : e \in Mentioned(facts) \cap g.known} \ {None}

(* write_asset_graph on the graph g: the document's old edges go, its entities and edges come,   *)
(* nodes left without edges go.                                                                  *)
Written(g, a, facts) ==
    LET old == {edge \in g.edges : a \in edge.of}
        keys == {Key(g, e) : e \in Mentioned(facts)}
        new == {[h |-> Key(g, f[1]), t |-> Key(g, f[2]), of |-> {a}, copy |-> 1] :
                    f \in {f \in facts : Key(g, f[1]) # Key(g, f[2])}}
        edges == (g.edges \ old) \cup new
        touched == UNION {Ends(edge) : edge \in old} \ keys
    IN [g EXCEPT !.edges = edges,
                 !.nodes = (@ \cup keys) \ {e \in touched : \A edge \in edges : e \notin Ends(edge)},
                 !.known = @ \cup Mentioned(facts),
                 !.gone = @ \ Resolved(g, facts)]

(* The runner has read the document before it was deleted; its facts are what chunk has left.    *)
BeginWrite(s, a) ==
    /\ tx[s] = Idle
    /\ a \notin deleted
    /\ changes < MaxChanges
    /\ changes' = changes + 1
    /\ \E facts \in SUBSET Facts : tx' = [tx EXCEPT ![s] = [Idle EXCEPT !.op = "write", !.asset = a, !.facts = facts]]
    /\ UNCHANGED <<db, log, vectors, plan, doomed, deleted, lock, seen, work, undo, stale, swept, late, bare>>

(* Entities for which _index_new_entities makes a vector: the new ones and those mentioned by     *)
(* their own name that were swept.  The variant below it forgets the latter.                      *)
FreshNewOnly(facts) == New(db, facts)
Fresh(facts) == New(db, facts) \cup {e \in Mentioned(facts) \cap db.gone : db.into[e] = None}

(* Swept entities that come back through a name merged into them: that makes no vector, and the   *)
(* own name makes none either if it comes later in the document.                                  *)
Through(facts) ==
    {e \in Resolved(db, facts) \cap db.gone :
        \E name \in (Mentioned(facts) \cap db.known) \ {e} : Resolve(db.into, name) = e}

(* _index_new_entities writes to Milvus before the commit, and may fail.                         *)
WriteGraph(s) ==
    LET facts == tx[s].facts
        fresh == Fresh(facts)
        through == Through(facts)
    IN /\ tx[s].op = "write"
       /\ Locked(s)
       /\ work' = Written(db, tx[s].asset, facts)
       /\ tx' = [tx EXCEPT ![s].op = "commit"]
       /\ \E indexed \in {{}} \cup {fresh \ before : before \in SUBSET through} :
            /\ vectors' = vectors \cup indexed
            /\ bare' = (bare \cup through \cup IF indexed = {} THEN fresh ELSE {}) \ indexed
       /\ UNCHANGED <<db, log, plan, doomed, deleted, changes, undo, stale, swept, late>>
----------------------------------------------------------------------------
(* run_space_merge loads the live entities before any lock; the oldest of each spelling wins.    *)
(* Entities of one document are equally old, and created_at is when a transaction began, so      *)
(* which one that is stays open.                                                                 *)
BeginMerge(s) ==
    /\ tx[s] = Idle
    /\ changes < MaxChanges
    /\ changes' = changes + 1
    /\ \E oldest \in [Spellings -> Entities] :
         LET pairs == UNION {{<<oldest[g], e>> : e \in (g \cap Live(db)) \ {oldest[g]}} : g \in Spellings}
         IN /\ \A g \in Spellings : oldest[g] \in g /\ (g \cap Live(db) # {} => oldest[g] \in Live(db))
            /\ pairs # {}
            /\ tx' = [tx EXCEPT ![s] = [Idle EXCEPT !.op = "merge", !.pairs = pairs]]
    /\ UNCHANGED <<db, log, vectors, plan, doomed, deleted, lock, seen, work, undo, stale, swept, late, bare>>

(* merge_pair on the edges of g: the loser's edges go over to the winner.  Edges are read in some   *)
(* order.  The winner's edges are indexed by their ends (the last one counts), the loser's are   *)
(* added to the one there; if there is none the first is created as it is, and those that follow *)
(* only update edges that exist already.  An update is made by both ends in either direction,    *)
(* the later one last, and before the new edges are created.                                     *)
Apart(g, w, l) == {edge \in At(g, w) \cup At(g, l) : Ends(edge) # {w, l}}
Orders(S) == {o \in [S -> 1..Cardinality(S)] : \A x, y \in S : o[x] = o[y] => x = y}
First(S, order) == CHOOSE x \in S : \A y \in S : order[x] <= order[y]
Last(S, order) == CHOOSE x \in S : \A y \in S : order[x] >= order[y]
Evidence(S) == UNION {edge.of : edge \in S}

(* The variant leaves the winner's edges as they are.                                             *)
MovedEdgesNotAdded(g, w, l, order) ==
    LET Moved(edge) == <<IF edge.h = l THEN w ELSE edge.h, IF edge.t = l THEN w ELSE edge.t>>
        theirs == {edge \in At(g, l) : Other(edge, l) # w}
    IN (g.edges \ At(g, l)) \cup
         {[h |-> Moved(edge)[1], t |-> Moved(edge)[2], of |-> edge.of, copy |-> 1] :
             edge \in {edge \in theirs : \A there \in At(g, w) : <<there.h, there.t>> # Moved(edge)}}
MovedEdges(g, w, l, order) ==
    LET Moved(edge) == <<IF edge.h = l THEN w ELSE edge.h, IF edge.t = l THEN w ELSE edge.t>>
        theirs == {edge \in At(g, l) : Other(edge, l) # w}
        mine == At(g, w) \ At(g, l)
        places == {Moved(edge) : edge \in theirs}
        Coming(p) == {edge \in theirs : Moved(edge) = p}
        There(p) == {edge \in mine : <<edge.h, edge.t>> = p}
        Added(p) == IF There(p) = {} THEN Coming(p) \ {First(Coming(p), order)} ELSE Coming(p)
        Total(p) == Evidence(Added(p)) \cup
                    IF There(p) = {} THEN {} ELSE Last(There(p), order).of
        Updates(edge) == {p \in places : Added(p) # {} /\ {p[1], p[2]} = Ends(edge)}
        Updated(edge) ==
            IF Updates(edge) = {} THEN edge
            ELSE LET firsts == {First(Added(p), order) : p \in Updates(edge)}
                 IN [edge EXCEPT !.of = Total(Moved(Last(firsts, order)))]
        created == {[h |-> p[1], t |-> p[2], of |-> First(Coming(p), order).of, copy |-> 1] :
                        p \in {p \in places : There(p) = {}}}
    IN (g.edges \ (mine \cup At(g, l))) \cup {Updated(edge) : edge \in mine} \cup created

(* The variant does not delete the loser's node.                                                 *)
MergedWithNode(g, w, l, order) ==
    [g EXCEPT !.edges = MovedEdges(g, w, l, order), !.gone = @ \cup {l}, !.into[l] = w]
Merged(g, w, l, order) ==
    Attached([g EXCEPT !.nodes = @ \ {l}, !.edges = MovedEdges(g, w, l, order),
                       !.gone = @ \cup {l}, !.into[l] = w])

(* merge_pair tests merged_into of the rows as they were loaded, and so never refuses.           *)
MergePair(s, pair) ==
    LET w == pair[1]
        l == pair[2]
        g == Visible
        entry == [winner |-> w, loser |-> l, applied |-> TRUE, mine |-> At(g, w), theirs |-> At(g, l)]
    IN /\ tx[s].op = "merge"
       /\ pair \in tx[s].pairs
       /\ Locked(s)
       /\ \E order \in Orders(Apart(g, w, l)) : work' = Merged(g, w, l, order)
       /\ tx' = [tx EXCEPT ![s].pairs = @ \ {pair},
                           ![s].op = IF tx[s].pairs = {pair} THEN "commit" ELSE "merge",
                           ![s].merges = Append(@, entry)]
       /\ stale' = (stale \/ ~ {w, l} \subseteq Live(g))
       /\ UNCHANGED <<db, log, vectors, plan, doomed, deleted, changes, undo, swept, late, bare>>

(* rollback_merge reads the log and both rows, and then waits for the lock.                      *)
BeginRollback(s, i) ==
    /\ tx[s] = Idle
    /\ log[i].applied
    /\ changes < MaxChanges
    /\ changes' = changes + 1
    /\ tx' = [tx EXCEPT ![s] = [Idle EXCEPT !.op = "rollback", !.of = i,
                                            !.gone = log[i].loser \in db.gone,
                                            !.into = db.into[log[i].loser]]]
    /\ UNCHANGED <<db, log, vectors, plan, doomed, deleted, lock, seen, work, undo, stale, swept, late, bare>>

(* Between which two entities the merge has touched edges: those of both snapshots, and those     *)
(* that went over to the winner.  The variant forgets the latter.                                 *)
TouchedBefore(entry) == {Ends(edge) : edge \in entry.mine \cup entry.theirs}
Touched(entry) ==
    {Ends(edge) : edge \in entry.mine \cup entry.theirs}
      \cup {{entry.winner, Other(edge, entry.loser)} :
               edge \in {edge \in entry.theirs : Other(edge, entry.loser) # entry.winner}}

(* The loser's node comes back, the edges the merge has touched go and those of both snapshots    *)
(* are created one after the other, where their nodes are; an edge between the two is in both.    *)
(* A column is written only if it differs from what was loaded.                                   *)
RolledBack(g, entry, was) ==
    LET w == entry.winner
        l == entry.loser
        touched == Touched(entry)
        kept == {edge \in g.edges : ~ (w \in Ends(edge) /\ Ends(edge) \in touched)}
    IN Attached([g EXCEPT !.nodes = @ \cup {l},
                          !.edges = Created(Created(kept, entry.mine), entry.theirs),
                          !.gone = IF was.gone THEN @ \ {l} ELSE @,
                          !.into[l] = IF was.into # None THEN None ELSE @])

RollbackGraph(s) ==
    LET entry == log[tx[s].of]
    IN /\ tx[s].op = "rollback"
       /\ Locked(s)
       /\ work' = RolledBack(db, entry, tx[s])
       /\ tx' = [tx EXCEPT ![s].op = "commit"]
       /\ stale' = (stale \/ ~ entry.applied \/ tx[s].into # entry.winner
                          \/ tx[s].into # db.into[entry.loser])
       /\ late' = late \cup (deleted \cap Evidence(entry.mine \cup entry.theirs))
       /\ UNCHANGED <<db, log, vectors, plan, doomed, deleted, changes, undo, swept, bare>>

(* The end of a transaction and, with it, of the lock.                                           *)
Unlocked == lock' = None /\ seen' = Empty /\ work' = Empty

Commit(s) ==
    LET t == tx[s]
        logged == log \o t.merges
    IN /\ t.op = "commit"
       /\ Unlocked
       /\ db' = Visible
       /\ log' = IF t.of = 0 THEN logged ELSE [logged EXCEPT ![t.of].applied = FALSE]
       /\ undo' = IF Len(t.merges) = 1 /\ seen = db THEN [at |-> Len(logged), before |-> db]
                                       ELSE [at |-> 0, before |-> Empty]
       /\ tx' = [tx EXCEPT ![s] = Idle]
       /\ UNCHANGED <<vectors, plan, doomed, deleted, changes, stale, swept, late, bare>>

(* Any error, a client that leaves, a process that dies: nothing of it stays but vectors.        *)
Rollback(s) ==
    /\ tx[s] # Idle
    /\ tx' = [tx EXCEPT ![s] = Idle]
    /\ IF lock = s THEN Unlocked ELSE UNCHANGED <<lock, seen, work>>
    /\ UNCHANGED <<db, log, vectors, plan, doomed, deleted, changes, undo, stale, swept, late, bare>>
----------------------------------------------------------------------------
(* Without the lock.  delete_asset_edges: the edges with the document among their evidence go,    *)
(* also where they are evidence of others.  The variant keeps those.                              *)
EdgesNotAlone(a) == {edge \in db.edges : edge.of # {a}}
EdgesWithout(a) == {edge \in db.edges : a \notin edge.of}

(* delete_asset_cascade: edges of the document and nodes left bare go with    *)
(* it; should AGE fail, its savepoint is rolled back and the document is deleted without.        *)
DeleteAsset(a, cleaned) ==
    LET kept == EdgesWithout(a)
        touched == UNION {Ends(edge) : edge \in db.edges \ kept}
        crossed == \/ ~ cleaned
                   \/ \E s \in Sessions : tx[s].asset = a
                   \/ a \in Evidence(work.edges \ seen.edges)
    IN /\ a \notin deleted
       /\ changes < MaxChanges
       /\ changes' = changes + 1
       /\ deleted' = deleted \cup {a}
       /\ db' = IF cleaned
                THEN [db EXCEPT !.edges = kept,
                                !.nodes = @ \ {e \in touched : \A edge \in kept : e \notin Ends(edge)}]
                ELSE db
       /\ late' = IF crossed THEN late \cup {a} ELSE late
       /\ undo' = [at |-> 0, before |-> Empty]
       /\ UNCHANGED <<log, vectors, plan, doomed, lock, seen, work, tx, stale, swept, bare>>

(* rebuild: the space's graph is cleared; its documents are then sent to the graph step, which    *)
(* is BeginWrite.                                                                                *)
ClearSpace ==
    /\ db.nodes # {}
    /\ changes < MaxChanges
    /\ changes' = changes + 1
    /\ db' = [db EXCEPT !.nodes = {}, !.edges = {}]
    /\ undo' = [at |-> 0, before |-> Empty]
    /\ UNCHANGED <<log, vectors, plan, doomed, deleted, lock, seen, work, tx, stale, swept, late, bare>>

(* gc_entities reads the nodes and edges and, in a statement of its own, the living rows.         *)
Used(g) == UNION {Ends(edge) : edge \in g.edges}
SweepGraph ==
    /\ plan = NoPlan /\ doomed = {}
    /\ changes < MaxChanges
    /\ changes' = changes + 1
    /\ plan' = [NoPlan EXCEPT !.at = "rows", !.used = Used(db), !.isolated = db.nodes \ Used(db)]
    /\ UNCHANGED <<db, log, vectors, doomed, deleted, lock, seen, work, tx, undo, stale, swept, late, bare>>

SweepRows ==
    /\ plan.at = "rows"
    /\ plan' = LET rows == Live(db) \ plan.used
               IN IF rows \cup plan.isolated = {} THEN NoPlan
                  ELSE [plan EXCEPT !.at = "update", !.used = {}, !.stale = rows]
    /\ UNCHANGED <<db, log, vectors, doomed, deleted, lock, seen, work, tx, changes, undo, stale, swept, late, bare>>

(* Then the entities without an edge go, as they were read: a node only if it has none now, a     *)
(* row only if it is not merged now.  Their vectors go after the commit.                         *)
Sweep ==
    /\ plan.at = "update"
    /\ changes < MaxChanges
    /\ changes' = changes + 1
    /\ plan' = NoPlan
    /\ doomed' = plan.isolated \cup plan.stale
    /\ db' = [db EXCEPT !.nodes = @ \ (plan.isolated \ Used(db)),
                        !.gone = @ \cup {e \in plan.stale : db.into[e] = None}]
    /\ swept' = (swept \/ lock # None \/ plan.isolated # db.nodes \ Used(db)
                        \/ plan.stale # Live(db) \ Used(db))
    /\ undo' = [at |-> 0, before |-> Empty]
    /\ UNCHANGED <<log, vectors, deleted, lock, seen, work, tx, stale, late, bare>>

SweepVectors ==
    /\ doomed # {}
    /\ doomed' = {}
    /\ vectors' = vectors \ doomed
    /\ swept' = (swept \/ doomed \cap Live(work) # {}
                      \/ ~ doomed \subseteq {e \in db.gone : db.into[e] = None})
    /\ UNCHANGED <<db, log, plan, deleted, lock, seen, work, tx, changes, undo, stale, late, bare>>

Next ==
    \/ \E s \in Sessions :
        \/ \E a \in Assets : BeginWrite(s, a)
        \/ WriteGraph(s)
        \/ BeginMerge(s)
        \/ \E pair \in tx[s].pairs : MergePair(s, pair)
        \/ \E i \in DOMAIN log : BeginRollback(s, i)
        \/ RollbackGraph(s)
        \/ Commit(s)
        \/ Rollback(s)
    \/ \E a \in Assets, cleaned \in BOOLEAN : DeleteAsset(a, cleaned)
    \/ ClearSpace
    \/ SweepGraph
    \/ SweepRows
    \/ Sweep
    \/ SweepVectors

Spec == Init /\ [][Next]_vars
----------------------------------------------------------------------------
Jobs == [op : {"idle", "write", "merge", "rollback", "commit"}, asset : Assets \cup {None},
         facts : SUBSET Facts, pairs : SUBSET (Entities \X Entities), of : Nat,
         gone : BOOLEAN, into : Entities \cup {None}, merges : Seq(Logs)]

TypeOK ==
    /\ db \in Databases /\ seen \in Databases /\ work \in Databases
    /\ log \in Seq(Logs)
    /\ plan \in [at : {"none", "rows", "update"}, used : SUBSET Entities,
                isolated : SUBSET Entities, stale : SUBSET Entities]
    /\ vectors \subseteq Entities /\ doomed \subseteq Entities /\ bare \subseteq Entities
    /\ deleted \subseteq Assets /\ late \subseteq Assets
    /\ lock \in Sessions \cup {None}
    /\ tx \in [Sessions -> Jobs]
    /\ \A s \in Sessions :
         /\ tx[s].op = "write" => tx[s].asset \in Assets
         /\ tx[s].of \in 0..Len(log)
         /\ tx[s].op = "rollback" => tx[s].of # 0
    /\ undo \in [at : 0..Len(log), before : Databases]
    /\ changes \in 0..MaxChanges
    /\ stale \in BOOLEAN /\ swept \in BOOLEAN

(* The graph shows living entities only: no node of one that is merged away or deleted, unless   *)
(* a session worked on rows it had loaded before others changed them, or the script ran across.   *)
GraphShowsTheLiving == stale \/ swept \/ db.nodes \subseteq Live(db)

(* A deleted document leaves no evidence in the graph, unless a write of it, a merge or a         *)
(* rollback was in progress, or a merge from before its deletion is rolled back.                  *)
DeletedLeaveNoEvidence == Evidence(db.edges) \cap deleted \subseteq late

(* A living entity can be found by its vector, unless indexing failed, or it was swept and came   *)
(* back through a name that is merged into it, or the script ran across a session.                *)
LivingHaveVectors == stale \/ swept \/ Live(db) \subseteq vectors \cup bare

(* Rolling back the merge that was the last change puts everything back: rows, nodes and edges,   *)
(* each edge once, except for those between the winner and the loser, which come back twice.      *)
RollbackRestores ==
    [][\A s \in Sessions :
         (/\ tx[s].op = "commit" /\ tx[s].of # 0 /\ tx[s].of = undo.at
          /\ tx'[s] = Idle /\ db' # db /\ ~ stale) =>
             /\ db'.edges = undo.before.edges \cup
                              Twice(At(undo.before, log[undo.at].winner)
                                       \cap At(undo.before, log[undo.at].loser))
             /\ Live(db') = Live(undo.before) /\ db'.into = undo.before.into
             /\ db'.nodes \ {log[undo.at].loser} \subseteq undo.before.nodes
             /\ undo.before.nodes \subseteq db'.nodes]_vars

(* A merge keeps the evidence of the loser's edges, so long as neither of the two has more than   *)
(* one edge to the entity at their other end.                                                    *)
MergeKeepsEvidence ==
    [][\A s \in Sessions : \A pair \in tx[s].pairs \ tx'[s].pairs :
         LET w == pair[1]
             l == pair[2]
             Between(g, x, y) == {edge \in g.edges : Ends(edge) = {x, y}}
         IN (tx'[s] # Idle /\ {w, l} \subseteq Visible.nodes) =>
              \A other \in Entities \ {w, l} :
                 (Cardinality(Between(Visible, l, other)) = 1 /\ Cardinality(Between(Visible, w, other)) <= 1)
                   => Evidence(Between(Visible, l, other)) \cup Evidence(Between(Visible, w, other))
                         \subseteq Evidence(Between(work', w, other))]_vars
============================================================================
