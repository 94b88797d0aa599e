-------------------------- MODULE EntityGraphProofs --------------------------
(***************************************************************************)
(* Type correctness of EntityGraph; that a deleted document leaves no      *)
(* evidence (DeletedLeaveNoEvidence), that the graph shows living entities *)
(* only (GraphShowsTheLiving) and that each of them is searchable          *)
(* (LivingHaveVectors); that a merge keeps what is known of a relation     *)
(* (MergeKeepsEvidence) and the rollback of the last merge restores the    *)
(* graph (RollbackRestores); for any number of entities, documents, facts  *)
(* and sessions.                                                           *)
(***************************************************************************)
EXTENDS EntityGraph, FiniteSetTheorems, WellFoundedInduction, SequenceTheorems, TLAPS

(* Finitely many edges, so that a set of them can be read in an order.                            *)
LEMMA EdgesAreFinite ==
  ASSUME NEW S \in SUBSET Edges
  PROVE  IsFiniteSet(S) /\ Cardinality(S) \in Nat
<1> DEFINE T == (Entities \X Entities) \X ((SUBSET Assets) \X (1..2))
           f == [edge \in Edges |-> <<<<edge.h, edge.t>>, <<edge.of, edge.copy>>>>]
<1>1. IsFiniteSet(SUBSET Assets)
  BY FiniteAssumption, FS_SUBSET
<1>2. IsFiniteSet(Entities \X Entities)
  BY FiniteAssumption, FS_Product
<1>3. IsFiniteSet(T)
  <2>1. IsFiniteSet(1..2)
    <3>1. 1 \in Int /\ 2 \in Int
      OBVIOUS
    <3> QED
      BY <3>1, FS_Interval, Zenon
  <2>2. IsFiniteSet((SUBSET Assets) \X (1..2))
    BY <1>1, <2>1, FS_Product
  <2> QED
    BY <1>2, <2>2, FS_Product
<1>4. f \in [Edges -> T]
  BY DEF Edges
<1>5. ASSUME NEW x \in Edges, NEW y \in Edges, f[x] = f[y]
      PROVE  x = y
  BY <1>5 DEF Edges
<1>6. f \in Injection(Edges, T)
  BY <1>4, <1>5 DEF Injection, IsInjective
<1>7. IsFiniteSet(Edges)
  BY <1>3, <1>6, FS_Injection
<1>8. IsFiniteSet(S)
  BY <1>7, FS_Subset
<1> QED
  BY <1>8, FS_CardinalityType

(* An edge created where there is one like it is that edge again.                                *)
Alike(x, y) == x.h = y.h /\ x.t = y.t /\ x.of = y.of

LEMMA TwiceEdges ==
  ASSUME NEW S \in SUBSET Edges
  PROVE  Twice(S) \subseteq Edges /\ \A x \in Twice(S) : \E y \in S : Alike(x, y)
<1>1. SUFFICES ASSUME NEW x \in Twice(S)
               PROVE  x \in Edges /\ \E y \in S : Alike(x, y)
  OBVIOUS
<1>2. PICK y \in S : x = [y EXCEPT !.copy = 1] \/ x = [y EXCEPT !.copy = 2]
  BY <1>1 DEF Twice
<1> QED
  BY <1>2 DEF Edges, Alike

LEMMA CreatedEdges ==
  ASSUME NEW there \in SUBSET Edges, NEW S \in SUBSET Edges
  PROVE  /\ Created(there, S) \subseteq Edges
         /\ \A x \in Created(there, S) : \E y \in there \cup S : Alike(x, y)
<1>1. \A x : Alike(x, x)
  BY DEF Alike
<1>2. /\ Twice(there \cap S) \subseteq Edges
      /\ \A x \in Twice(there \cap S) : \E y \in there \cap S : Alike(x, y)
  BY TwiceEdges
<1> QED
  BY <1>1, <1>2 DEF Created

(* A nonempty set of numbered things has a first and a last one.                                 *)
LEMMA FirstAndLast ==
  ASSUME NEW n \in Nat, NEW D, NEW order \in [D -> 1..n], NEW S \in SUBSET D, S # {}
  PROVE  First(S, order) \in S /\ Last(S, order) \in S
<1> DEFINE R == StrictSubsetOrdering(1..n)
           up == {1..order[x] : x \in S}
           down == {order[x]..n : x \in S}
<1>1. IsWellFoundedOn(R, FiniteSubsetsOf(1..n))
  BY FS_StrictSubsetOrderingWellFounded
<1>2. FiniteSubsetsOf(1..n) = SUBSET (1..n)
  <2>1. IsFiniteSet(1..n)
    BY FS_Interval
  <2> QED
    BY <2>1, FS_FiniteSubsetsOfFinite
<1>3. \A x \in S : order[x] \in 1..n
  OBVIOUS
<1>4. up \subseteq SUBSET (1..n) /\ up # {} /\ down \subseteq SUBSET (1..n) /\ down # {}
  BY <1>3
<1> HIDE DEF R
<1>5. \E x \in S : \A y \in S : <<1..order[y], 1..order[x]>> \notin R
  <2>1. up \subseteq FiniteSubsetsOf(1..n) /\ up # {}
    BY <1>2, <1>4
  <2> HIDE DEF up
  <2>2. \E X \in up : \A Y \in up : <<Y, X>> \notin R
    BY <1>1, <2>1, WFMin
  <2> QED
    BY <2>2 DEF up
<1>6. \E x \in S : \A y \in S : <<order[y]..n, order[x]..n>> \notin R
  <2>1. down \subseteq FiniteSubsetsOf(1..n) /\ down # {}
    BY <1>2, <1>4
  <2> HIDE DEF down
  <2>2. \E X \in down : \A Y \in down : <<Y, X>> \notin R
    BY <1>1, <2>1, WFMin
  <2> QED
    BY <2>2 DEF down
<1>7. ASSUME NEW i \in 1..n, NEW j \in 1..n, i < j
      PROVE  <<1..i, 1..j>> \in R /\ <<j..n, i..n>> \in R
  <2>1. j \in 1..j /\ j \notin 1..i /\ i \in i..n /\ i \notin j..n
    BY <1>7
  <2>2. 1..i \subseteq 1..j /\ j..n \subseteq i..n /\ 1..j \subseteq 1..n /\ i..n \subseteq 1..n
    BY <1>7
  <2>3. 1..i # 1..j /\ j..n # i..n
    BY <2>1
  <2> HIDE <2>1
  <2> QED
    BY <2>2, <2>3 DEF R, StrictSubsetOrdering
<1>8. \E x \in S : \A y \in S : order[x] <= order[y]
  <2>1. PICK x \in S : \A y \in S : <<1..order[y], 1..order[x]>> \notin R
    BY <1>5
  <2>2. ASSUME NEW y \in S PROVE order[x] <= order[y]
    <3>1. order[x] \in 1..n /\ order[y] \in 1..n /\ ~ (order[y] < order[x])
      BY <1>3, <1>7, <2>1
    <3> QED
      BY <3>1
  <2> QED
    BY <2>2
<1>9. \E x \in S : \A y \in S : order[x] >= order[y]
  <2>1. PICK x \in S : \A y \in S : <<order[y]..n, order[x]..n>> \notin R
    BY <1>6
  <2>2. ASSUME NEW y \in S PROVE order[x] >= order[y]
    <3>1. order[x] \in 1..n /\ order[y] \in 1..n /\ ~ (order[x] < order[y])
      BY <1>3, <1>7, <2>1
    <3> QED
      BY <3>1
  <2> QED
    BY <2>2
<1> QED
  BY <1>8, <1>9 DEF First, Last

LEMMA ResolveIsEntity ==
  ASSUME NEW into \in [Entities -> Entities \cup {None}], NEW e \in Entities
  PROVE  Resolve(into, e) \in Entities \cup {None}
  BY DEF Resolve, Chain

LEMMA KeyIsEntity ==
  ASSUME NEW g \in Databases, NEW e \in Entities
  PROVE  Key(g, e) \in Entities
  BY ResolveIsEntity DEF Key, Databases

LEMMA FactsAreOfEntities ==
  ASSUME NEW facts \in SUBSET Facts
  PROVE  /\ \A f \in facts : f[1] \in Entities /\ f[2] \in Entities
         /\ Mentioned(facts) \subseteq Entities
<1>1. \A f \in facts : f[1] \in Entities /\ f[2] \in Entities
  BY FactsAssumption
<1> QED
  BY <1>1 DEF Mentioned

(* What a document writes is typed, and evidence of that document only.                          *)
LEMMA WrittenTyped ==
  ASSUME NEW g \in Databases, NEW a \in Assets, NEW facts \in SUBSET Facts
  PROVE  /\ Written(g, a, facts) \in Databases
         /\ Evidence(Written(g, a, facts).edges) \subseteq Evidence(g.edges) \cup {a}
<1> DEFINE old == {edge \in g.edges : a \in edge.of}
           keys == {Key(g, e) : e \in Mentioned(facts)}
           new == {[h |-> Key(g, f[1]), t |-> Key(g, f[2]), of |-> {a}, copy |-> 1] :
                      f \in {f \in facts : Key(g, f[1]) # Key(g, f[2])}}
           edges == (g.edges \ old) \cup new
           touched == UNION {Ends(edge) : edge \in old} \ keys
           left == {e \in touched : \A edge \in edges : e \notin Ends(edge)}
<1>1. keys \subseteq Entities
  BY FactsAreOfEntities, KeyIsEntity
<1>2. new \subseteq Edges /\ \A edge \in new : edge.of = {a}
  <2>1. \A f \in facts : Key(g, f[1]) \in Entities /\ Key(g, f[2]) \in Entities
    BY FactsAreOfEntities, KeyIsEntity
  <2>2. \A x, y \in Entities : [h |-> x, t |-> y, of |-> {a}, copy |-> 1] \in Edges
    BY DEF Edges
  <2> QED
    BY <2>1, <2>2
<1>3. Mentioned(facts) \subseteq Entities
  BY FactsAreOfEntities
<1>4. Written(g, a, facts) =
        [g EXCEPT !.edges = edges, !.nodes = (@ \cup keys) \ left,
                  !.known = @ \cup Mentioned(facts), !.gone = @ \ Resolved(g, facts)]
  BY DEF Written
<1> HIDE DEF keys, new, left, old
<1>5. g.edges \subseteq Edges
  BY DEF Databases
<1>6. Written(g, a, facts).edges = edges
  BY <1>4 DEF Databases
<1>7. Written(g, a, facts) \in Databases
  <2>1. edges \subseteq Edges
    BY <1>2, <1>5
  <2> HIDE DEF edges
  <2> QED
    BY <1>1, <1>3, <1>4, <2>1 DEF Databases
<1>8. Evidence(edges) \subseteq Evidence(g.edges) \cup {a}
  BY <1>2 DEF Evidence
<1> QED
  BY <1>6, <1>7, <1>8

(* Edges with an end that is no node are no edges, and nothing else changes.                     *)
LEMMA AttachedTyped ==
  ASSUME NEW g \in Databases
  PROVE  Attached(g) \in Databases /\ Attached(g).edges \subseteq g.edges
  BY DEF Attached, Databases

(* A merge moves edges and their evidence about; it invents none.                                *)
LEMMA MovedEdgesTyped ==
  ASSUME NEW g \in Databases, NEW w \in Entities, NEW l \in Entities,
         NEW order \in Orders(Apart(g, w, l))
  PROVE  /\ MovedEdges(g, w, l, order) \subseteq Edges
         /\ Evidence(MovedEdges(g, w, l, order)) \subseteq Evidence(g.edges)
<1> DEFINE Moved(edge) == <<IF edge.h = l THEN w ELSE edge.h, IF edge.t = l THEN w ELSE edge.t>>
           theirs == {edge \in At(g, l) : Other(edge, l) # w}
           mine == At(g, w) \ At(g, l)
           places == {Moved(edge) : edge \in theirs}
           Coming(p) == {edge \in theirs : Moved(edge) = p}
           There(p) == {edge \in mine : <<edge.h, edge.t>> = p}
           Added(p) == IF There(p) = {} THEN Coming(p) \ {First(Coming(p), order)} ELSE Coming(p)
           Total(p) == Evidence(Added(p)) \cup
                       IF There(p) = {} THEN {} ELSE Last(There(p), order).of
           Updates(edge) == {p \in places : Added(p) # {} /\ {p[1], p[2]} = Ends(edge)}
           firsts(edge) == {First(Added(p), order) : p \in Updates(edge)}
           Updated(edge) ==
               IF Updates(edge) = {} THEN edge
               ELSE [edge EXCEPT !.of = Total(Moved(Last(firsts(edge), order)))]
           created == {[h |-> p[1], t |-> p[2], of |-> First(Coming(p), order).of, copy |-> 1] :
                           p \in {p \in places : There(p) = {}}}
           both == Apart(g, w, l)
<1>1. MovedEdges(g, w, l, order) =
        (g.edges \ (mine \cup At(g, l))) \cup {Updated(edge) : edge \in mine} \cup created
  BY DEF MovedEdges
<1>2. both \subseteq g.edges /\ g.edges \subseteq Edges /\ theirs \subseteq both /\ mine \subseteq both
  BY DEF At, Apart, Other, Ends, Databases
<1>3. \A S \in SUBSET both : S # {} => First(S, order) \in S /\ Last(S, order) \in S
  <2>1. Cardinality(both) \in Nat
    BY <1>2, EdgesAreFinite
  <2>2. order \in [both -> 1..Cardinality(both)]
    BY DEF Orders
  <2> QED
    BY <2>1, <2>2, FirstAndLast
<1>4. \A edge \in theirs : Moved(edge)[1] \in Entities /\ Moved(edge)[2] \in Entities
  BY <1>2 DEF Edges
<1> HIDE DEF Moved, theirs, mine, both
<1>5. \A p \in places : Coming(p) # {} /\ First(Coming(p), order) \in Coming(p)
  BY <1>2, <1>3
<1>6. \A p : Added(p) \subseteq Coming(p) /\ Coming(p) \subseteq theirs /\ There(p) \subseteq mine
  OBVIOUS
<1>7. \A p : There(p) # {} => Last(There(p), order) \in mine
  BY <1>2, <1>3, <1>6
<1>8. \A p : Total(p) \subseteq Evidence(g.edges)
  <2> TAKE p
  <2>1. Evidence(Added(p)) \subseteq Evidence(g.edges)
    BY <1>2, <1>6 DEF Evidence
  <2>2. There(p) # {} => Last(There(p), order).of \subseteq Evidence(g.edges)
    BY <1>2, <1>7 DEF Evidence
  <2> QED
    BY <2>1, <2>2
<1>9. Evidence(g.edges) \subseteq Assets
  BY <1>2 DEF Evidence, Edges
<1> HIDE DEF Total
<1>10. \A edge \in mine : Updated(edge) \in Edges /\ Updated(edge).of \subseteq Evidence(g.edges)
  <2> TAKE edge \in mine
  <2>1. edge \in Edges /\ edge.of \subseteq Evidence(g.edges)
    BY <1>2 DEF Evidence
  <2>2. Updated(edge) = edge \/ \E p : Updated(edge) = [edge EXCEPT !.of = Total(p)]
    OBVIOUS
  <2> QED
    BY <1>8, <1>9, <2>1, <2>2 DEF Edges
<1>11. \A edge \in created : edge \in Edges /\ edge.of \subseteq Evidence(g.edges)
  <2> TAKE edge \in created
  <2>1. PICK p \in places : edge = [h |-> p[1], t |-> p[2], of |-> First(Coming(p), order).of, copy |-> 1]
    OBVIOUS
  <2>2. First(Coming(p), order) \in g.edges
    BY <1>2, <1>5, <1>6
  <2>3. p[1] \in Entities /\ p[2] \in Entities
    BY <1>4
  <2>4. First(Coming(p), order).of \subseteq Evidence(g.edges)
    BY <2>2 DEF Evidence
  <2> DEFINE of == First(Coming(p), order).of
  <2>5. of \in SUBSET Assets
    BY <1>9, <2>4
  <2> HIDE DEF of
  <2>6. [h |-> p[1], t |-> p[2], of |-> of, copy |-> 1] \in Edges
    BY <2>3, <2>5 DEF Edges
  <2> QED
    BY <2>1, <2>4, <2>6 DEF of
<1> HIDE DEF Updated, created
<1>12. \A edge \in MovedEdges(g, w, l, order) : edge \in Edges /\ edge.of \subseteq Evidence(g.edges)
  <2> TAKE edge \in MovedEdges(g, w, l, order)
  <2>1. CASE edge \in g.edges
    BY <1>2, <2>1 DEF Evidence
  <2>2. CASE \E x \in mine : edge = Updated(x)
    BY <1>10, <2>2
  <2>3. CASE edge \in created
    BY <1>11, <2>3
  <2> QED
    BY <1>1, <2>1, <2>2, <2>3
<1> QED
  BY <1>12 DEF Evidence

LEMMA MergedTyped ==
  ASSUME NEW g \in Databases, NEW w \in Entities, NEW l \in Entities,
         NEW order \in Orders(Apart(g, w, l))
  PROVE  /\ Merged(g, w, l, order) \in Databases
         /\ Evidence(Merged(g, w, l, order).edges) \subseteq Evidence(g.edges)
<1> DEFINE moved == MovedEdges(g, w, l, order)
           n == [g EXCEPT !.nodes = @ \ {l}, !.edges = moved, !.gone = @ \cup {l}, !.into[l] = w]
<1>1. moved \subseteq Edges /\ Evidence(moved) \subseteq Evidence(g.edges)
  BY MovedEdgesTyped
<1> HIDE DEF moved
<1>2. n \in Databases /\ n.edges = moved
  BY <1>1 DEF Databases
<1>3. Merged(g, w, l, order) = Attached(n)
  BY DEF Merged, moved
<1> HIDE DEF n
<1>4. Attached(n) \in Databases /\ Attached(n).edges \subseteq moved
  BY <1>2, AttachedTyped
<1> QED
  BY <1>1, <1>3, <1>4 DEF Evidence

LEMMA RolledBackTyped ==
  ASSUME NEW g \in Databases, NEW entry \in Logs, NEW was \in Jobs
  PROVE  /\ RolledBack(g, entry, was) \in Databases
         /\ \A x \in RolledBack(g, entry, was).edges :
              \E y \in g.edges \cup entry.mine \cup entry.theirs : Alike(x, y)
         /\ Evidence(RolledBack(g, entry, was).edges)
              \subseteq Evidence(g.edges) \cup Evidence(entry.mine \cup entry.theirs)
<1> DEFINE w == entry.winner
           l == entry.loser
           kept == {edge \in g.edges : ~ (w \in Ends(edge) /\ Ends(edge) \in Touched(entry))}
           edges == Created(Created(kept, entry.mine), entry.theirs)
           n == [g EXCEPT !.nodes = @ \cup {l}, !.edges = edges,
                          !.gone = IF was.gone THEN @ \ {l} ELSE @,
                          !.into[l] = IF was.into # None THEN None ELSE @]
<1>1. l \in Entities /\ entry.mine \subseteq Edges /\ entry.theirs \subseteq Edges
  BY DEF Logs
<1>2. kept \subseteq g.edges
  OBVIOUS
<1> HIDE DEF kept, l
<1>3. /\ edges \subseteq Edges
      /\ \A x \in edges : \E y \in g.edges \cup entry.mine \cup entry.theirs : Alike(x, y)
  <2> DEFINE first == Created(kept, entry.mine)
  <2>1. kept \subseteq Edges
    BY <1>2 DEF Databases
  <2>2. first \subseteq Edges /\ \A x \in first : \E y \in kept \cup entry.mine : Alike(x, y)
    BY <1>1, <2>1, CreatedEdges
  <2> HIDE DEF first
  <2>3. /\ edges \subseteq Edges
        /\ \A x \in edges : \E y \in first \cup entry.theirs : Alike(x, y)
    BY <1>1, <2>2, CreatedEdges DEF first
  <2> QED
    BY <1>2, <2>2, <2>3 DEF Alike
<1>4. RolledBack(g, entry, was) = Attached(n)
  BY DEF RolledBack, kept, l
<1> HIDE DEF edges
<1>5. n \in Databases /\ n.edges = edges
  BY <1>1, <1>3 DEF Databases
<1> HIDE DEF n
<1>6. Attached(n) \in Databases /\ Attached(n).edges \subseteq edges
  BY <1>5, AttachedTyped
<1>7. Evidence(edges) \subseteq Evidence(g.edges) \cup Evidence(entry.mine \cup entry.theirs)
  BY <1>3 DEF Evidence, Alike
<1> QED
  BY <1>4, <1>6, <1>3, <1>7 DEF Evidence

LEMMA VisibleTyped ==
  ASSUME TypeOK
  PROVE  /\ Visible \in Databases
         /\ Evidence(Visible.edges) \subseteq Evidence(db.edges) \cup Evidence(work.edges \ seen.edges)
<1> DEFINE n == [nodes |-> Rebased(db.nodes, seen.nodes, work.nodes),
                 edges |-> Rebased(db.edges, seen.edges, work.edges),
                 known |-> Rebased(db.known, seen.known, work.known),
                 gone |-> Rebased(db.gone, seen.gone, work.gone),
                 into |-> [e \in Entities |->
                              IF work.into[e] # seen.into[e] THEN work.into[e] ELSE db.into[e]]]
<1>1. n \in Databases
  BY DEF TypeOK, Databases, Rebased
<1>2. n.edges = Rebased(db.edges, seen.edges, work.edges)
  OBVIOUS
<1>3. Visible = Attached(n)
  BY DEF Visible
<1> HIDE DEF n
<1>4. Visible \in Databases /\ Visible.edges \subseteq db.edges \cup (work.edges \ seen.edges)
  BY <1>1, <1>2, <1>3, AttachedTyped DEF Rebased
<1> QED
  BY <1>4 DEF Evidence

LEMMA EmptyTyped == Empty \in Databases /\ Empty.edges = {} /\ Idle \in Jobs
  BY DEF Empty, Databases, Idle, Jobs

(* What a session does next, with a log that has only grown.                                     *)
LEMMA JobStep ==
  ASSUME TypeOK, NEW s \in Sessions, NEW job \in Jobs, tx' = [tx EXCEPT ![s] = job],
         job.op = "write" => job.asset \in Assets,
         job.op = "rollback" => job.of # 0,
         log' \in Seq(Logs), Len(log) <= Len(log'), job.of \in 0..Len(log')
  PROVE  /\ tx' \in [Sessions -> Jobs]
         /\ \A o \in Sessions :
              /\ tx'[o].op = "write" => tx'[o].asset \in Assets
              /\ tx'[o].of \in 0..Len(log')
              /\ tx'[o].op = "rollback" => tx'[o].of # 0
<1>1. tx' \in [Sessions -> Jobs]
  BY DEF TypeOK
<1>2. ASSUME NEW o \in Sessions
      PROVE  /\ tx'[o].op = "write" => tx'[o].asset \in Assets
             /\ tx'[o].of \in 0..Len(log')
             /\ tx'[o].op = "rollback" => tx'[o].of # 0
  <2>1. CASE o = s
    BY <2>1 DEF TypeOK
  <2>2. CASE o # s
    <3>1. tx'[o] = tx[o]
      BY <2>2 DEF TypeOK
    <3>2. tx[o].of \in 0..Len(log) /\ Len(log) \in Nat /\ Len(log') \in Nat
      BY DEF TypeOK
    <3>3. tx[o].of \in 0..Len(log')
      BY <3>2
    <3> QED
      BY <3>1, <3>3 DEF TypeOK
  <2> QED
    BY <2>1, <2>2
<1> QED
  BY <1>1, <1>2

(* Beside what is committed: what a transaction has added and what is about to be written.       *)
WorkIsClean == Evidence(work.edges \ seen.edges) \cap deleted \subseteq late
WritesAreClean ==
    \A s \in Sessions : (tx[s].op = "write" /\ tx[s].asset \in deleted) => tx[s].asset \in late
Sound == TypeOK /\ DeletedLeaveNoEvidence /\ WorkIsClean /\ WritesAreClean

LEMMA InitSound == Init => Sound
<1> SUFFICES ASSUME Init PROVE Sound
  OBVIOUS
<1>1. TypeOK
  <2>1. \A o \in Sessions : tx[o] = Idle
    BY DEF Init
  <2>2. Idle.op = "idle" /\ Idle.of = 0
    BY DEF Idle
  <2>3. log \in Seq(Logs) /\ Len(log) = 0
    BY DEF Init
  <2>4. tx \in [Sessions -> Jobs]
    BY EmptyTyped DEF Init
  <2>5. undo \in [at : 0..Len(log), before : Databases]
    BY <2>3, EmptyTyped DEF Init
  <2>6. db \in Databases /\ seen \in Databases /\ work \in Databases /\ changes \in 0..MaxChanges
    BY EmptyTyped, MaxChangesAssumption DEF Init
  <2> QED
    BY <2>1, <2>2, <2>3, <2>4, <2>5, <2>6 DEF Init, TypeOK, NoPlan
<1>2. DeletedLeaveNoEvidence /\ WorkIsClean /\ WritesAreClean
  BY DEF Init, DeletedLeaveNoEvidence, WorkIsClean, WritesAreClean
<1> QED
  BY <1>1, <1>2 DEF Sound

LEMMA BeginWriteSound ==
  ASSUME Sound, NEW s \in Sessions, NEW a \in Assets, BeginWrite(s, a)
  PROVE  Sound'
<1> USE DEF Sound
<1>1. PICK facts \in SUBSET Facts :
         tx' = [tx EXCEPT ![s] = [Idle EXCEPT !.op = "write", !.asset = a, !.facts = facts]]
  BY DEF BeginWrite
<1> DEFINE job == [Idle EXCEPT !.op = "write", !.asset = a, !.facts = facts]
<1>2. job \in Jobs /\ job.op = "write" /\ job.asset = a /\ job.of = 0
  BY EmptyTyped DEF Jobs, Idle
<1>3. tx' = [tx EXCEPT ![s] = job]
  BY <1>1
<1> HIDE DEF job
<1>4. UNCHANGED <<db, log, vectors, plan, doomed, deleted, lock, seen, work, undo, stale, swept, late, bare>>
      /\ a \notin deleted /\ changes' \in 0..MaxChanges
  BY MaxChangesAssumption DEF BeginWrite, TypeOK
<1>5. log' \in Seq(Logs) /\ Len(log) <= Len(log') /\ job.of \in 0..Len(log')
  BY <1>2, <1>4 DEF TypeOK
<1>6. TypeOK'
  BY <1>2, <1>3, <1>4, <1>5, JobStep DEF TypeOK
<1>7. WritesAreClean'
  BY <1>2, <1>3, <1>4 DEF WritesAreClean, TypeOK
<1> QED
  BY <1>4, <1>6, <1>7 DEF DeletedLeaveNoEvidence, WorkIsClean

LEMMA WriteGraphSound ==
  ASSUME Sound, NEW s \in Sessions, WriteGraph(s)
  PROVE  Sound'
<1> USE DEF Sound
<1> DEFINE job == [tx[s] EXCEPT !.op = "commit"]
           a == tx[s].asset
<1>1. tx[s] \in Jobs /\ a \in Assets /\ tx[s].facts \in SUBSET Facts
  BY DEF WriteGraph, TypeOK, Jobs
<1>2. job \in Jobs /\ job.op = "commit" /\ job.of = tx[s].of
  BY <1>1 DEF Jobs
<1>3. tx' = [tx EXCEPT ![s] = job]
  BY DEF WriteGraph
<1> HIDE DEF job
<1>4. UNCHANGED <<db, log, plan, doomed, deleted, changes, undo, stale, swept, late>>
      /\ seen' = db /\ lock' = s /\ work' = Written(db, a, tx[s].facts)
  BY DEF WriteGraph, Locked
<1>5. log' \in Seq(Logs) /\ Len(log) <= Len(log') /\ job.of \in 0..Len(log')
  BY <1>2, <1>4 DEF TypeOK
<1>6. db \in Databases
  BY DEF TypeOK
<1>7. work' \in Databases /\ Evidence(work'.edges) \subseteq Evidence(db.edges) \cup {a}
  BY <1>1, <1>4, <1>6, WrittenTyped
<1>8. vectors' \subseteq Entities /\ bare' \subseteq Entities
  <2> DEFINE facts == tx[s].facts
  <2>1. Mentioned(facts) \subseteq Entities
    BY <1>1, FactsAreOfEntities
  <2>2. Fresh(facts) \subseteq Entities /\ Through(facts) \subseteq Entities
    BY <2>1, <1>6 DEF Fresh, New, Through, Databases
  <2>3. PICK indexed \in {{}} \cup {Fresh(facts) \ before : before \in SUBSET Through(facts)} :
           /\ vectors' = vectors \cup indexed
           /\ bare' = (bare \cup Through(facts) \cup IF indexed = {} THEN Fresh(facts) ELSE {}) \ indexed
    BY DEF WriteGraph
  <2>4. indexed \subseteq Entities
    BY <2>2
  <2> QED
    BY <2>2, <2>3, <2>4 DEF TypeOK
<1>9. TypeOK'
  BY <1>2, <1>3, <1>4, <1>5, <1>7, <1>8, JobStep DEF TypeOK
<1>10. WritesAreClean'
  BY <1>2, <1>3, <1>4 DEF WritesAreClean, TypeOK
<1>11. a \in deleted => a \in late
  BY DEF WriteGraph, WritesAreClean
<1>12. WorkIsClean'
  <2>1. Evidence(work'.edges \ seen'.edges) \subseteq Evidence(work'.edges)
    BY DEF Evidence
  <2> QED
    BY <1>4, <1>7, <1>11, <2>1 DEF WorkIsClean, DeletedLeaveNoEvidence
<1> QED
  BY <1>4, <1>9, <1>10, <1>12 DEF DeletedLeaveNoEvidence

LEMMA BeginMergeSound ==
  ASSUME Sound, NEW s \in Sessions, BeginMerge(s)
  PROVE  Sound'
<1> USE DEF Sound
<1>1. PICK oldest \in [Spellings -> Entities] :
         LET pairs == UNION {{<<oldest[g], e>> : e \in (g \cap Live(db)) \ {oldest[g]}} : g \in Spellings}
         IN tx' = [tx EXCEPT ![s] = [Idle EXCEPT !.op = "merge", !.pairs = pairs]]
  BY DEF BeginMerge
<1> DEFINE pairs == UNION {{<<oldest[g], e>> : e \in (g \cap Live(db)) \ {oldest[g]}} : g \in Spellings}
           job == [Idle EXCEPT !.op = "merge", !.pairs = pairs]
<1>2. pairs \subseteq Entities \X Entities
  <2> SUFFICES ASSUME NEW g \in Spellings, NEW e \in (g \cap Live(db)) \ {oldest[g]}
               PROVE  <<oldest[g], e>> \in Entities \X Entities
    OBVIOUS
  <2> QED
    BY SpellingsAssumption
<1>3. tx' = [tx EXCEPT ![s] = job]
  BY <1>1
<1> HIDE DEF pairs
<1>4. job \in Jobs /\ job.op = "merge" /\ job.of = 0
  BY <1>2, EmptyTyped DEF Jobs, Idle
<1> HIDE DEF job
<1>5. UNCHANGED <<db, log, vectors, plan, doomed, deleted, lock, seen, work, undo, stale, swept, late, bare>>
      /\ changes' \in 0..MaxChanges
  BY MaxChangesAssumption DEF BeginMerge, TypeOK
<1>6. log' \in Seq(Logs) /\ Len(log) <= Len(log') /\ job.of \in 0..Len(log')
  BY <1>4, <1>5 DEF TypeOK
<1>7. TypeOK'
  BY <1>3, <1>4, <1>5, <1>6, JobStep DEF TypeOK
<1>8. WritesAreClean'
  BY <1>3, <1>4, <1>5 DEF WritesAreClean, TypeOK
<1> QED
  BY <1>5, <1>7, <1>8 DEF DeletedLeaveNoEvidence, WorkIsClean

LEMMA MergePairSound ==
  ASSUME Sound, NEW s \in Sessions, NEW pair \in tx[s].pairs, MergePair(s, pair)
  PROVE  Sound'
<1> USE DEF Sound
<1> DEFINE w == pair[1]
           l == pair[2]
           g == Visible
           entry == [winner |-> w, loser |-> l, applied |-> TRUE, mine |-> At(g, w), theirs |-> At(g, l)]
           job == [tx[s] EXCEPT !.pairs = @ \ {pair},
                                !.op = IF tx[s].pairs = {pair} THEN "commit" ELSE "merge",
                                !.merges = Append(@, entry)]
<1>1. tx[s] \in Jobs /\ w \in Entities /\ l \in Entities
  BY DEF TypeOK, Jobs
<1>2. g \in Databases /\ Evidence(g.edges) \subseteq Evidence(db.edges) \cup Evidence(work.edges \ seen.edges)
  BY VisibleTyped
<1>3. PICK order \in Orders(Apart(g, w, l)) : work' = Merged(g, w, l, order)
  BY DEF MergePair
<1>4. tx' = [tx EXCEPT ![s] = job]
  BY DEF MergePair
<1>5. UNCHANGED <<db, log, vectors, plan, doomed, deleted, changes, undo, swept, late, bare>>
      /\ seen' = db /\ lock' = s /\ stale' \in BOOLEAN
  BY DEF MergePair, Locked, TypeOK
<1> HIDE DEF g, w, l
<1>6. entry \in Logs
  <2>1. At(g, w) \subseteq Edges /\ At(g, l) \subseteq Edges
    BY <1>2 DEF At, Databases
  <2> QED
    BY <1>1, <2>1 DEF Logs
<1> HIDE DEF entry
<1>7. Append(tx[s].merges, entry) \in Seq(Logs)
  BY <1>1, <1>6 DEF Jobs
<1>8. job \in Jobs /\ job.op \in {"commit", "merge"} /\ job.of = tx[s].of
  BY <1>1, <1>7 DEF Jobs
<1> HIDE DEF job
<1>9. log' \in Seq(Logs) /\ Len(log) <= Len(log') /\ job.of \in 0..Len(log')
  BY <1>5, <1>8 DEF TypeOK
<1>10. work' \in Databases /\ Evidence(work'.edges) \subseteq Evidence(g.edges)
  BY <1>1, <1>2, <1>3, MergedTyped
<1>11. TypeOK'
  BY <1>4, <1>5, <1>8, <1>9, <1>10, JobStep DEF TypeOK
<1>12. WritesAreClean'
  BY <1>4, <1>5, <1>8 DEF WritesAreClean, TypeOK
<1>13. WorkIsClean'
  <2>1. Evidence(work'.edges \ seen'.edges) \subseteq Evidence(work'.edges)
    BY DEF Evidence
  <2> QED
    BY <1>2, <1>5, <1>10, <2>1 DEF WorkIsClean, DeletedLeaveNoEvidence
<1> QED
  BY <1>5, <1>11, <1>12, <1>13 DEF DeletedLeaveNoEvidence

LEMMA RollbackJob ==
  ASSUME NEW i \in Nat, NEW was \in BOOLEAN, NEW into \in Entities \cup {None}, NEW job,
         job = [Idle EXCEPT !.op = "rollback", !.of = i, !.gone = was, !.into = into]
  PROVE  job \in Jobs /\ job.op = "rollback" /\ job.of = i
  BY EmptyTyped DEF Jobs, Idle

LEMMA BeginRollbackSound ==
  ASSUME Sound, NEW s \in Sessions, NEW i \in DOMAIN log, BeginRollback(s, i)
  PROVE  Sound'
<1> USE DEF Sound
<1> DEFINE was == log[i].loser \in db.gone
           into == db.into[log[i].loser]
           job == [Idle EXCEPT !.op = "rollback", !.of = i, !.gone = was, !.into = into]
<1>1. i \in 1..Len(log) /\ log[i] \in Logs /\ Len(log) \in Nat /\ db \in Databases
  BY DEF TypeOK
<1>2. log[i].loser \in Entities
  BY <1>1 DEF Logs
<1>3. into \in Entities \cup {None}
  BY <1>1, <1>2 DEF Databases
<1>4. tx' = [tx EXCEPT ![s] = job]
  BY DEF BeginRollback
<1>5. job \in Jobs /\ job.op = "rollback" /\ job.of = i
  <2>1. was \in BOOLEAN
    OBVIOUS
  <2>2. i \in Nat
    BY <1>1
  <2> HIDE DEF was, into
  <2>3. \A x \in Entities \cup {None} :
           LET j == [Idle EXCEPT !.op = "rollback", !.of = i, !.gone = was, !.into = x]
           IN j \in Jobs /\ j.op = "rollback" /\ j.of = i
    BY <2>1, <2>2, RollbackJob
  <2> QED
    BY <1>3, <2>3
<1> HIDE DEF job
<1>6. UNCHANGED <<db, log, vectors, plan, doomed, deleted, lock, seen, work, undo, stale, swept, late, bare>>
      /\ changes' \in 0..MaxChanges
  BY MaxChangesAssumption DEF BeginRollback, TypeOK
<1>7. log' \in Seq(Logs) /\ Len(log) <= Len(log') /\ job.of \in 0..Len(log') /\ job.of # 0
  BY <1>1, <1>5, <1>6 DEF TypeOK
<1>8. TypeOK'
  BY <1>4, <1>5, <1>6, <1>7, JobStep DEF TypeOK
<1>9. WritesAreClean'
  BY <1>4, <1>5, <1>6 DEF WritesAreClean, TypeOK
<1> QED
  BY <1>6, <1>8, <1>9 DEF DeletedLeaveNoEvidence, WorkIsClean

LEMMA RollbackGraphSound ==
  ASSUME Sound, NEW s \in Sessions, RollbackGraph(s)
  PROVE  Sound'
<1> USE DEF Sound
<1> DEFINE entry == log[tx[s].of]
           job == [tx[s] EXCEPT !.op = "commit"]
<1>1. tx[s] \in Jobs /\ db \in Databases /\ tx[s].of \in 1..Len(log)
  BY DEF RollbackGraph, TypeOK
<1>2. entry \in Logs
  BY <1>1 DEF TypeOK
<1>3. work' = RolledBack(db, entry, tx[s]) /\ tx' = [tx EXCEPT ![s] = job]
      /\ late' = late \cup (deleted \cap Evidence(entry.mine \cup entry.theirs))
      /\ UNCHANGED <<db, log, vectors, plan, doomed, deleted, changes, undo, swept, bare>>
      /\ seen' = db /\ lock' = s
  BY DEF RollbackGraph, Locked
<1>4. stale' \in BOOLEAN
  BY DEF RollbackGraph, TypeOK
<1>5. job \in Jobs /\ job.op = "commit" /\ job.of = tx[s].of
  BY <1>1 DEF Jobs
<1> HIDE DEF job, entry
<1>6. work' \in Databases
      /\ Evidence(work'.edges) \subseteq Evidence(db.edges) \cup Evidence(entry.mine \cup entry.theirs)
  BY <1>1, <1>2, <1>3, RolledBackTyped
<1>7. log' \in Seq(Logs) /\ Len(log) <= Len(log') /\ job.of \in 0..Len(log')
  BY <1>3, <1>5 DEF TypeOK
<1>8. late' \subseteq Assets /\ late \subseteq late'
  BY <1>3 DEF TypeOK
<1>9. TypeOK'
  BY <1>3, <1>4, <1>5, <1>6, <1>7, <1>8, JobStep DEF TypeOK
<1>10. WritesAreClean'
  BY <1>3, <1>5, <1>8 DEF WritesAreClean, TypeOK
<1>11. WorkIsClean'
  <2>1. Evidence(work'.edges \ seen'.edges) \subseteq Evidence(work'.edges)
    BY DEF Evidence
  <2> QED
    BY <1>3, <1>6, <2>1 DEF WorkIsClean, DeletedLeaveNoEvidence
<1>12. DeletedLeaveNoEvidence'
  BY <1>3, <1>8 DEF DeletedLeaveNoEvidence
<1> QED
  BY <1>9, <1>10, <1>11, <1>12

(* Between transactions nothing is about to be committed.                                        *)
LEMMA UnlockedIsClean ==
  ASSUME Unlocked
  PROVE  /\ WorkIsClean' /\ lock' \in Sessions \cup {None}
         /\ seen' \in Databases /\ work' \in Databases
<1>1. work'.edges \ seen'.edges = {}
  BY EmptyTyped DEF Unlocked
<1>2. WorkIsClean'
  BY <1>1 DEF WorkIsClean, Evidence
<1> QED
  BY <1>2, EmptyTyped DEF Unlocked

LEMMA CommitSound ==
  ASSUME Sound, NEW s \in Sessions, Commit(s)
  PROVE  Sound'
<1> USE DEF Sound
<1> DEFINE of == tx[s].of
           logged == log \o tx[s].merges
<1>1. tx[s] \in Jobs /\ log \in Seq(Logs) /\ tx[s].merges \in Seq(Logs) /\ of \in 0..Len(log)
  BY DEF TypeOK, Jobs
<1>2. logged \in Seq(Logs) /\ Len(logged) = Len(log) + Len(tx[s].merges)
  BY <1>1, ConcatProperties
<1>3. Len(log) \in Nat /\ Len(tx[s].merges) \in Nat /\ Len(logged) \in Nat /\ Len(log) <= Len(logged)
  BY <1>1, <1>2
<1>4. /\ db' = Visible
      /\ log' = (IF of = 0 THEN logged ELSE [logged EXCEPT ![of].applied = FALSE])
      /\ undo' = (IF Len(tx[s].merges) = 1 /\ seen = db THEN [at |-> Len(logged), before |-> db]
                  ELSE [at |-> 0, before |-> Empty])
      /\ tx' = [tx EXCEPT ![s] = Idle]
      /\ UNCHANGED <<vectors, plan, doomed, deleted, changes, stale, swept, late, bare>>
  BY DEF Commit
<1> HIDE DEF logged
<1>5. log' \in Seq(Logs) /\ Len(log') = Len(logged)
  <2>1. CASE of = 0
    BY <1>2, <1>4, <2>1
  <2>2. CASE of # 0
    <3>1. of \in 1..Len(logged)
      BY <1>1, <1>3, <2>2
    <3>2. [logged[of] EXCEPT !.applied = FALSE] \in Logs
      <4>1. logged[of] \in Logs
        BY <1>2, <3>1
      <4> QED
        BY <4>1 DEF Logs
    <3>3. log' = [logged EXCEPT ![of] = [logged[of] EXCEPT !.applied = FALSE]]
      BY <1>4, <2>2
    <3> QED
      BY <1>2, <3>1, <3>2, <3>3, ExceptSeq
  <2> QED
    BY <2>1, <2>2
<1>6. undo' \in [at : 0..Len(log'), before : Databases]
  BY <1>3, <1>4, <1>5, EmptyTyped DEF TypeOK
<1>7. Visible \in Databases
      /\ Evidence(Visible.edges) \subseteq Evidence(db.edges) \cup Evidence(work.edges \ seen.edges)
  BY VisibleTyped
<1>8. WorkIsClean' /\ lock' \in Sessions \cup {None} /\ seen' \in Databases /\ work' \in Databases
  BY UnlockedIsClean DEF Commit
<1>9. Idle \in Jobs /\ Idle.op = "idle" /\ Idle.of = 0
  BY EmptyTyped DEF Idle
<1>10. Idle.of \in 0..Len(log') /\ Len(log) <= Len(log')
  BY <1>3, <1>5, <1>9
<1>11. TypeOK'
  BY <1>4, <1>5, <1>6, <1>7, <1>8, <1>9, <1>10, JobStep DEF TypeOK
<1>12. WritesAreClean'
  BY <1>4, <1>9 DEF WritesAreClean, TypeOK
<1>13. DeletedLeaveNoEvidence'
  BY <1>4, <1>7 DEF DeletedLeaveNoEvidence, WorkIsClean
<1> QED
  BY <1>8, <1>11, <1>12, <1>13

LEMMA RollbackSound ==
  ASSUME Sound, NEW s \in Sessions, Rollback(s)
  PROVE  Sound'
<1> USE DEF Sound
<1>1. UNCHANGED <<db, log, vectors, plan, doomed, deleted, changes, undo, stale, swept, late, bare>>
      /\ tx' = [tx EXCEPT ![s] = Idle]
  BY DEF Rollback
<1>2. WorkIsClean' /\ lock' \in Sessions \cup {None} /\ seen' \in Databases /\ work' \in Databases
  <2>1. CASE lock = s
    BY <2>1, UnlockedIsClean DEF Rollback
  <2>2. CASE lock # s
    BY <1>1, <2>2 DEF Rollback, WorkIsClean, TypeOK
  <2> QED
    BY <2>1, <2>2
<1>3. Idle \in Jobs /\ Idle.op = "idle" /\ Idle.of = 0
  BY EmptyTyped DEF Idle
<1>4. log' \in Seq(Logs) /\ Idle.of \in 0..Len(log') /\ Len(log) <= Len(log')
  BY <1>1, <1>3 DEF TypeOK
<1>5. TypeOK'
  BY <1>1, <1>2, <1>3, <1>4, JobStep DEF TypeOK
<1>6. WritesAreClean'
  BY <1>1, <1>3 DEF WritesAreClean, TypeOK
<1> QED
  BY <1>1, <1>2, <1>5, <1>6 DEF DeletedLeaveNoEvidence

(* Either the deletion removes all evidence of the document, and no session is about to add any,  *)
(* or the document is counted among the late ones.                                               *)
LEMMA DeleteAssetSound ==
  ASSUME Sound, NEW a \in Assets, NEW cleaned \in BOOLEAN, DeleteAsset(a, cleaned)
  PROVE  Sound'
<1> USE DEF Sound
<1> DEFINE kept == EdgesWithout(a)
           touched == UNION {Ends(edge) : edge \in db.edges \ kept}
           bared == {e \in touched : \A edge \in kept : e \notin Ends(edge)}
           crossed == \/ ~ cleaned
                      \/ \E s \in Sessions : tx[s].asset = a
                      \/ a \in Evidence(work.edges \ seen.edges)
<1>1. /\ deleted' = deleted \cup {a}
      /\ db' = IF cleaned THEN [db EXCEPT !.edges = kept, !.nodes = @ \ bared] ELSE db
      /\ late' = IF crossed THEN late \cup {a} ELSE late
      /\ undo' = [at |-> 0, before |-> Empty]
      /\ UNCHANGED <<log, vectors, plan, doomed, lock, seen, work, tx, stale, swept, bare>>
  BY DEF DeleteAsset
<1>2. changes' \in 0..MaxChanges
  BY MaxChangesAssumption DEF DeleteAsset, TypeOK
<1>3. kept \subseteq db.edges /\ a \notin Evidence(kept)
  BY DEF EdgesWithout, Evidence
<1> HIDE DEF kept, bared
<1>4. db \in Databases
  BY DEF TypeOK
<1>5. db' \in Databases /\ (cleaned => db'.edges = kept) /\ (~ cleaned => db'.edges = db.edges)
  BY <1>1, <1>3, <1>4 DEF Databases
<1>6. undo' \in [at : 0..Len(log'), before : Databases]
  BY <1>1, EmptyTyped DEF TypeOK
<1>7. TypeOK'
  BY <1>1, <1>2, <1>5, <1>6 DEF TypeOK
<1>8. late \subseteq late' /\ (crossed => a \in late')
  BY <1>1
<1>9. WritesAreClean'
  BY <1>1, <1>8 DEF WritesAreClean
<1>10. WorkIsClean'
  BY <1>1, <1>8 DEF WorkIsClean
<1>11. DeletedLeaveNoEvidence'
  <2>1. Evidence(db'.edges) \subseteq Evidence(db.edges)
    BY <1>3, <1>5 DEF Evidence
  <2>2. a \in Evidence(db'.edges) => a \in late'
    BY <1>3, <1>5, <1>8
  <2> QED
    BY <1>1, <1>8, <2>1, <2>2 DEF DeletedLeaveNoEvidence
<1> QED
  BY <1>7, <1>9, <1>10, <1>11

LEMMA ClearSpaceSound ==
  ASSUME Sound, ClearSpace
  PROVE  Sound'
<1> USE DEF Sound
<1>1. db' = [db EXCEPT !.nodes = {}, !.edges = {}] /\ undo' = [at |-> 0, before |-> Empty]
      /\ UNCHANGED <<log, vectors, plan, doomed, deleted, lock, seen, work, tx, stale, swept, late, bare>>
      /\ changes' \in 0..MaxChanges
  BY MaxChangesAssumption DEF ClearSpace, TypeOK
<1>2. db' \in Databases /\ db'.edges = {}
  BY <1>1 DEF TypeOK, Databases
<1>3. undo' \in [at : 0..Len(log'), before : Databases]
  BY <1>1, EmptyTyped DEF TypeOK
<1>4. TypeOK'
  BY <1>1, <1>2, <1>3 DEF TypeOK
<1>5. DeletedLeaveNoEvidence'
  BY <1>2 DEF DeletedLeaveNoEvidence, Evidence
<1> QED
  BY <1>1, <1>4, <1>5 DEF WorkIsClean, WritesAreClean

(* The script's reads change what it plans to take away, and nothing else.                       *)
Reads == SweepGraph \/ SweepRows

LEMMA ReadsDo ==
  ASSUME Reads
  PROVE  UNCHANGED <<db, log, vectors, doomed, deleted, lock, seen, work, tx, undo, stale, swept, late, bare>>
  BY DEF Reads, SweepGraph, SweepRows

LEMMA ReadsSound ==
  ASSUME Sound, Reads
  PROVE  Sound'
<1> USE DEF Sound
<1>1. UNCHANGED <<db, log, vectors, doomed, deleted, lock, seen, work, tx, undo, stale, swept, late, bare>>
  BY ReadsDo
<1>2. changes' \in 0..MaxChanges
  BY MaxChangesAssumption DEF Reads, SweepGraph, SweepRows, TypeOK
<1> DEFINE Plans == [at : {"none", "rows", "update"}, used : SUBSET Entities,
                     isolated : SUBSET Entities, stale : SUBSET Entities]
<1>3. plan \in Plans /\ NoPlan \in Plans
  BY DEF TypeOK, NoPlan
<1>4. Used(db) \subseteq Entities /\ db.nodes \subseteq Entities /\ Live(db) \subseteq Entities
  BY DEF TypeOK, Databases, Used, Ends, Edges, Live
<1>5. plan' \in Plans
  <2>1. CASE SweepGraph
    BY <1>3, <1>4, <2>1 DEF SweepGraph
  <2>2. CASE SweepRows
    BY <1>3, <1>4, <2>2 DEF SweepRows
  <2> QED
    BY <2>1, <2>2 DEF Reads
<1>6. TypeOK'
  BY <1>1, <1>2, <1>5 DEF TypeOK
<1> QED
  BY <1>1, <1>6 DEF DeletedLeaveNoEvidence, WorkIsClean, WritesAreClean

(* What the script takes away leaves the edges.                                                  *)
LEMMA SweepDoes ==
  ASSUME TypeOK, Sweep
  PROVE  /\ db' \in Databases /\ db'.edges = db.edges
         /\ db'.nodes = db.nodes \ (plan.isolated \ Used(db))
         /\ db'.known = db.known /\ db'.into = db.into
         /\ db'.gone = db.gone \cup {e \in plan.stale : db.into[e] = None}
<1> DEFINE bared == plan.isolated \ Used(db)
           dead == {e \in plan.stale : db.into[e] = None}
<1>1. db' = [db EXCEPT !.nodes = @ \ bared, !.gone = @ \cup dead]
  BY DEF Sweep
<1>2. dead \subseteq Entities
  BY DEF TypeOK
<1> HIDE DEF bared, dead
<1> QED
  BY <1>1, <1>2 DEF TypeOK, Databases, bared, dead

LEMMA SweepSound ==
  ASSUME Sound, Sweep
  PROVE  Sound'
<1> USE DEF Sound
<1>1. /\ doomed' = plan.isolated \cup plan.stale
      /\ undo' = [at |-> 0, before |-> Empty] /\ plan' = NoPlan
      /\ UNCHANGED <<log, vectors, deleted, lock, seen, work, tx, stale, late, bare>>
  BY DEF Sweep
<1>2. swept' \in BOOLEAN /\ changes' \in 0..MaxChanges
  BY MaxChangesAssumption DEF Sweep, TypeOK
<1>3. db' \in Databases /\ db'.edges = db.edges
  BY SweepDoes
<1>4. undo' \in [at : 0..Len(log'), before : Databases]
  BY <1>1, EmptyTyped DEF TypeOK
<1>5. doomed' \subseteq Entities
  BY <1>1 DEF TypeOK
<1>6. plan' \in [at : {"none", "rows", "update"}, used : SUBSET Entities,
                 isolated : SUBSET Entities, stale : SUBSET Entities]
  BY <1>1 DEF NoPlan
<1>7. TypeOK'
  BY <1>1, <1>2, <1>3, <1>4, <1>5, <1>6 DEF TypeOK
<1> QED
  BY <1>1, <1>3, <1>7 DEF DeletedLeaveNoEvidence, WorkIsClean, WritesAreClean

LEMMA SweepVectorsSound ==
  ASSUME Sound, SweepVectors
  PROVE  Sound'
<1> USE DEF Sound
<1>1. UNCHANGED <<db, log, plan, deleted, lock, seen, work, tx, changes, undo, stale, late, bare>>
      /\ doomed' = {} /\ vectors' \subseteq vectors /\ swept' \in BOOLEAN
  BY DEF SweepVectors, TypeOK
<1>2. TypeOK'
  BY <1>1 DEF TypeOK
<1> QED
  BY <1>1, <1>2 DEF DeletedLeaveNoEvidence, WorkIsClean, WritesAreClean

LEMMA NextSound ==
  ASSUME Sound, [Next]_vars
  PROVE  Sound'
<1>1. CASE \E s \in Sessions : \E a \in Assets : BeginWrite(s, a)
  BY <1>1, BeginWriteSound
<1>2. CASE \E s \in Sessions : WriteGraph(s)
  BY <1>2, WriteGraphSound
<1>3. CASE \E s \in Sessions : BeginMerge(s)
  BY <1>3, BeginMergeSound
<1>4. CASE \E s \in Sessions : \E pair \in tx[s].pairs : MergePair(s, pair)
  BY <1>4, MergePairSound
<1>5. CASE \E s \in Sessions : \E i \in DOMAIN log : BeginRollback(s, i)
  BY <1>5, BeginRollbackSound
<1>6. CASE \E s \in Sessions : RollbackGraph(s)
  BY <1>6, RollbackGraphSound
<1>7. CASE \E s \in Sessions : Commit(s)
  BY <1>7, CommitSound
<1>8. CASE \E s \in Sessions : Rollback(s)
  BY <1>8, RollbackSound
<1>9. CASE \E a \in Assets, cleaned \in BOOLEAN : DeleteAsset(a, cleaned)
  BY <1>9, DeleteAssetSound
<1>10. CASE ClearSpace \/ Sweep \/ SweepVectors
  BY <1>10, ClearSpaceSound, SweepSound, SweepVectorsSound
<1>11. CASE Reads
  BY <1>11, ReadsSound
<1>12. CASE UNCHANGED vars
  BY <1>12 DEF vars, Sound, TypeOK, DeletedLeaveNoEvidence, WorkIsClean, WritesAreClean
<1> QED
  BY <1>1, <1>2, <1>3, <1>4, <1>5, <1>6, <1>7, <1>8, <1>9, <1>10, <1>12, <1>11 DEF Next, Reads

(* Every variable keeps its type: in particular a merge, a write and a rollback make a graph of   *)
(* the space's entities from one.                                                                *)
THEOREM EntityGraphTypeCorrect == Spec => []TypeOK
<1>1. Init => Sound
  BY InitSound
<1>2. Sound /\ [Next]_vars => Sound'
  BY NextSound
<1>3. Sound => TypeOK
  BY DEF Sound
<1> QED
  BY <1>1, <1>2, <1>3, PTL DEF Spec

(* No evidence of a deleted document stays in the graph or comes back, whatever is written,       *)
(* merged, swept and rebuilt, but that of the late ones.                                         *)
THEOREM DeletionIsClean == Spec => []DeletedLeaveNoEvidence
<1>1. Init => Sound
  BY InitSound
<1>2. Sound /\ [Next]_vars => Sound'
  BY NextSound
<1>3. Sound => DeletedLeaveNoEvidence
  BY DEF Sound
<1> QED
  BY <1>1, <1>2, <1>3, PTL DEF Spec
----------------------------------------------------------------------------
(* Chains of merges.                                                                             *)
Maps == [Entities -> Entities \cup {None}]

LEMMA ChainHasItsStart ==
  ASSUME NEW into \in Maps, NEW e \in Entities
  PROVE  e \in Chain(into, e)
  BY DEF Chain

LEMMA ChainStaysIn ==
  ASSUME NEW into \in Maps, NEW e, NEW S \in SUBSET Entities, e \in S, Closed(into, S)
  PROVE  Chain(into, e) \subseteq S
  BY DEF Chain

LEMMA ChainIsClosed ==
  ASSUME NEW into \in Maps, NEW e \in Entities
  PROVE  Closed(into, Chain(into, e))
<1> SUFFICES ASSUME NEW x \in Chain(into, e), into[x] # None,
                    NEW S \in SUBSET Entities, e \in S, Closed(into, S)
             PROVE  into[x] \in Entities /\ into[x] \in S
  BY DEF Closed, Chain, Maps
<1>1. x \in S /\ x \in Entities
  BY DEF Chain
<1> QED
  BY <1>1 DEF Closed, Maps

LEMMA ResolveIsEnd ==
  ASSUME NEW into \in Maps, NEW e \in Entities
  PROVE  /\ Resolve(into, e) # None <=> \E x \in Chain(into, e) : into[x] = None
         /\ Resolve(into, e) # None =>
              Resolve(into, e) \in Chain(into, e) /\ into[Resolve(into, e)] = None
<1> DEFINE ends == {x \in Chain(into, e) : into[x] = None}
<1>1. Resolve(into, e) = IF ends = {} THEN None ELSE CHOOSE x \in ends : TRUE
  BY DEF Resolve
<1>2. None \notin ends
  BY NoneAssumption DEF Chain
<1>3. ends # {} => (CHOOSE x \in ends : TRUE) \in ends
  OBVIOUS
<1> QED
  BY <1>1, <1>2, <1>3

(* A graph with its rows in order: nodes of living entities only, a merged entity deleted and      *)
(* its chain ending at an entity that is there.                                                  *)
AllEnd(into) == \A e \in Entities : \E x \in Chain(into, e) : into[x] = None
Orderly(g) ==
    /\ g.nodes \subseteq Live(g)
    /\ g.gone \subseteq g.known
    /\ \A e \in Entities : g.into[e] # None => e \in g.gone /\ g.into[e] \in g.known
    /\ AllEnd(g.into)

LEMMA MergeEnds ==
  ASSUME NEW into \in Maps, AllEnd(into), NEW w \in Entities, NEW l \in Entities, w # l,
         into[w] = None, into[l] = None
  PROVE  AllEnd([into EXCEPT ![l] = w])
<1> DEFINE new == [into EXCEPT ![l] = w]
<1>1. new \in Maps /\ \A x \in Entities : new[x] = IF x = l THEN w ELSE into[x]
  BY DEF Maps
<1> HIDE DEF new
<1> SUFFICES ASSUME NEW e \in Entities
             PROVE  \E x \in Chain(new, e) : new[x] = None
  BY DEF AllEnd, new
<1>2. Closed(new, Chain(new, e)) /\ e \in Chain(new, e)
  BY <1>1, ChainIsClosed, ChainHasItsStart
<1>3. Chain(new, e) \subseteq Entities
  BY DEF Chain
<1>4. Closed(into, Chain(new, e))
  BY <1>1, <1>2, <1>3 DEF Closed
<1>5. Chain(into, e) \subseteq Chain(new, e)
  BY <1>2, <1>3, <1>4, ChainStaysIn
<1>6. PICK x \in Chain(new, e) : into[x] = None
  BY <1>5 DEF AllEnd
<1>7. CASE x = l
  <2>1. w \in Chain(new, e)
    BY <1>1, <1>2, <1>3, <1>7, NoneAssumption DEF Closed
  <2> QED
    BY <1>1, <2>1
<1>8. CASE x # l
  BY <1>1, <1>3, <1>6, <1>8
<1> QED
  BY <1>7, <1>8

LEMMA UnmergeEnds ==
  ASSUME NEW into \in Maps, AllEnd(into), NEW l \in Entities
  PROVE  AllEnd([into EXCEPT ![l] = None])
<1> DEFINE new == [into EXCEPT ![l] = None]
<1>1. new \in Maps /\ \A x \in Entities : new[x] = IF x = l THEN None ELSE into[x]
  BY DEF Maps
<1> HIDE DEF new
<1> SUFFICES ASSUME NEW e \in Entities
             PROVE  \E x \in Chain(new, e) : new[x] = None
  BY DEF AllEnd, new
<1>2. Closed(new, Chain(new, e)) /\ e \in Chain(new, e)
  BY <1>1, ChainIsClosed, ChainHasItsStart
<1>3. Chain(new, e) \subseteq Entities
  BY DEF Chain
<1>4. CASE l \in Chain(new, e)
  BY <1>1, <1>4
<1>5. CASE l \notin Chain(new, e)
  <2>1. Closed(into, Chain(new, e))
    BY <1>1, <1>2, <1>3, <1>5 DEF Closed
  <2>2. Chain(into, e) \subseteq Chain(new, e)
    BY <1>2, <1>3, <2>1, ChainStaysIn
  <2>3. PICK x \in Chain(new, e) : into[x] = None
    BY <2>2 DEF AllEnd
  <2> QED
    BY <1>1, <1>3, <1>5, <2>3
<1> QED
  BY <1>4, <1>5

LEMMA WrittenOrderly ==
  ASSUME NEW g \in Databases, Orderly(g), NEW a \in Assets, NEW facts \in SUBSET Facts
  PROVE  Orderly(Written(g, a, facts))
<1> DEFINE n == Written(g, a, facts)
           keys == {Key(g, e) : e \in Mentioned(facts)}
<1>1. Mentioned(facts) \subseteq Entities /\ g.into \in Maps /\ g.known \subseteq Entities
      /\ g.nodes \subseteq Entities
  BY FactsAreOfEntities DEF Databases, Maps
<1>2. /\ n.nodes \subseteq g.nodes \cup keys /\ n.known = g.known \cup Mentioned(facts)
      /\ n.gone = g.gone \ Resolved(g, facts) /\ n.into = g.into
  BY DEF Written, Databases
<1> HIDE DEF n
<1>3. \A e \in Entities : /\ Resolve(g.into, e) # None /\ Resolve(g.into, e) \in Entities
                          /\ g.into[Resolve(g.into, e)] = None
                          /\ e \in g.known => Resolve(g.into, e) \in g.known
  <2> TAKE e \in Entities
  <2>1. Resolve(g.into, e) # None
    BY <1>1, ResolveIsEnd DEF Orderly, AllEnd
  <2>2. Resolve(g.into, e) \in Chain(g.into, e) /\ g.into[Resolve(g.into, e)] = None
    BY <1>1, <2>1, ResolveIsEnd
  <2>3. Closed(g.into, g.known)
    BY <1>1 DEF Closed, Orderly
  <2>4. e \in g.known => Chain(g.into, e) \subseteq g.known
    BY <1>1, <2>3, ChainStaysIn
  <2> QED
    BY <2>1, <2>2, <2>4 DEF Chain
<1>4. \A e \in Mentioned(facts) : Key(g, e) \in Live(n)
  <2> TAKE e \in Mentioned(facts)
  <2>1. CASE e \in g.known
    <3>1. Key(g, e) = Resolve(g.into, e)
      BY <1>1, <1>3, <2>1 DEF Key
    <3>2. Resolve(g.into, e) \in Resolved(g, facts)
      BY <1>1, <1>3, <2>1 DEF Resolved
    <3> QED
      BY <1>1, <1>2, <1>3, <2>1, <3>1, <3>2 DEF Live
  <2>2. CASE e \notin g.known
    <3>1. Key(g, e) = e
      BY <2>2 DEF Key
    <3>2. e \notin g.gone /\ g.into[e] = None
      BY <1>1, <2>2 DEF Orderly
    <3> QED
      BY <1>2, <3>1, <3>2 DEF Live
  <2> QED
    BY <2>1, <2>2
<1>5. n.nodes \subseteq Live(n)
  <2>1. \A x \in g.nodes : x \in Live(n)
    BY <1>2 DEF Orderly, Live
  <2> QED
    BY <1>2, <1>4, <2>1
<1>6. n.gone \subseteq n.known
  BY <1>2 DEF Orderly
<1>7. \A e \in Entities : n.into[e] # None => e \in n.gone /\ n.into[e] \in n.known
  <2>1. \A x \in Resolved(g, facts) : g.into[x] = None
    BY <1>1, <1>3 DEF Resolved
  <2> QED
    BY <1>2, <2>1 DEF Orderly
<1> QED
  BY <1>2, <1>5, <1>6, <1>7 DEF Orderly, n

LEMMA AttachedOrderly ==
  ASSUME NEW g \in Databases, Orderly(g)
  PROVE  Orderly(Attached(g))
<1>1. Attached(g).nodes = g.nodes /\ Attached(g).known = g.known /\ Attached(g).gone = g.gone
      /\ Attached(g).into = g.into
  BY DEF Attached, Databases
<1> QED
  BY <1>1 DEF Orderly, Live

LEMMA MergedOrderly ==
  ASSUME NEW g \in Databases, Orderly(g), NEW w \in Live(g), NEW l \in Live(g), w # l, NEW order
  PROVE  Orderly(Merged(g, w, l, order))
<1> DEFINE n == Merged(g, w, l, order)
<1>1. w \in Entities /\ l \in Entities /\ g.into \in Maps /\ g.into[w] = None /\ g.into[l] = None
      /\ w \in g.known /\ l \in g.known
  BY DEF Live, Databases, Maps
<1>2. /\ n.nodes = g.nodes \ {l} /\ n.known = g.known /\ n.gone = g.gone \cup {l}
      /\ n.into = [g.into EXCEPT ![l] = w]
  BY DEF Merged, Attached, Databases
<1> HIDE DEF n
<1>3. AllEnd(n.into)
  BY <1>1, <1>2, MergeEnds DEF Orderly
<1>4. n.nodes \subseteq Live(n)
  BY <1>1, <1>2 DEF Orderly, Live, Maps
<1>5. \A e \in Entities : n.into[e] # None => e \in n.gone /\ n.into[e] \in n.known
  BY <1>1, <1>2 DEF Orderly, Maps
<1> QED
  BY <1>1, <1>2, <1>3, <1>4, <1>5 DEF Orderly, n

(* The loser of a merge that is in force is deleted and merged into the winner.                  *)
LEMMA RolledBackOrderly ==
  ASSUME NEW g \in Databases, Orderly(g), NEW entry \in Logs, NEW was,
         was.gone = TRUE, was.into # None, g.into[entry.loser] # None
  PROVE  Orderly(RolledBack(g, entry, was))
<1> DEFINE n == RolledBack(g, entry, was)
           l == entry.loser
<1>1. l \in Entities /\ g.into \in Maps
  BY DEF Logs, Databases, Maps
<1>2. l \in g.gone /\ l \in g.known
  BY <1>1 DEF Orderly
<1>3. /\ n.nodes = g.nodes \cup {l} /\ n.known = g.known /\ n.gone = g.gone \ {l}
      /\ n.into = [g.into EXCEPT ![l] = None]
  BY DEF RolledBack, Attached, Databases
<1> HIDE DEF n, l
<1>4. AllEnd(n.into)
  BY <1>1, <1>3, UnmergeEnds DEF Orderly
<1>5. n.nodes \subseteq Live(n)
  BY <1>1, <1>2, <1>3 DEF Orderly, Live, Maps
<1>6. \A e \in Entities : n.into[e] # None => e \in n.gone /\ n.into[e] \in n.known
  BY <1>1, <1>3 DEF Orderly, Maps
<1> QED
  BY <1>2, <1>3, <1>4, <1>5, <1>6 DEF Orderly, n
----------------------------------------------------------------------------
(* The lock and the rows under it.  While a session holds the lock others only take away nodes    *)
(* and edges, or stale or swept becomes true.                                                    *)
LockHeld ==
    /\ lock = None => seen = Empty /\ work = Empty
    /\ \A s \in Sessions : tx[s].op = "commit" => lock = s
PairsDiffer == \A s \in Sessions : \A pair \in tx[s].pairs : pair[1] # pair[2]
RowsAgree ==
    (lock # None /\ ~ swept) =>
        /\ seen.known = db.known /\ seen.gone = db.gone /\ seen.into = db.into
        /\ db.nodes \subseteq seen.nodes
RowsInOrder ==
    (~ stale /\ ~ swept) =>
        /\ Orderly(db) /\ Orderly(work)
        /\ \A s \in Sessions : (tx[s].op = "rollback" /\ tx[s].into # None) => tx[s].gone = TRUE
Ordered == TypeOK /\ LockHeld /\ PairsDiffer /\ RowsAgree /\ RowsInOrder

LEMMA EmptyOrderly == Orderly(Empty)
<1>1. Empty.into \in Maps /\ \A e \in Entities : Empty.into[e] = None
  BY DEF Empty, Maps
<1>2. Empty.nodes = {} /\ Empty.gone = {}
  BY DEF Empty
<1>3. AllEnd(Empty.into)
  BY <1>1, ChainHasItsStart DEF AllEnd
<1> QED
  BY <1>1, <1>2, <1>3 DEF Orderly

(* Fewer nodes with the same rows.                                                               *)
LEMMA FewerNodes ==
  ASSUME NEW g, NEW n, Orderly(g), n.nodes \subseteq g.nodes, n.known = g.known, n.gone = g.gone,
         n.into = g.into
  PROVE  Orderly(n)
  BY DEF Orderly, Live

LEMMA VisibleOrderly ==
  ASSUME Ordered, ~ stale, ~ swept
  PROVE  Orderly(Visible)
<1> DEFINE n == [nodes |-> Rebased(db.nodes, seen.nodes, work.nodes),
                 edges |-> Rebased(db.edges, seen.edges, work.edges),
                 known |-> Rebased(db.known, seen.known, work.known),
                 gone |-> Rebased(db.gone, seen.gone, work.gone),
                 into |-> [e \in Entities |->
                              IF work.into[e] # seen.into[e] THEN work.into[e] ELSE db.into[e]]]
<1>1. /\ n.nodes = Rebased(db.nodes, seen.nodes, work.nodes)
      /\ n.known = Rebased(db.known, seen.known, work.known)
      /\ n.gone = Rebased(db.gone, seen.gone, work.gone)
      /\ n.into = [e \in Entities |-> IF work.into[e] # seen.into[e] THEN work.into[e] ELSE db.into[e]]
  OBVIOUS
<1>2. n \in Databases /\ Visible = Attached(n)
  BY DEF Visible, Ordered, TypeOK, Databases, Rebased
<1> HIDE DEF n
<1>3. Orderly(db) /\ Orderly(work)
  BY DEF Ordered, RowsInOrder
<1>4. db.into \in Maps /\ work.into \in Maps
  BY DEF Ordered, TypeOK, Databases, Maps
<1>5. CASE lock = None
  <2>1. seen = Empty /\ work = Empty
    BY <1>5 DEF Ordered, LockHeld
  <2>2. n.nodes = db.nodes /\ n.known = db.known /\ n.gone = db.gone
    BY <1>1, <2>1 DEF Rebased
  <2>3. n.into = db.into
    BY <1>1, <1>4, <2>1 DEF Maps
  <2>4. Orderly(n)
    BY <1>3, <2>2, <2>3, FewerNodes
  <2> QED
    BY <1>2, <2>4, AttachedOrderly
<1>6. CASE lock # None
  <2>1. /\ seen.known = db.known /\ seen.gone = db.gone /\ seen.into = db.into
        /\ db.nodes \subseteq seen.nodes
    BY <1>6 DEF Ordered, RowsAgree
  <2>2. n.nodes \subseteq work.nodes /\ n.known = work.known /\ n.gone = work.gone
    BY <1>1, <2>1 DEF Rebased
  <2>3. n.into = work.into
    BY <1>1, <1>4, <2>1 DEF Maps
  <2>4. Orderly(n)
    BY <1>3, <2>2, <2>3, FewerNodes
  <2> QED
    BY <1>2, <2>4, AttachedOrderly
<1> QED
  BY <1>5, <1>6

LEMMA InitOrdered == Init => Ordered
<1> SUFFICES ASSUME Init PROVE Ordered
  OBVIOUS
<1>1. TypeOK
  BY InitSound DEF Sound
<1>2. \A s \in Sessions : tx[s].op = "idle" /\ tx[s].pairs = {}
  BY DEF Init, Idle
<1> QED
  BY <1>1, <1>2, EmptyOrderly DEF Init, Ordered, LockHeld, PairsDiffer, RowsAgree, RowsInOrder

(* What a rollback has read of the row.                                                          *)
LEMMA RollbackBegun ==
  ASSUME TypeOK, NEW s \in Sessions, NEW i \in DOMAIN log, BeginRollback(s, i)
  PROVE  /\ tx'[s].op = "rollback" /\ tx'[s].pairs = {}
         /\ tx'[s].gone <=> log[i].loser \in db.gone
         /\ tx'[s].gone \in BOOLEAN
         /\ tx'[s].into = db.into[log[i].loser]
<1> DEFINE was == log[i].loser \in db.gone
           into == db.into[log[i].loser]
<1>1. tx' = [tx EXCEPT ![s] = [Idle EXCEPT !.op = "rollback", !.of = i, !.gone = was, !.into = into]]
  BY DEF BeginRollback
<1>2. was \in BOOLEAN
  OBVIOUS
<1> HIDE DEF was, into
<1>3. tx'[s] = [Idle EXCEPT !.op = "rollback", !.of = i, !.gone = was, !.into = into]
  BY <1>1 DEF TypeOK
<1>4. tx'[s].op = "rollback" /\ tx'[s].pairs = {} /\ tx'[s].into = into
  BY <1>3 DEF Idle
<1>5. tx'[s].gone = was
  BY <1>3 DEF Idle
<1> QED
  BY <1>2, <1>4, <1>5 DEF was, into

LEMMA BeginOrdered ==
  ASSUME Ordered, TypeOK', NEW s \in Sessions,
         \/ \E a \in Assets : BeginWrite(s, a)
         \/ BeginMerge(s)
         \/ \E i \in DOMAIN log : BeginRollback(s, i)
  PROVE  Ordered'
<1> USE DEF Ordered
<1>1. UNCHANGED <<db, lock, seen, work, stale, swept>> /\ \A o \in Sessions \ {s} : tx'[o] = tx[o]
  BY DEF BeginWrite, BeginMerge, BeginRollback, TypeOK
<1>2. tx'[s].op # "commit" /\ \A pair \in tx'[s].pairs : pair[1] # pair[2]
  <2>1. CASE \E a \in Assets : BeginWrite(s, a)
    <3>1. PICK a \in Assets, facts \in SUBSET Facts :
             tx' = [tx EXCEPT ![s] = [Idle EXCEPT !.op = "write", !.asset = a, !.facts = facts]]
      BY <2>1 DEF BeginWrite
    <3>2. tx'[s] = [Idle EXCEPT !.op = "write", !.asset = a, !.facts = facts]
      BY <3>1 DEF TypeOK
    <3> QED
      BY <3>2 DEF Idle
  <2>2. CASE BeginMerge(s)
    <3>1. PICK oldest \in [Spellings -> Entities] :
             tx' = [tx EXCEPT ![s] = [Idle EXCEPT !.op = "merge", !.pairs =
                UNION {{<<oldest[g], e>> : e \in (g \cap Live(db)) \ {oldest[g]}} : g \in Spellings}]]
      BY <2>2 DEF BeginMerge
    <3>2. tx'[s].op = "merge" /\ tx'[s].pairs =
             UNION {{<<oldest[g], e>> : e \in (g \cap Live(db)) \ {oldest[g]}} : g \in Spellings}
      BY <3>1 DEF TypeOK, Idle
    <3> QED
      BY <3>2
  <2>3. CASE \E i \in DOMAIN log : BeginRollback(s, i)
    BY <2>3, RollbackBegun
  <2> QED
    BY <2>1, <2>2, <2>3
<1>3. (~ stale /\ ~ swept /\ tx'[s].op = "rollback" /\ tx'[s].into # None) => tx'[s].gone = TRUE
  <2> SUFFICES ASSUME ~ stale, ~ swept, tx'[s].op = "rollback", tx'[s].into # None
               PROVE  tx'[s].gone = TRUE
    OBVIOUS
  <2>1. ~ BeginMerge(s)
    <3> SUFFICES ASSUME BeginMerge(s) PROVE FALSE
      OBVIOUS
    <3>1. PICK pairs : tx' = [tx EXCEPT ![s] = [Idle EXCEPT !.op = "merge", !.pairs = pairs]]
      BY DEF BeginMerge
    <3>2. tx'[s] = [Idle EXCEPT !.op = "merge", !.pairs = pairs]
      BY <3>1 DEF TypeOK
    <3> QED
      BY <3>2 DEF Idle
  <2>2. \A a \in Assets : ~ BeginWrite(s, a)
    <3> SUFFICES ASSUME NEW a \in Assets, BeginWrite(s, a) PROVE FALSE
      OBVIOUS
    <3>1. PICK facts : tx' = [tx EXCEPT ![s] = [Idle EXCEPT !.op = "write", !.asset = a, !.facts = facts]]
      BY DEF BeginWrite
    <3>2. tx'[s] = [Idle EXCEPT !.op = "write", !.asset = a, !.facts = facts]
      BY <3>1 DEF TypeOK
    <3> QED
      BY <3>2 DEF Idle
  <2>3. PICK i \in DOMAIN log : BeginRollback(s, i)
    BY <2>1, <2>2
  <2>4. (tx'[s].gone <=> log[i].loser \in db.gone) /\ tx'[s].into = db.into[log[i].loser]
        /\ tx'[s].gone \in BOOLEAN
    BY <2>3, RollbackBegun
  <2>5. log[i] \in Logs
    BY DEF TypeOK
  <2>6. log[i].loser \in Entities
    BY <2>5 DEF Logs
  <2>7. log[i].loser \in db.gone
    BY <2>4, <2>6 DEF RowsInOrder, Orderly
  <2> QED
    BY <2>4, <2>7
<1>4. LockHeld'
  BY <1>1, <1>2 DEF LockHeld
<1>5. PairsDiffer'
  BY <1>1, <1>2 DEF PairsDiffer
<1>6. RowsAgree'
  BY <1>1 DEF RowsAgree
<1>7. RowsInOrder'
  BY <1>1, <1>3 DEF RowsInOrder
<1> QED
  BY <1>4, <1>5, <1>6, <1>7

(* A statement of the session that takes or has the lock.                                        *)
LEMMA LockedStep ==
  ASSUME Ordered, TypeOK', NEW s \in Sessions, Locked(s), UNCHANGED <<db, swept>>,
         NEW job, tx' = [tx EXCEPT ![s] = job], job.pairs \subseteq tx[s].pairs, job.op # "rollback",
         stale => stale', (~ stale' /\ ~ swept) => Orderly(work')
  PROVE  Ordered'
<1> USE DEF Ordered
<1>1. tx'[s] = job /\ \A o \in Sessions \ {s} : tx'[o] = tx[o]
  BY DEF TypeOK
<1>2. lock \in {None, s} /\ lock' = s /\ seen' = db
  BY DEF Locked
<1>3. LockHeld'
  <2>1. lock' # None
    BY <1>2, NoneAssumption
  <2>2. \A o \in Sessions \ {s} : tx[o].op # "commit"
    BY <1>2, NoneAssumption DEF LockHeld
  <2> QED
    BY <1>1, <1>2, <2>1, <2>2 DEF LockHeld
<1>4. PairsDiffer'
  BY <1>1 DEF PairsDiffer
<1>5. RowsAgree'
  BY <1>2 DEF RowsAgree
<1>6. RowsInOrder'
  BY <1>1 DEF RowsInOrder
<1> QED
  BY <1>3, <1>4, <1>5, <1>6

LEMMA WriteGraphOrdered ==
  ASSUME Ordered, TypeOK', NEW s \in Sessions, WriteGraph(s)
  PROVE  Ordered'
<1> DEFINE job == [tx[s] EXCEPT !.op = "commit"]
<1>1. tx[s] \in Jobs /\ tx[s].asset \in Assets /\ tx[s].facts \in SUBSET Facts /\ db \in Databases
  BY DEF WriteGraph, Ordered, TypeOK, Jobs
<1>2. job.pairs = tx[s].pairs /\ job.op = "commit"
  BY <1>1 DEF Jobs
<1>3. tx' = [tx EXCEPT ![s] = job] /\ Locked(s) /\ UNCHANGED <<db, swept, stale>>
      /\ work' = Written(db, tx[s].asset, tx[s].facts)
  BY DEF WriteGraph
<1> HIDE DEF job
<1>4. (~ stale /\ ~ swept) => Orderly(work')
  BY <1>1, <1>3, WrittenOrderly DEF Ordered, RowsInOrder
<1> QED
  BY <1>2, <1>3, <1>4, LockedStep

LEMMA MergePairOrdered ==
  ASSUME Ordered, TypeOK', NEW s \in Sessions, NEW pair \in tx[s].pairs, MergePair(s, pair)
  PROVE  Ordered'
<1> DEFINE w == pair[1]
           l == pair[2]
           g == Visible
           entry == [winner |-> w, loser |-> l, applied |-> TRUE, mine |-> At(g, w), theirs |-> At(g, l)]
           job == [tx[s] EXCEPT !.pairs = @ \ {pair},
                                !.op = IF tx[s].pairs = {pair} THEN "commit" ELSE "merge",
                                !.merges = Append(@, entry)]
<1>1. tx[s] \in Jobs /\ w # l
  BY DEF Ordered, TypeOK, PairsDiffer
<1>2. PICK order \in Orders(Apart(g, w, l)) : work' = Merged(g, w, l, order)
  BY DEF MergePair
<1>3. tx' = [tx EXCEPT ![s] = job] /\ Locked(s) /\ UNCHANGED <<db, swept>>
  BY DEF MergePair
<1>4. stale' = (stale \/ ~ {w, l} \subseteq Live(g))
  BY DEF MergePair
<1>5. g \in Databases /\ ((~ stale /\ ~ swept) => Orderly(g))
  BY VisibleTyped, VisibleOrderly DEF Ordered
<1> HIDE DEF g, w, l, entry
<1>6. job.pairs \subseteq tx[s].pairs /\ job.op # "rollback"
  BY <1>1 DEF Jobs
<1> HIDE DEF job
<1>7. (~ stale' /\ ~ swept) => Orderly(work')
  BY <1>1, <1>2, <1>4, <1>5, MergedOrderly
<1> QED
  BY <1>3, <1>4, <1>6, <1>7, LockedStep

LEMMA RollbackGraphOrdered ==
  ASSUME Ordered, TypeOK', NEW s \in Sessions, RollbackGraph(s)
  PROVE  Ordered'
<1> DEFINE entry == log[tx[s].of]
           job == [tx[s] EXCEPT !.op = "commit"]
<1>1. tx[s] \in Jobs /\ db \in Databases /\ tx[s].of \in 1..Len(log) /\ tx[s].op = "rollback"
  BY DEF RollbackGraph, Ordered, TypeOK
<1>2. entry \in Logs
  BY <1>1 DEF Ordered, TypeOK
<1>3. job.pairs = tx[s].pairs /\ job.op = "commit"
  BY <1>1 DEF Jobs
<1>4. tx' = [tx EXCEPT ![s] = job] /\ Locked(s) /\ UNCHANGED <<db, swept>>
      /\ work' = RolledBack(db, entry, tx[s])
      /\ stale' = (stale \/ ~ entry.applied \/ tx[s].into # entry.winner
                          \/ tx[s].into # db.into[entry.loser])
  BY DEF RollbackGraph
<1> HIDE DEF job, entry
<1>5. entry.winner # None
  BY <1>2, NoneAssumption DEF Logs
<1>6. (~ stale' /\ ~ swept) => Orderly(work')
  BY <1>1, <1>2, <1>4, <1>5, RolledBackOrderly DEF Ordered, RowsInOrder
<1> QED
  BY <1>3, <1>4, <1>6, LockedStep

(* The end of a transaction.                                                                     *)
LEMMA UnlockedStep ==
  ASSUME Ordered, TypeOK', NEW s \in Sessions, Unlocked, lock = s, UNCHANGED <<stale, swept>>,
         tx' = [tx EXCEPT ![s] = Idle], (~ stale /\ ~ swept) => Orderly(db')
  PROVE  Ordered'
<1> USE DEF Ordered
<1>1. tx'[s] = Idle /\ \A o \in Sessions \ {s} : tx'[o] = tx[o]
  BY DEF TypeOK
<1>2. Idle.op = "idle" /\ Idle.pairs = {}
  BY DEF Idle
<1>3. lock' = None /\ seen' = Empty /\ work' = Empty
  BY DEF Unlocked
<1>4. LockHeld'
  BY <1>1, <1>2, <1>3 DEF LockHeld
<1>5. PairsDiffer'
  BY <1>1, <1>2 DEF PairsDiffer
<1>6. RowsAgree' /\ RowsInOrder'
  BY <1>1, <1>2, <1>3, EmptyOrderly DEF RowsAgree, RowsInOrder
<1> QED
  BY <1>4, <1>5, <1>6

LEMMA CommitOrdered ==
  ASSUME Ordered, TypeOK', NEW s \in Sessions, Commit(s)
  PROVE  Ordered'
<1>1. lock = s
  BY DEF Commit, Ordered, LockHeld
<1>2. db' = Visible /\ Unlocked /\ UNCHANGED <<stale, swept>> /\ tx' = [tx EXCEPT ![s] = Idle]
  BY DEF Commit
<1>3. (~ stale /\ ~ swept) => Orderly(db')
  BY <1>2, VisibleOrderly
<1> QED
  BY <1>1, <1>2, <1>3, UnlockedStep

LEMMA RollbackOrdered ==
  ASSUME Ordered, TypeOK', NEW s \in Sessions, Rollback(s)
  PROVE  Ordered'
<1>1. UNCHANGED <<db, stale, swept>> /\ tx' = [tx EXCEPT ![s] = Idle]
  BY DEF Rollback
<1>2. CASE lock = s
  <2>1. Unlocked
    BY <1>2 DEF Rollback
  <2>2. (~ stale /\ ~ swept) => Orderly(db')
    BY <1>1 DEF Ordered, RowsInOrder
  <2> QED
    BY <1>1, <1>2, <2>1, <2>2, UnlockedStep
<1>3. CASE lock # s
  <2>1. UNCHANGED <<lock, seen, work>>
    BY <1>3 DEF Rollback
  <2>2. tx'[s] = Idle /\ \A o \in Sessions \ {s} : tx'[o] = tx[o]
    BY <1>1 DEF Ordered, TypeOK
  <2>3. Idle.op = "idle" /\ Idle.pairs = {}
    BY DEF Idle
  <2> QED
    BY <1>1, <2>1, <2>2, <2>3 DEF Ordered, LockHeld, PairsDiffer, RowsAgree, RowsInOrder
<1> QED
  BY <1>2, <1>3

(* Others take away nodes.                                                                       *)
LEMMA OthersOrdered ==
  ASSUME Ordered, TypeOK',
         (\E a \in Assets, cleaned \in BOOLEAN : DeleteAsset(a, cleaned)) \/ ClearSpace
  PROVE  Ordered'
<1>1. UNCHANGED <<lock, seen, work, tx, stale, swept>>
  BY DEF DeleteAsset, ClearSpace
<1>2. /\ db'.nodes \subseteq db.nodes /\ db'.known = db.known /\ db'.gone = db.gone
      /\ db'.into = db.into
  <2>1. CASE ClearSpace
    BY <2>1 DEF ClearSpace, Ordered, TypeOK, Databases
  <2>2. CASE \E a \in Assets, cleaned \in BOOLEAN : DeleteAsset(a, cleaned)
    <3>1. PICK a \in Assets, cleaned \in BOOLEAN : DeleteAsset(a, cleaned)
      BY <2>2
    <3>2. db' = db \/ \E kept, bared : db' = [db EXCEPT !.edges = kept, !.nodes = @ \ bared]
      BY <3>1 DEF DeleteAsset
    <3>3. ASSUME NEW kept, NEW bared, db' = [db EXCEPT !.edges = kept, !.nodes = @ \ bared]
          PROVE  /\ db'.nodes \subseteq db.nodes /\ db'.known = db.known /\ db'.gone = db.gone
                 /\ db'.into = db.into
      BY <3>3 DEF Ordered, TypeOK, Databases
    <3> QED
      BY <3>2, <3>3
  <2> QED
    BY <2>1, <2>2
<1>3. Orderly(db) => Orderly(db')
  BY <1>2, FewerNodes
<1>4. LockHeld' /\ PairsDiffer'
  BY <1>1 DEF Ordered, LockHeld, PairsDiffer
<1>5. RowsAgree'
  BY <1>1, <1>2 DEF Ordered, RowsAgree
<1>6. RowsInOrder'
  BY <1>1, <1>3 DEF Ordered, RowsInOrder
<1> QED
  BY <1>4, <1>5, <1>6 DEF Ordered

LEMMA ReadsOrdered ==
  ASSUME Ordered, TypeOK', Reads
  PROVE  Ordered'
<1>1. UNCHANGED <<db, lock, seen, work, tx, stale, swept>>
  BY ReadsDo
<1> QED
  BY <1>1 DEF Ordered, LockHeld, PairsDiffer, RowsAgree, RowsInOrder

(* A plan that holds still takes away every entity without an edge, its node and its row.         *)
LEMMA SweepOrdered ==
  ASSUME Ordered, TypeOK', Sweep
  PROVE  Ordered'
<1> DEFINE holds == plan.isolated = db.nodes \ Used(db) /\ plan.stale = Live(db) \ Used(db)
<1>1. UNCHANGED <<lock, seen, work, tx, stale>> /\ (swept => swept')
      /\ (~ swept' => holds /\ lock = None)
  BY DEF Sweep
<1>2. /\ db'.nodes = db.nodes \ (plan.isolated \ Used(db)) /\ db'.known = db.known
      /\ db'.into = db.into /\ db'.gone = db.gone \cup {e \in plan.stale : db.into[e] = None}
  BY SweepDoes DEF Ordered
<1>3. holds /\ Orderly(db) => Orderly(db')
  BY <1>2 DEF Orderly, Live
<1> HIDE DEF holds
<1>4. LockHeld' /\ PairsDiffer'
  BY <1>1 DEF Ordered, LockHeld, PairsDiffer
<1>5. RowsAgree'
  BY <1>1, <1>2 DEF Ordered, RowsAgree
<1>6. RowsInOrder'
  BY <1>1, <1>3 DEF Ordered, RowsInOrder
<1> QED
  BY <1>4, <1>5, <1>6 DEF Ordered

LEMMA SweepVectorsOrdered ==
  ASSUME Ordered, TypeOK', SweepVectors
  PROVE  Ordered'
<1>1. UNCHANGED <<db, lock, seen, work, tx, stale>> /\ (swept => swept')
  BY DEF SweepVectors
<1> QED
  BY <1>1 DEF Ordered, LockHeld, PairsDiffer, RowsAgree, RowsInOrder

LEMMA NextOrdered ==
  ASSUME Ordered, TypeOK', [Next]_vars
  PROVE  Ordered'
<1>1. CASE \E s \in Sessions : \/ \E a \in Assets : BeginWrite(s, a)
                              \/ BeginMerge(s)
                              \/ \E i \in DOMAIN log : BeginRollback(s, i)
  BY <1>1, BeginOrdered
<1>2. CASE \E s \in Sessions : WriteGraph(s)
  BY <1>2, WriteGraphOrdered
<1>3. CASE \E s \in Sessions : \E pair \in tx[s].pairs : MergePair(s, pair)
  BY <1>3, MergePairOrdered
<1>4. CASE \E s \in Sessions : RollbackGraph(s)
  BY <1>4, RollbackGraphOrdered
<1>5. CASE \E s \in Sessions : Commit(s)
  BY <1>5, CommitOrdered
<1>6. CASE \E s \in Sessions : Rollback(s)
  BY <1>6, RollbackOrdered
<1>7. CASE (\E a \in Assets, cleaned \in BOOLEAN : DeleteAsset(a, cleaned)) \/ ClearSpace
  BY <1>7, OthersOrdered
<1>8. CASE Sweep
  BY <1>8, SweepOrdered
<1>9. CASE SweepVectors
  BY <1>9, SweepVectorsOrdered
<1>10. CASE UNCHANGED vars
  BY <1>10 DEF vars, Ordered, LockHeld, PairsDiffer, RowsAgree, RowsInOrder
<1>11. CASE Reads
  BY <1>11, ReadsOrdered
<1> QED
  BY <1>1, <1>2, <1>3, <1>4, <1>5, <1>6, <1>7, <1>8, <1>9, <1>10, <1>11 DEF Next, Reads

(* The graph has nodes of living entities only, so long as no session worked on rows that had     *)
(* changed since it loaded them and the cleaning script did not run across one.                  *)
THEOREM GraphIsOfTheLiving == Spec => []GraphShowsTheLiving
<1>1. Init => Ordered
  BY InitOrdered
<1>2. Ordered /\ TypeOK' /\ [Next]_vars => Ordered'
  BY NextOrdered
<1>3. Ordered => GraphShowsTheLiving
  BY DEF Ordered, RowsInOrder, Orderly, GraphShowsTheLiving
<1> QED
  BY <1>1, <1>2, <1>3, EntityGraphTypeCorrect, PTL DEF Spec
----------------------------------------------------------------------------
(* Vectors.  Also entities that were merged away have been given one, or were given up: rolling   *)
(* a merge back brings its loser back without a word to Milvus.                                  *)
MergedAway(g) == {e \in Entities : g.into[e] # None}
RowsIndexed ==
    (~ stale /\ ~ swept) =>
        /\ Live(db) \cup MergedAway(db) \cup Live(work) \subseteq vectors \cup bare
        /\ MergedAway(work) \subseteq MergedAway(db) \cup Live(db)
        /\ (\E s \in Sessions : lock = s /\ tx[s].op = "merge") => Live(work) \subseteq Live(db)

LEMMA VisibleRows ==
  ASSUME Ordered, ~ swept
  PROVE  /\ lock = None => /\ Visible.known = db.known /\ Visible.gone = db.gone
                           /\ Visible.into = db.into
         /\ lock # None => /\ Visible.known = work.known /\ Visible.gone = work.gone
                           /\ Visible.into = work.into
<1> DEFINE into == [e \in Entities |-> IF work.into[e] # seen.into[e] THEN work.into[e] ELSE db.into[e]]
<1>1. /\ Visible.known = Rebased(db.known, seen.known, work.known)
      /\ Visible.gone = Rebased(db.gone, seen.gone, work.gone)
      /\ Visible.into = into
  BY DEF Visible, Attached
<1>2. db.into \in Maps /\ work.into \in Maps
  BY DEF Ordered, TypeOK, Databases, Maps
<1>3. CASE lock = None
  <2>1. seen = Empty /\ work = Empty
    BY <1>3 DEF Ordered, LockHeld
  <2>2. into = db.into
    BY <1>2, <2>1 DEF Maps
  <2> QED
    BY <1>1, <1>3, <2>1, <2>2 DEF Rebased
<1>4. CASE lock # None
  <2>1. seen.known = db.known /\ seen.gone = db.gone /\ seen.into = db.into
    BY <1>4 DEF Ordered, RowsAgree
  <2>2. into = work.into
    BY <1>2, <2>1 DEF Maps
  <2> QED
    BY <1>1, <1>4, <2>1, <2>2 DEF Rebased
<1> QED
  BY <1>3, <1>4

(* The session with the lock is merging, or about to commit.                                     *)
HolderWorks == \A s \in Sessions : lock = s => tx[s].op \in {"merge", "commit"}

LEMMA NextHolderWorks ==
  ASSUME TypeOK, HolderWorks, [Next]_vars
  PROVE  HolderWorks'
<1>1. CASE UNCHANGED vars
  BY <1>1 DEF vars, HolderWorks
<1>2. ASSUME NEW s \in Sessions,
             \/ \E a \in Assets : BeginWrite(s, a)
             \/ BeginMerge(s)
             \/ \E i \in DOMAIN log : BeginRollback(s, i)
      PROVE  HolderWorks'
  <2>1. tx[s] = Idle /\ lock' = lock /\ \A o \in Sessions \ {s} : tx'[o] = tx[o]
    BY <1>2 DEF BeginWrite, BeginMerge, BeginRollback, TypeOK
  <2> QED
    BY <2>1 DEF HolderWorks, Idle
<1>3. ASSUME NEW s \in Sessions,
             \/ WriteGraph(s)
             \/ \E pair \in tx[s].pairs : MergePair(s, pair)
             \/ RollbackGraph(s)
      PROVE  HolderWorks'
  <2>1. lock' = s /\ tx'[s].op \in {"merge", "commit"}
    <3>1. CASE WriteGraph(s) \/ RollbackGraph(s)
      BY <3>1 DEF WriteGraph, RollbackGraph, Locked, TypeOK, Jobs
    <3>2. CASE \E pair \in tx[s].pairs : MergePair(s, pair)
      <4>1. PICK pair \in tx[s].pairs : MergePair(s, pair)
        BY <3>2
      <4> DEFINE entry == [winner |-> pair[1], loser |-> pair[2], applied |-> TRUE,
                           mine |-> At(Visible, pair[1]), theirs |-> At(Visible, pair[2])]
      <4>2. lock' = s /\ tx' = [tx EXCEPT ![s].pairs = @ \ {pair},
                                         ![s].op = IF tx[s].pairs = {pair} THEN "commit" ELSE "merge",
                                         ![s].merges = Append(@, entry)]
        BY <4>1 DEF MergePair, Locked
      <4> HIDE DEF entry
      <4> QED
        BY <4>2 DEF TypeOK, Jobs
    <3> QED
      BY <1>3, <3>1, <3>2
  <2> QED
    BY <2>1 DEF HolderWorks
<1>4. ASSUME NEW s \in Sessions, Commit(s) \/ Rollback(s)
      PROVE  HolderWorks'
  <2>1. lock' \in {None, lock} /\ (lock = s => lock' = None) /\ \A o \in Sessions \ {s} : tx'[o] = tx[o]
    BY <1>4 DEF Commit, Rollback, Unlocked, TypeOK
  <2> QED
    BY <2>1, NoneAssumption DEF HolderWorks
<1>5. CASE (\E a \in Assets, cleaned \in BOOLEAN : DeleteAsset(a, cleaned))
              \/ ClearSpace \/ Sweep \/ SweepVectors
  BY <1>5 DEF DeleteAsset, ClearSpace, Sweep, SweepVectors, HolderWorks
<1>6. CASE Reads
  BY <1>6, ReadsDo DEF HolderWorks
<1> QED
  BY <1>1, <1>2, <1>3, <1>4, <1>5, <1>6 DEF Next, Reads

LEMMA EmptyRows == Live(Empty) = {} /\ MergedAway(Empty) = {}
  BY DEF Live, MergedAway, Empty

LEMMA InitIndexed == Init => RowsIndexed /\ HolderWorks
<1> SUFFICES ASSUME Init PROVE RowsIndexed /\ HolderWorks
  OBVIOUS
<1>1. db = Empty /\ work = Empty /\ lock \notin Sessions
  BY NoneAssumption DEF Init
<1>2. Live(db) = {} /\ Live(work) = {} /\ MergedAway(db) = {} /\ MergedAway(work) = {}
  BY <1>1, EmptyRows
<1> QED
  BY <1>1, <1>2 DEF RowsIndexed, HolderWorks

(* A session begins to work, and has no lock yet.                                                *)
LEMMA BeginIndexed ==
  ASSUME Ordered, HolderWorks, RowsIndexed, NEW s \in Sessions,
         \/ \E a \in Assets : BeginWrite(s, a)
         \/ BeginMerge(s)
         \/ \E i \in DOMAIN log : BeginRollback(s, i)
  PROVE  RowsIndexed'
<1>1. UNCHANGED <<db, lock, work, vectors, bare, stale, swept>> /\ tx[s] = Idle
      /\ \A o \in Sessions \ {s} : tx'[o] = tx[o]
  BY DEF BeginWrite, BeginMerge, BeginRollback, Ordered, TypeOK
<1>2. lock # s
  BY <1>1 DEF HolderWorks, Idle
<1> QED
  BY <1>1, <1>2 DEF RowsIndexed, Live, MergedAway

(* A document's entities that come to life get vectors, or are given up.                         *)
LEMMA WriteGraphIndexed ==
  ASSUME Ordered, RowsIndexed, NEW s \in Sessions, WriteGraph(s)
  PROVE  RowsIndexed'
<1> SUFFICES ASSUME ~ stale, ~ swept
             PROVE  RowsIndexed'
  BY DEF WriteGraph, RowsIndexed
<1> DEFINE facts == tx[s].facts
           a == tx[s].asset
           fresh == Fresh(facts)
           through == Through(facts)
<1>1. facts \in SUBSET Facts /\ db \in Databases /\ Mentioned(facts) \subseteq Entities
  BY FactsAreOfEntities DEF Ordered, TypeOK, Jobs
<1>2. PICK indexed \in {{}} \cup {fresh \ before : before \in SUBSET through} :
         /\ vectors' = vectors \cup indexed
         /\ bare' = (bare \cup through \cup IF indexed = {} THEN fresh ELSE {}) \ indexed
  BY DEF WriteGraph
<1>3. /\ UNCHANGED <<db, stale, swept>> /\ lock' = s /\ work' = Written(db, a, facts)
      /\ tx'[s].op = "commit"
  BY DEF WriteGraph, Locked, Ordered, TypeOK, Jobs
<1>4. /\ work'.known = db.known \cup Mentioned(facts)
      /\ work'.gone = db.gone \ Resolved(db, facts) /\ work'.into = db.into
  BY <1>1, <1>3 DEF Written, Databases
<1>5. vectors \cup bare \cup fresh \cup through \subseteq vectors' \cup bare'
  <2> HIDE DEF fresh, through
  <2>1. indexed \subseteq fresh /\ (indexed = {} \/ fresh \ through \subseteq indexed)
    BY <1>2
  <2> QED
    BY <1>2, <2>1
<1>6. Live(work') \subseteq Live(db) \cup fresh \cup through
  <2> SUFFICES ASSUME NEW e \in Live(work'), e \notin Live(db)
               PROVE  e \in fresh \cup through
    OBVIOUS
  <2>1. e \in db.known \cup Mentioned(facts) /\ db.into[e] = None
        /\ (e \in db.gone => e \in Resolved(db, facts))
    BY <1>4 DEF Live
  <2>2. CASE e \notin db.known
    BY <2>1, <2>2 DEF Fresh, New
  <2>3. CASE e \in db.known
    <3>1. e \in db.gone /\ e \in Resolved(db, facts)
      BY <2>1, <2>3 DEF Live
    <3>2. PICK name \in Mentioned(facts) \cap db.known : e = Resolve(db.into, name)
      BY <3>1 DEF Resolved
    <3>3. CASE name = e
      BY <2>1, <3>1, <3>3 DEF Fresh
    <3>4. CASE name # e
      BY <3>1, <3>2, <3>4 DEF Through
    <3> QED
      BY <3>3, <3>4
  <2> QED
    BY <2>2, <2>3
<1>7. MergedAway(work') = MergedAway(db)
  BY <1>4 DEF MergedAway
<1>8. \A o \in Sessions : lock' = o => tx'[o].op # "merge"
  BY <1>3
<1> HIDE DEF fresh, through
<1> QED
  BY <1>3, <1>5, <1>6, <1>7, <1>8 DEF RowsIndexed

(* A merge takes one away from the living.                                                       *)
LEMMA MergePairIndexed ==
  ASSUME Ordered, HolderWorks, RowsIndexed, NEW s \in Sessions, NEW pair \in tx[s].pairs,
         MergePair(s, pair)
  PROVE  RowsIndexed'
<1> DEFINE w == pair[1]
           l == pair[2]
<1>1. UNCHANGED <<db, swept, vectors, bare>> /\ lock \in {None, s} /\ tx[s].op = "merge"
      /\ stale' = (stale \/ ~ {w, l} \subseteq Live(Visible))
  BY DEF MergePair, Locked
<1>2. PICK order : work' = Merged(Visible, w, l, order)
  BY DEF MergePair
<1> SUFFICES ASSUME ~ stale', ~ swept
             PROVE  RowsIndexed'
  BY <1>1 DEF RowsIndexed
<1>3. ~ stale /\ w \in Live(Visible) /\ l \in Live(Visible)
  BY <1>1
<1>4. Visible \in Databases
  BY VisibleTyped DEF Ordered
<1>5. /\ work'.known = Visible.known /\ work'.gone = Visible.gone \cup {l}
      /\ \A e \in Entities : work'.into[e] = IF e = l THEN w ELSE Visible.into[e]
  BY <1>2, <1>4 DEF Merged, Attached, Databases
<1>6. w # None /\ l \in Entities
  BY <1>3, <1>4, NoneAssumption DEF Live, Databases
<1>7. Live(work') \subseteq Live(Visible) /\ MergedAway(work') \subseteq MergedAway(Visible) \cup Live(Visible)
  BY <1>3, <1>4, <1>5, <1>6 DEF Live, MergedAway, Databases
<1>8. Live(Visible) \subseteq Live(db) /\ MergedAway(Visible) \subseteq MergedAway(db) \cup Live(db)
  <2>1. CASE lock = None
    BY <2>1, VisibleRows DEF Live, MergedAway
  <2>2. CASE lock = s
    <3>1. lock # None
      BY <2>2, NoneAssumption
    <3>2. Live(Visible) = Live(work) /\ MergedAway(Visible) = MergedAway(work)
      BY <3>1, VisibleRows DEF Live, MergedAway
    <3> QED
      BY <1>1, <1>3, <2>2, <3>2 DEF RowsIndexed
  <2> QED
    BY <1>1, <2>1, <2>2
<1> QED
  BY <1>1, <1>3, <1>7, <1>8 DEF RowsIndexed

(* A rollback brings the loser back.                                                             *)
LEMMA RollbackGraphIndexed ==
  ASSUME Ordered, RowsIndexed, NEW s \in Sessions, RollbackGraph(s)
  PROVE  RowsIndexed'
<1> DEFINE entry == log[tx[s].of]
           l == entry.loser
<1>1. UNCHANGED <<db, swept, vectors, bare>> /\ lock' = s /\ tx'[s].op = "commit"
      /\ work' = RolledBack(db, entry, tx[s])
      /\ stale' = (stale \/ ~ entry.applied \/ tx[s].into # entry.winner \/ tx[s].into # db.into[l])
  BY DEF RollbackGraph, Locked, Ordered, TypeOK, Jobs
<1> SUFFICES ASSUME ~ stale', ~ swept
             PROVE  RowsIndexed'
  BY <1>1 DEF RowsIndexed
<1>2. tx[s].of \in DOMAIN log
  BY DEF RollbackGraph, Ordered, TypeOK
<1>3. entry \in Logs /\ db \in Databases
  BY <1>2 DEF Ordered, TypeOK
<1>4. l \in Entities /\ entry.winner # None
  BY <1>3, NoneAssumption DEF Logs
<1> HIDE DEF l
<1>5. ~ stale /\ tx[s].into # None /\ db.into[l] # None
  BY <1>1, <1>4
<1>6. /\ work'.known = db.known /\ db.gone \ {l} \subseteq work'.gone
      /\ \A e \in Entities : work'.into[e] = IF e = l THEN None ELSE db.into[e]
  BY <1>1, <1>3, <1>5 DEF RolledBack, Attached, Databases, l
<1>7. Live(work') \subseteq Live(db) \cup MergedAway(db) /\ MergedAway(work') \subseteq MergedAway(db)
  BY <1>3, <1>4, <1>5, <1>6 DEF Live, MergedAway, Databases
<1>8. \A o \in Sessions : lock' = o => tx'[o].op # "merge"
  BY <1>1
<1> QED
  BY <1>1, <1>5, <1>7, <1>8 DEF RowsIndexed

LEMMA CommitIndexed ==
  ASSUME Ordered, RowsIndexed, NEW s \in Sessions, Commit(s)
  PROVE  RowsIndexed'
<1>1. UNCHANGED <<vectors, bare, stale, swept>> /\ db' = Visible /\ lock' = None /\ work' = Empty
  BY DEF Commit, Unlocked
<1> SUFFICES ASSUME ~ stale, ~ swept
             PROVE  RowsIndexed'
  BY <1>1 DEF RowsIndexed
<1>2. lock # None
  BY NoneAssumption DEF Commit, Ordered, LockHeld
<1>3. Live(db') = Live(work) /\ MergedAway(db') = MergedAway(work)
  BY <1>1, <1>2, VisibleRows DEF Live, MergedAway
<1>4. Live(work') = {} /\ MergedAway(work') = {}
  BY <1>1, EmptyRows
<1>5. \A o \in Sessions : lock' # o
  BY <1>1, NoneAssumption
<1> QED
  BY <1>1, <1>3, <1>4, <1>5 DEF RowsIndexed

LEMMA RollbackIndexed ==
  ASSUME Ordered, RowsIndexed, NEW s \in Sessions, Rollback(s)
  PROVE  RowsIndexed'
<1>1. UNCHANGED <<db, vectors, bare, stale, swept>> /\ tx' = [tx EXCEPT ![s] = Idle]
  BY DEF Rollback
<1>2. CASE lock = s
  <2>1. lock' = None /\ work' = Empty
    BY <1>2 DEF Rollback, Unlocked
  <2>2. Live(work') = {} /\ MergedAway(work') = {}
    BY <2>1, EmptyRows
  <2>3. \A o \in Sessions : lock' # o
    BY <2>1, NoneAssumption
  <2>4. Live(db') = Live(db) /\ MergedAway(db') = MergedAway(db)
    BY <1>1
  <2> QED
    BY <1>1, <2>2, <2>3, <2>4 DEF RowsIndexed
<1>3. CASE lock # s
  <2>1. UNCHANGED <<lock, work>> /\ \A o \in Sessions \ {s} : tx'[o] = tx[o]
    BY <1>1, <1>3 DEF Rollback, Ordered, TypeOK
  <2> QED
    BY <1>1, <1>3, <2>1 DEF RowsIndexed, Live, MergedAway
<1> QED
  BY <1>2, <1>3

(* Nobody works while the script takes entities away, and the vectors it takes later are of the   *)
(* ones that are still gone.                                                                     *)
LEMMA OthersIndexed ==
  ASSUME Ordered, RowsIndexed,
         (\E a \in Assets, cleaned \in BOOLEAN : DeleteAsset(a, cleaned))
           \/ ClearSpace \/ Sweep \/ SweepVectors
  PROVE  RowsIndexed'
<1>1. CASE (\E a \in Assets, cleaned \in BOOLEAN : DeleteAsset(a, cleaned)) \/ ClearSpace
  <2>1. UNCHANGED <<lock, work, tx, stale, swept, vectors, bare>>
    BY <1>1 DEF DeleteAsset, ClearSpace
  <2>2. db'.known = db.known /\ db'.gone = db.gone /\ db'.into = db.into
    BY <1>1 DEF DeleteAsset, ClearSpace, Ordered, TypeOK, Databases
  <2> QED
    BY <2>1, <2>2 DEF RowsIndexed, Live, MergedAway
<1>2. CASE Sweep
  <2>1. UNCHANGED <<lock, work, tx, stale, vectors, bare>> /\ (swept \/ lock # None => swept')
    BY <1>2 DEF Sweep
  <2> SUFFICES ASSUME ~ stale, ~ swept, lock = None
               PROVE  RowsIndexed'
    BY <2>1 DEF RowsIndexed
  <2>2. work = Empty
    BY DEF Ordered, LockHeld
  <2>3. db'.known = db.known /\ db.gone \subseteq db'.gone /\ db'.into = db.into
    BY <1>2, SweepDoes DEF Ordered
  <2>4. Live(db') \subseteq Live(db) /\ MergedAway(db') = MergedAway(db)
    BY <2>3 DEF Live, MergedAway
  <2>5. Live(work') = {} /\ MergedAway(work') = {}
    BY <2>1, <2>2, EmptyRows
  <2> QED
    BY <2>1, <2>4, <2>5 DEF RowsIndexed
<1>3. CASE SweepVectors
  <2>1. UNCHANGED <<db, lock, work, tx, stale, bare>> /\ vectors' = vectors \ doomed
    BY <1>3 DEF SweepVectors
  <2> DEFINE across == doomed \cap Live(work) # {} \/ ~ doomed \subseteq {e \in db.gone : db.into[e] = None}
  <2>4. swept' = (swept \/ across)
    BY <1>3 DEF SweepVectors
  <2> SUFFICES ASSUME ~ stale, ~ swept, ~ across
               PROVE  RowsIndexed'
    <3> HIDE DEF across
    <3> QED
      BY <2>1, <2>4 DEF RowsIndexed
  <2>2. doomed \cap (Live(db) \cup MergedAway(db)) = {}
    BY DEF Live, MergedAway
  <2>3. UNCHANGED <<Live(db), Live(work), MergedAway(db), MergedAway(work)>>
    BY <2>1 DEF Live, MergedAway
  <2> QED
    BY <2>1, <2>2, <2>3 DEF RowsIndexed
<1> QED
  BY <1>1, <1>2, <1>3

LEMMA NextIndexed ==
  ASSUME Ordered, HolderWorks, RowsIndexed, [Next]_vars
  PROVE  RowsIndexed'
<1>1. CASE \E s \in Sessions : \/ \E a \in Assets : BeginWrite(s, a)
                              \/ BeginMerge(s)
                              \/ \E i \in DOMAIN log : BeginRollback(s, i)
  BY <1>1, BeginIndexed
<1>2. CASE \E s \in Sessions : WriteGraph(s)
  BY <1>2, WriteGraphIndexed
<1>3. CASE \E s \in Sessions : \E pair \in tx[s].pairs : MergePair(s, pair)
  BY <1>3, MergePairIndexed
<1>4. CASE \E s \in Sessions : RollbackGraph(s)
  BY <1>4, RollbackGraphIndexed
<1>5. CASE \E s \in Sessions : Commit(s)
  BY <1>5, CommitIndexed
<1>6. CASE \E s \in Sessions : Rollback(s)
  BY <1>6, RollbackIndexed
<1>7. CASE (\E a \in Assets, cleaned \in BOOLEAN : DeleteAsset(a, cleaned))
              \/ ClearSpace \/ Sweep \/ SweepVectors
  BY <1>7, OthersIndexed
<1>8. CASE UNCHANGED vars
  BY <1>8 DEF vars, RowsIndexed, Live, MergedAway
<1>9. CASE Reads
  BY <1>9, ReadsDo DEF RowsIndexed, Live, MergedAway
<1> QED
  BY <1>1, <1>2, <1>3, <1>4, <1>5, <1>6, <1>7, <1>8, <1>9 DEF Next, Reads

(* A living entity has its vector, or has been given up where a call failed or a name led to it    *)
(* through merges, whichever way it came to life: written, swept and written again, or rolled      *)
(* back.                                                                                         *)
THEOREM LivingAreIndexed == Spec => []LivingHaveVectors
<1>1. Init => Ordered /\ HolderWorks /\ RowsIndexed
  BY InitOrdered, InitIndexed
<1>2. Ordered /\ HolderWorks /\ RowsIndexed /\ TypeOK' /\ [Next]_vars
        => (Ordered /\ HolderWorks /\ RowsIndexed)'
  BY NextOrdered, NextHolderWorks, NextIndexed DEF Ordered
<1>3. RowsIndexed => LivingHaveVectors
  BY DEF RowsIndexed, LivingHaveVectors
<1> QED
  BY <1>1, <1>2, <1>3, EntityGraphTypeCorrect, PTL DEF Spec
----------------------------------------------------------------------------
(* A merge and the evidence of edges.  The edge of the loser to another entity comes to the edge   *)
(* of the winner, if that points the same way, and else beside it.                               *)
Linking(edges, x, y) == {edge \in edges : Ends(edge) = {x, y}}

LEMMA MovedKeepsEvidence ==
  ASSUME NEW g \in Databases, NEW w \in Entities, NEW l \in Entities, w # l,
         NEW order \in Orders(Apart(g, w, l)), NEW other \in Entities \ {w, l},
         NEW x \in g.edges, Ends(x) = {l, other},
         \A edge \in g.edges : Ends(edge) = {l, other} => edge = x,
         Linking(g.edges, w, other) = {} \/ \E y : Linking(g.edges, w, other) = {y}
  PROVE  x.of \cup Evidence(Linking(g.edges, w, other))
           \subseteq Evidence(Linking(MovedEdges(g, w, l, order), w, other))
<1> DEFINE Moved(edge) == <<IF edge.h = l THEN w ELSE edge.h, IF edge.t = l THEN w ELSE edge.t>>
           theirs == {edge \in At(g, l) : Other(edge, l) # w}
           mine == At(g, w) \ At(g, l)
           places == {Moved(edge) : edge \in theirs}
           Coming(p) == {edge \in theirs : Moved(edge) = p}
           There(p) == {edge \in mine : <<edge.h, edge.t>> = p}
           Added(p) == IF There(p) = {} THEN Coming(p) \ {First(Coming(p), order)} ELSE Coming(p)
           Total(p) == Evidence(Added(p)) \cup
                       IF There(p) = {} THEN {} ELSE Last(There(p), order).of
           Updates(edge) == {p \in places : Added(p) # {} /\ {p[1], p[2]} = Ends(edge)}
           firsts(edge) == {First(Added(p), order) : p \in Updates(edge)}
           Updated(edge) ==
               IF Updates(edge) = {} THEN edge
               ELSE [edge EXCEPT !.of = Total(Moved(Last(firsts(edge), order)))]
           created == {[h |-> p[1], t |-> p[2], of |-> First(Coming(p), order).of, copy |-> 1] :
                           p \in {p \in places : There(p) = {}}}
           both == Apart(g, w, l)
           after == MovedEdges(g, w, l, order)
           result == {edge \in after : Ends(edge) = {w, other}}
           q == Moved(x)
           Y == {edge \in g.edges : Ends(edge) = {w, other}}
<1>1. after = (g.edges \ (mine \cup At(g, l))) \cup {Updated(edge) : edge \in mine} \cup created
  BY DEF MovedEdges
<1>2. both \subseteq g.edges /\ g.edges \subseteq Edges /\ theirs \subseteq both /\ mine \subseteq both
  BY DEF At, Apart, Other, Ends, Databases
<1>3. \A S \in SUBSET both : S # {} => First(S, order) \in S /\ Last(S, order) \in S
  <2>1. Cardinality(both) \in Nat
    BY <1>2, EdgesAreFinite
  <2>2. order \in [both -> 1..Cardinality(both)]
    BY DEF Orders
  <2> QED
    BY <2>1, <2>2, FirstAndLast
<1>4. x \in g.edges /\ Ends(x) = {l, other} /\ other # w /\ other # l
  OBVIOUS
<1>5. x \in theirs /\ {q[1], q[2]} = {w, other}
  BY <1>4 DEF At, Other, Ends
<1>6. ASSUME NEW edge \in theirs, {Moved(edge)[1], Moved(edge)[2]} = {w, other}
      PROVE  edge = x
  <2>1. edge \in g.edges /\ (edge.h = l \/ edge.t = l)
    BY DEF At, Ends
  <2>2. Ends(edge) = {l, other}
    BY <1>6, <2>1 DEF Ends
  <2> QED
    BY <2>1, <2>2
<1> HIDE DEF after, theirs, mine, both
<1>7. Coming(q) = {x}
  BY <1>5, <1>6
<1> HIDE DEF Moved
<1>8. q \in places /\ First({x}, order) = x /\ Last({x}, order) = x
  BY <1>2, <1>3, <1>5
<1>9. \A p \in places : {p[1], p[2]} = {w, other} => p = q
  BY <1>6
<1> HIDE DEF places, Coming, q
<1>10. There(q) = {} => \E edge \in result : edge.of = x.of
  <2> SUFFICES ASSUME There(q) = {} PROVE \E edge \in result : edge.of = x.of
    OBVIOUS
  <2> DEFINE new == [h |-> q[1], t |-> q[2], of |-> x.of, copy |-> 1]
  <2>1. new \in created
    BY <1>7, <1>8
  <2>2. Ends(new) = {w, other}
    BY <1>5 DEF Ends
  <2> HIDE DEF created, new
  <2>3. new \in after
    BY <1>1, <2>1
  <2> QED
    BY <2>2, <2>3 DEF new
<1>11. ASSUME NEW y, Y = {y}
       PROVE  /\ y \in mine /\ Ends(y) = {w, other} /\ Updated(y) \in after
              /\ There(q) = IF <<y.h, y.t>> = q THEN {y} ELSE {}
  <2>1. y \in g.edges /\ Ends(y) = {w, other}
    BY <1>11
  <2>2. y \in mine
    BY <1>4, <2>1 DEF mine, At
  <2>3. Updated(y) \in after
    <3> HIDE DEF Updated, created
    <3> QED
      BY <1>1, <2>2
  <2>4. \A edge \in There(q) : edge = y
    <3> TAKE edge \in There(q)
    <3>1. edge \in g.edges /\ edge.h = q[1] /\ edge.t = q[2]
      BY <1>2
    <3>2. Ends(edge) = {w, other}
      BY <1>5, <3>1 DEF Ends
    <3> QED
      BY <1>11, <3>1, <3>2
  <2>5. There(q) = IF <<y.h, y.t>> = q THEN {y} ELSE {}
    BY <2>2, <2>4
  <2> HIDE DEF Updated, There
  <2> QED
    BY <2>1, <2>2, <2>3, <2>5
<1>12. ASSUME Y = {}
       PROVE  x.of \cup Evidence(Y) \subseteq Evidence(result)
  <2>1. There(q) = {}
    <3> SUFFICES ASSUME NEW edge \in There(q) PROVE FALSE
      OBVIOUS
    <3>1. edge \in g.edges /\ edge.h = q[1] /\ edge.t = q[2]
      BY <1>2
    <3>2. Ends(edge) = {w, other}
      BY <1>5, <3>1 DEF Ends
    <3> QED
      BY <1>12, <3>1, <3>2
  <2> HIDE DEF There, result
  <2>2. Evidence(Y) = {}
    BY <1>12 DEF Evidence
  <2>3. x.of \subseteq Evidence(result)
    BY <1>10, <2>1 DEF Evidence
  <2> HIDE DEF Y
  <2> QED
    BY <2>2, <2>3
<1>13. ASSUME NEW y, Y = {y}, <<y.h, y.t>> = q
       PROVE  x.of \cup Evidence(Y) \subseteq Evidence(result)
  <2>1. There(q) = {y}
    BY <1>11, <1>13
  <2>2. Added(q) = {x} /\ Total(q) = Evidence({x}) \cup Last({y}, order).of
    BY <1>7, <2>1
  <2>3. Last({y}, order) = y
    BY <1>2, <1>3, <1>11, <1>13
  <2>4. Updates(y) = {q}
    <3> HIDE DEF Added
    <3> QED
      BY <1>5, <1>8, <1>9, <1>11, <1>13, <2>2
  <2>5. firsts(y) = {x}
    <3>1. First(Added(q), order) = x
      BY <1>8, <2>2
    <3> HIDE DEF Added, Updates
    <3> QED
      BY <2>4, <3>1
  <2>6. Updated(y) = [y EXCEPT !.of = Total(q)]
    <3> HIDE DEF firsts, Updates, Total
    <3> QED
      BY <1>8, <2>4, <2>5 DEF q
  <2> HIDE DEF Total, Updated
  <2>7. y \in Edges
    BY <1>2, <1>11, <1>13
  <2>8. Updated(y).of = Total(q) /\ Ends(Updated(y)) = Ends(y)
    BY <2>6, <2>7 DEF Ends, Edges
  <2>9. Updated(y) \in result
    BY <1>11, <1>13, <2>8
  <2>10. Total(q) = x.of \cup Evidence(Y)
    BY <1>13, <2>2, <2>3 DEF Evidence
  <2> HIDE DEF result
  <2> QED
    BY <2>8, <2>9, <2>10 DEF Evidence
<1>14. ASSUME NEW y, Y = {y}, <<y.h, y.t>> # q
       PROVE  x.of \cup Evidence(Y) \subseteq Evidence(result)
  <2>1. There(q) = {}
    BY <1>11, <1>14
  <2>2. Added(q) = {}
    BY <1>7, <1>8, <2>1
  <2>3. Updates(y) = {}
    <3> HIDE DEF Added
    <3> QED
      BY <1>9, <1>11, <1>14, <2>2
  <2>4. Updated(y) = y
    <3> HIDE DEF Updates
    <3> QED
      BY <2>3
  <2> HIDE DEF Updated
  <2>5. y \in result
    BY <1>11, <1>14, <2>4
  <2> HIDE DEF result, There
  <2>6. Evidence(Y) = y.of
    BY <1>14 DEF Evidence
  <2> QED
    BY <1>10, <2>1, <2>5, <2>6 DEF Evidence
<1>15. Linking(g.edges, w, other) = Y /\ Linking(MovedEdges(g, w, l, order), w, other) = result
  BY DEF Linking, result, after
<1> HIDE DEF Y, result
<1> QED
  BY <1>12, <1>13, <1>14, <1>15

LEMMA MergeKeeps ==
  ASSUME TypeOK, PairsDiffer, NEW s \in Sessions, NEW pair \in tx[s].pairs, MergePair(s, pair),
         {pair[1], pair[2]} \subseteq Visible.nodes,
         NEW other \in Entities \ {pair[1], pair[2]},
         Cardinality(Linking(Visible.edges, pair[2], other)) = 1,
         Cardinality(Linking(Visible.edges, pair[1], other)) <= 1
  PROVE  Evidence(Linking(Visible.edges, pair[2], other))
           \cup Evidence(Linking(Visible.edges, pair[1], other))
           \subseteq Evidence(Linking(work'.edges, pair[1], other))
<1> DEFINE w == pair[1]
           l == pair[2]
           g == Visible
<1>1. w \in Entities /\ l \in Entities /\ w # l
  BY DEF TypeOK, Jobs, PairsDiffer
<1>2. g \in Databases /\ \A edge \in g.edges : Ends(edge) \subseteq g.nodes
  <2>1. g \in Databases
    BY VisibleTyped
  <2>2. \E n \in Databases : g = Attached(n)
    BY DEF Visible, TypeOK, Databases, Rebased
  <2> QED
    BY <2>1, <2>2 DEF Attached, Databases
<1>3. PICK order \in Orders(Apart(g, w, l)) : work' = Merged(g, w, l, order)
  BY DEF MergePair
<1> HIDE DEF g, w, l
<1>4. \A x : Linking(g.edges, x, other) \subseteq Edges
  BY <1>2 DEF Databases, Linking
<1>5. \A x : IsFiniteSet(Linking(g.edges, x, other)) /\ Cardinality(Linking(g.edges, x, other)) \in Nat
  BY <1>4, EdgesAreFinite
<1>6. Cardinality(Linking(g.edges, l, other)) = 1 /\ Cardinality(Linking(g.edges, w, other)) <= 1
  BY DEF g, w, l
<1>7. PICK x : Linking(g.edges, l, other) = {x}
  BY <1>5, <1>6, FS_Singleton
<1>8. Linking(g.edges, w, other) = {} \/ \E y : Linking(g.edges, w, other) = {y}
  <2>1. Cardinality(Linking(g.edges, w, other)) = 0 \/ Cardinality(Linking(g.edges, w, other)) = 1
    BY <1>5, <1>6
  <2> QED
    BY <1>5, <2>1, FS_Singleton, FS_EmptySet
<1>9. /\ x \in g.edges /\ Ends(x) = {l, other}
      /\ \A edge \in g.edges : Ends(edge) = {l, other} => edge = x
  BY <1>7 DEF Linking
<1>10. other \in Entities \ {w, l} /\ {w, l} \subseteq g.nodes
  BY DEF g, w, l
<1>11. x.of \cup Evidence(Linking(g.edges, w, other))
         \subseteq Evidence(Linking(MovedEdges(g, w, l, order), w, other))
  BY <1>1, <1>2, <1>3, <1>8, <1>9, <1>10, MovedKeepsEvidence
<1>12. other \in g.nodes \ {l} /\ w \in g.nodes \ {l}
  BY <1>1, <1>2, <1>9, <1>10
<1>13. work'.edges = {edge \in MovedEdges(g, w, l, order) : Ends(edge) \subseteq g.nodes \ {l}}
  BY <1>2, <1>3 DEF Merged, Attached, Databases
<1>14. Linking(MovedEdges(g, w, l, order), w, other) \subseteq Linking(work'.edges, w, other)
  BY <1>12, <1>13 DEF Linking
<1>15. Evidence(Linking(g.edges, l, other)) = x.of
  BY <1>7 DEF Evidence
<1>16. Evidence(Linking(g.edges, l, other)) \cup Evidence(Linking(g.edges, w, other))
         \subseteq Evidence(Linking(work'.edges, w, other))
  BY <1>11, <1>14, <1>15 DEF Evidence
<1> QED
  BY <1>16 DEF g, w, l

(* The next pairs of a session are those it had, or those it begins with: one that is gone was    *)
(* merged, unless the session has ended.                                                         *)
LEMMA PairIsMerged ==
  ASSUME TypeOK, [Next]_vars, NEW s \in Sessions, NEW pair \in tx[s].pairs \ tx'[s].pairs,
         tx'[s] # Idle
  PROVE  MergePair(s, pair)
<1>1. tx' # tx
  OBVIOUS
<1>2. PICK o \in Sessions :
         \/ \E a \in Assets : BeginWrite(o, a)
         \/ WriteGraph(o)
         \/ BeginMerge(o)
         \/ \E p \in tx[o].pairs : MergePair(o, p)
         \/ \E i \in DOMAIN log : BeginRollback(o, i)
         \/ RollbackGraph(o)
         \/ Commit(o)
         \/ Rollback(o)
  BY <1>1, ReadsDo DEF Next, vars, Reads, DeleteAsset, ClearSpace, Sweep, SweepVectors
<1>3. CASE (\E a \in Assets : BeginWrite(o, a)) \/ BeginMerge(o) \/ \E i \in DOMAIN log : BeginRollback(o, i)
  <2>1. tx[o] = Idle /\ \A p \in Sessions \ {o} : tx'[p] = tx[p]
    BY <1>3 DEF BeginWrite, BeginMerge, BeginRollback, TypeOK
  <2>2. Idle.pairs = {}
    BY DEF Idle
  <2> QED
    BY <2>1, <2>2
<1>4. CASE WriteGraph(o) \/ RollbackGraph(o)
  <2>1. tx' = [tx EXCEPT ![o].op = "commit"]
    BY <1>4 DEF WriteGraph, RollbackGraph
  <2> QED
    BY <2>1 DEF TypeOK, Jobs
<1>5. CASE Commit(o) \/ Rollback(o)
  BY <1>5 DEF Commit, Rollback, TypeOK
<1>6. CASE \E p \in tx[o].pairs : MergePair(o, p)
  <2>1. PICK p \in tx[o].pairs : MergePair(o, p)
    BY <1>6
  <2> DEFINE entry == [winner |-> p[1], loser |-> p[2], applied |-> TRUE,
                       mine |-> At(Visible, p[1]), theirs |-> At(Visible, p[2])]
  <2>2. tx' = [tx EXCEPT ![o].pairs = @ \ {p},
                         ![o].op = IF tx[o].pairs = {p} THEN "commit" ELSE "merge",
                         ![o].merges = Append(@, entry)]
    BY <2>1 DEF MergePair
  <2> HIDE DEF entry
  <2>3. s = o /\ tx'[o].pairs = tx[o].pairs \ {p}
    BY <2>2 DEF TypeOK, Jobs
  <2> QED
    BY <2>1, <2>3
<1> QED
  BY <1>2, <1>3, <1>4, <1>5, <1>6

(* A merge loses no evidence of the loser's edge to an entity, nor of the winner's, where each has *)
(* at most one.                                                                                  *)
THEOREM MergesKeepEvidence == Spec => MergeKeepsEvidence
<1> DEFINE Step ==
      \A s \in Sessions : \A pair \in tx[s].pairs \ tx'[s].pairs :
         LET w == pair[1]
             l == pair[2]
             Between(g, x, y) == {edge \in g.edges : Ends(edge) = {x, y}}
         IN (tx'[s] # Idle /\ {w, l} \subseteq Visible.nodes) =>
              \A other \in Entities \ {w, l} :
                 (Cardinality(Between(Visible, l, other)) = 1 /\ Cardinality(Between(Visible, w, other)) <= 1)
                   => Evidence(Between(Visible, l, other)) \cup Evidence(Between(Visible, w, other))
                         \subseteq Evidence(Between(work', w, other))
<1>1. Ordered /\ [Next]_vars => Step
  <2> SUFFICES ASSUME Ordered, [Next]_vars, NEW s \in Sessions, NEW pair \in tx[s].pairs \ tx'[s].pairs,
                      tx'[s] # Idle, {pair[1], pair[2]} \subseteq Visible.nodes,
                      NEW other \in Entities \ {pair[1], pair[2]},
                      Cardinality(Linking(Visible.edges, pair[2], other)) = 1,
                      Cardinality(Linking(Visible.edges, pair[1], other)) <= 1
               PROVE  Evidence(Linking(Visible.edges, pair[2], other))
                        \cup Evidence(Linking(Visible.edges, pair[1], other))
                        \subseteq Evidence(Linking(work'.edges, pair[1], other))
    BY DEF Linking
  <2>1. MergePair(s, pair)
    BY PairIsMerged DEF Ordered
  <2> QED
    BY <2>1, MergeKeeps DEF Ordered
<1>2. Init => Ordered
  BY InitOrdered
<1>3. Ordered /\ TypeOK' /\ [Next]_vars => Ordered'
  BY NextOrdered
<1>4. MergeKeepsEvidence <=> [][Step]_vars
  BY DEF MergeKeepsEvidence
<1> HIDE DEF Step
<1> QED
  BY <1>1, <1>2, <1>3, <1>4, EntityGraphTypeCorrect, PTL DEF Spec
----------------------------------------------------------------------------
(* Rolling a merge back.  No edge has one entity at both ends, and all have their ends among the   *)
(* nodes.                                                                                        *)
Loopless(edges) == \A edge \in edges : edge.h # edge.t
Whole(g) == \A edge \in g.edges : Ends(edge) \subseteq g.nodes

LEMMA VisibleWhole ==
  ASSUME TypeOK
  PROVE  /\ Visible \in Databases /\ Whole(Visible)
         /\ Loopless(db.edges) /\ Loopless(work.edges) => Loopless(Visible.edges)
         /\ seen = db /\ Whole(work) => Visible = work
         /\ seen = Empty /\ work = Empty /\ Whole(db) => Visible = db
<1> DEFINE n == [nodes |-> Rebased(db.nodes, seen.nodes, work.nodes),
                 edges |-> Rebased(db.edges, seen.edges, work.edges),
                 known |-> Rebased(db.known, seen.known, work.known),
                 gone |-> Rebased(db.gone, seen.gone, work.gone),
                 into |-> [e \in Entities |->
                              IF work.into[e] # seen.into[e] THEN work.into[e] ELSE db.into[e]]]
<1>1. /\ n.nodes = Rebased(db.nodes, seen.nodes, work.nodes)
      /\ n.edges = Rebased(db.edges, seen.edges, work.edges)
      /\ n.known = Rebased(db.known, seen.known, work.known)
      /\ n.gone = Rebased(db.gone, seen.gone, work.gone)
      /\ n.into = [e \in Entities |-> IF work.into[e] # seen.into[e] THEN work.into[e] ELSE db.into[e]]
  OBVIOUS
<1>2. n \in Databases /\ Visible = Attached(n)
  BY DEF Visible, TypeOK, Databases, Rebased
<1> HIDE DEF n
<1>3. Visible \in Databases /\ Whole(Visible) /\ Visible.edges \subseteq n.edges
  BY <1>2 DEF Attached, Databases, Whole
<1>4. Loopless(db.edges) /\ Loopless(work.edges) => Loopless(Visible.edges)
  BY <1>1, <1>3 DEF Loopless, Rebased
<1>5. ASSUME NEW g \in Databases, Whole(g), n.nodes = g.nodes, n.edges = g.edges, n.known = g.known,
             n.gone = g.gone, n.into = g.into
      PROVE  Visible = g
  <2>1. /\ Visible.nodes = g.nodes /\ Visible.edges = g.edges /\ Visible.known = g.known
        /\ Visible.gone = g.gone /\ Visible.into = g.into
    BY <1>2, <1>5 DEF Attached, Databases, Whole
  <2> QED
    BY <1>3, <2>1 DEF Databases
<1>6. db \in Databases /\ work \in Databases /\ db.into \in Maps /\ work.into \in Maps
  BY DEF TypeOK, Databases, Maps
<1>7. ASSUME seen = db, Whole(work)
      PROVE  Visible = work
  <2>1. /\ n.nodes = work.nodes /\ n.edges = work.edges /\ n.known = work.known
        /\ n.gone = work.gone
    BY <1>1, <1>7 DEF Rebased
  <2>2. n.into = work.into
    BY <1>1, <1>6, <1>7 DEF Maps
  <2> QED
    BY <1>5, <1>6, <1>7, <2>1, <2>2
<1>8. ASSUME seen = Empty, work = Empty, Whole(db)
      PROVE  Visible = db
  <2>1. /\ n.nodes = db.nodes /\ n.edges = db.edges /\ n.known = db.known
        /\ n.gone = db.gone
    BY <1>1, <1>8 DEF Rebased
  <2>2. n.into = db.into
    BY <1>1, <1>6, <1>8 DEF Maps
  <2> QED
    BY <1>5, <1>6, <1>8, <2>1, <2>2
<1> QED
  BY <1>3, <1>4, <1>7, <1>8

(* The edges a merge leaves alone are those at neither of the two; the others are at the winner,  *)
(* at places the log entry tells of.                                                             *)
LEMMA MovedEdgesPlaces ==
  ASSUME NEW g \in Databases, NEW w \in Entities, NEW l \in Entities, w # l,
         NEW order \in Orders(Apart(g, w, l)), Loopless(g.edges)
  PROVE  /\ g.edges \ (At(g, w) \cup At(g, l)) \subseteq MovedEdges(g, w, l, order)
         /\ \A edge \in MovedEdges(g, w, l, order) \ (g.edges \ (At(g, w) \cup At(g, l))) :
              /\ w \in Ends(edge) /\ l \notin Ends(edge) /\ edge.h # edge.t
              /\ \/ \E e \in At(g, w) : Ends(edge) = Ends(e)
                 \/ \E e \in At(g, l) : Other(e, l) # w /\ Ends(edge) = {w, Other(e, l)}
<1> DEFINE Moved(edge) == <<IF edge.h = l THEN w ELSE edge.h, IF edge.t = l THEN w ELSE edge.t>>
           theirs == {edge \in At(g, l) : Other(edge, l) # w}
           mine == At(g, w) \ At(g, l)
           places == {Moved(edge) : edge \in theirs}
           Coming(p) == {edge \in theirs : Moved(edge) = p}
           There(p) == {edge \in mine : <<edge.h, edge.t>> = p}
           Added(p) == IF There(p) = {} THEN Coming(p) \ {First(Coming(p), order)} ELSE Coming(p)
           Total(p) == Evidence(Added(p)) \cup
                       IF There(p) = {} THEN {} ELSE Last(There(p), order).of
           Updates(edge) == {p \in places : Added(p) # {} /\ {p[1], p[2]} = Ends(edge)}
           firsts(edge) == {First(Added(p), order) : p \in Updates(edge)}
           Updated(edge) ==
               IF Updates(edge) = {} THEN edge
               ELSE [edge EXCEPT !.of = Total(Moved(Last(firsts(edge), order)))]
           created == {[h |-> p[1], t |-> p[2], of |-> First(Coming(p), order).of, copy |-> 1] :
                           p \in {p \in places : There(p) = {}}}
           kept == g.edges \ (At(g, w) \cup At(g, l))
<1>1. MovedEdges(g, w, l, order) =
        (g.edges \ (mine \cup At(g, l))) \cup {Updated(edge) : edge \in mine} \cup created
  BY DEF MovedEdges
<1>2. g.edges \ (mine \cup At(g, l)) = kept
  OBVIOUS
<1>3. ASSUME NEW edge \in theirs
      PROVE  {Moved(edge)[1], Moved(edge)[2]} = {w, Other(edge, l)} /\ Moved(edge)[1] # Moved(edge)[2]
             /\ l \notin {Moved(edge)[1], Moved(edge)[2]}
  <2>1. edge.h # edge.t /\ (edge.h = l \/ edge.t = l)
    BY DEF Loopless, At, Ends
  <2> QED
    BY <2>1 DEF Other
<1> HIDE DEF Moved
<1>4. ASSUME NEW edge \in created
      PROVE  /\ w \in Ends(edge) /\ l \notin Ends(edge) /\ edge.h # edge.t
             /\ \E e \in At(g, l) : Other(e, l) # w /\ Ends(edge) = {w, Other(e, l)}
  <2>1. PICK x \in theirs : edge.h = Moved(x)[1] /\ edge.t = Moved(x)[2]
    <3> HIDE DEF theirs
    <3>1. PICK p \in places : edge.h = p[1] /\ edge.t = p[2]
      <4> HIDE DEF places, Coming, There
      <4> QED
        OBVIOUS
    <3>2. PICK x \in theirs : p = Moved(x)
      OBVIOUS
    <3> QED
      BY <3>1, <3>2
  <2> HIDE DEF created
  <2> QED
    BY <1>3, <2>1 DEF Ends
<1> HIDE DEF Total, Updates, firsts
<1>5. ASSUME NEW x \in mine
      PROVE  /\ w \in Ends(Updated(x)) /\ l \notin Ends(Updated(x)) /\ Updated(x).h # Updated(x).t
             /\ Ends(Updated(x)) = Ends(x) /\ x \in At(g, w)
  <2>1. x \in Edges /\ w \in Ends(x) /\ l \notin Ends(x) /\ x.h # x.t
    BY DEF At, Databases, Loopless
  <2>2. Updated(x) = x \/ \E p : Updated(x) = [x EXCEPT !.of = Total(p)]
    <3>1. CASE Updates(x) = {}
      BY <3>1
    <3>2. CASE Updates(x) # {}
      <4>1. Updated(x) = [x EXCEPT !.of = Total(Moved(Last(firsts(x), order)))]
        BY <3>2
      <4> HIDE DEF Updated
      <4> QED
        BY <4>1
    <3> QED
      BY <3>1, <3>2
  <2> HIDE DEF Updated
  <2>3. Updated(x).h = x.h /\ Updated(x).t = x.t
    BY <2>1, <2>2 DEF Edges
  <2> QED
    BY <2>1, <2>3 DEF Ends
<1> HIDE DEF created, mine, kept, Updated
<1>6. kept \subseteq MovedEdges(g, w, l, order)
  BY <1>1, <1>2
<1>7. ASSUME NEW edge \in MovedEdges(g, w, l, order) \ kept
      PROVE  /\ w \in Ends(edge) /\ l \notin Ends(edge) /\ edge.h # edge.t
             /\ \/ \E e \in At(g, w) : Ends(edge) = Ends(e)
                \/ \E e \in At(g, l) : Other(e, l) # w /\ Ends(edge) = {w, Other(e, l)}
  <2>1. edge \in created \/ \E x \in mine : edge = Updated(x)
    BY <1>1, <1>2
  <2> QED
    BY <1>4, <1>5, <2>1
<1> QED
  BY <1>6, <1>7 DEF kept

(* after is what the merge that entry tells of has made of before.                                *)
MergeOf(before, after, entry) ==
    LET w == entry.winner
        l == entry.loser
    IN /\ entry.mine = At(before, w) /\ entry.theirs = At(before, l)
       /\ Whole(before) /\ Whole(after)
       /\ after.nodes = before.nodes \ {l}
       /\ after.known = before.known /\ after.gone = before.gone \cup {l}
       /\ after.into = [before.into EXCEPT ![l] = w]
       /\ after.edges \ At(after, w) = before.edges \ (At(before, w) \cup At(before, l))
       /\ \A edge \in At(after, w) : Ends(edge) \in Touched(entry)

LEMMA MergedIsMergeOf ==
  ASSUME NEW g \in Databases, Whole(g), Loopless(g.edges),
         NEW w \in Entities, NEW l \in Entities, w # l,
         NEW order \in Orders(Apart(g, w, l)),
         NEW entry, entry.winner = w, entry.loser = l, entry.mine = At(g, w), entry.theirs = At(g, l)
  PROVE  MergeOf(g, Merged(g, w, l, order), entry) /\ Loopless(Merged(g, w, l, order).edges)
<1> DEFINE n == Merged(g, w, l, order)
           moved == MovedEdges(g, w, l, order)
           kept == g.edges \ (At(g, w) \cup At(g, l))
<1>1. /\ n.nodes = g.nodes \ {l} /\ n.known = g.known /\ n.gone = g.gone \cup {l}
      /\ n.into = [g.into EXCEPT ![l] = w]
      /\ n.edges = {edge \in moved : Ends(edge) \subseteq g.nodes \ {l}}
  BY DEF Merged, Attached, Databases
<1>2. /\ kept \subseteq moved
      /\ \A edge \in moved \ kept :
           /\ w \in Ends(edge) /\ l \notin Ends(edge) /\ edge.h # edge.t
           /\ \/ \E e \in At(g, w) : Ends(edge) = Ends(e)
              \/ \E e \in At(g, l) : Other(e, l) # w /\ Ends(edge) = {w, Other(e, l)}
  BY MovedEdgesPlaces
<1> HIDE DEF n, moved
<1>3. \A edge \in kept : /\ w \notin Ends(edge) /\ l \notin Ends(edge) /\ edge.h # edge.t
                         /\ Ends(edge) \subseteq g.nodes \ {l}
  BY DEF At, Whole, Loopless
<1> HIDE DEF kept
<1>4. kept \subseteq n.edges
  BY <1>1, <1>2, <1>3
<1>5. At(n, w) = n.edges \ kept
  BY <1>1, <1>2, <1>3 DEF At
<1>6. n.edges \ At(n, w) = kept
  BY <1>4, <1>5
<1>7. \A edge \in At(n, w) : Ends(edge) \in Touched(entry)
  <2> TAKE edge \in At(n, w)
  <2>1. edge \in moved \ kept
    BY <1>1, <1>5
  <2> QED
    BY <1>2, <2>1 DEF Touched
<1>8. Loopless(n.edges) /\ Whole(n)
  BY <1>1, <1>2, <1>3 DEF Loopless, Whole
<1>9. MergeOf(g, n, entry)
  BY <1>1, <1>6, <1>7, <1>8 DEF MergeOf, kept
<1> QED
  BY <1>8, <1>9 DEF n

(* A rollback that finds the graph as its merge, a merge of two living entities, left it.          *)
ReadyToUndo(before, after, entry, was) ==
  /\ before \in Databases /\ after \in Databases /\ entry \in Logs /\ was \in Jobs
  /\ MergeOf(before, after, entry) /\ entry.winner # entry.loser
  /\ entry.winner \in Live(before) /\ entry.loser \in Live(before)
  /\ was.gone = TRUE /\ was.into = entry.winner

(* The database n holds what before held, the edges between the two twice, and the loser's node    *)
(* besides.                                                                                       *)
AsItWas(n, before, entry) ==
  /\ n.edges = before.edges \cup Twice(At(before, entry.winner) \cap At(before, entry.loser))
  /\ n.nodes = before.nodes \cup {entry.loser}
  /\ n.known = before.known /\ n.gone = before.gone /\ n.into = before.into

(* Rolled back before anything else, it leaves what was there.                                   *)
LEMMA RolledBackIsBefore ==
  ASSUME NEW before, NEW after, NEW entry, NEW was, ReadyToUndo(before, after, entry, was)
  PROVE  AsItWas(RolledBack(after, entry, was), before, entry)
<1> USE DEF ReadyToUndo
<1> DEFINE n == RolledBack(after, entry, was)
           w == entry.winner
           l == entry.loser
           left == {edge \in after.edges : ~ (w \in Ends(edge) /\ Ends(edge) \in Touched(entry))}
<1>1. w \in Entities /\ l \in Entities /\ w # None /\ before.into[l] = None /\ l \notin before.gone
  BY NoneAssumption DEF Logs, Live
<1>2. /\ entry.mine = At(before, w) /\ entry.theirs = At(before, l)
      /\ Whole(before)
      /\ after.nodes = before.nodes \ {l}
      /\ after.known = before.known /\ after.gone = before.gone \cup {l}
      /\ after.into = [before.into EXCEPT ![l] = w]
      /\ after.edges \ At(after, w) = before.edges \ (At(before, w) \cup At(before, l))
      /\ \A edge \in At(after, w) : Ends(edge) \in Touched(entry)
  BY DEF MergeOf
<1>3. /\ n.nodes = after.nodes \cup {l} /\ n.known = after.known /\ n.gone = after.gone \ {l}
      /\ n.into = [after.into EXCEPT ![l] = None]
      /\ n.edges = {edge \in Created(Created(left, entry.mine), entry.theirs) :
                       Ends(edge) \subseteq after.nodes \cup {l}}
  BY <1>1 DEF RolledBack, Attached, Databases
<1>4. left = after.edges \ At(after, w)
  BY <1>2 DEF At
<1> HIDE DEF n, left, w, l
<1> DEFINE both == At(before, w) \cap At(before, l)
<1>5. Created(Created(left, entry.mine), entry.theirs) = before.edges \cup Twice(both)
  <2>1. left \cup entry.mine \cup entry.theirs = before.edges
    BY <1>2, <1>4 DEF At
  <2>2. left \cap entry.mine = {} /\ left \cap entry.theirs = {}
    BY <1>2, <1>4
  <2>3. Twice({}) = {}
    BY DEF Twice
  <2>4. Created(left, entry.mine) = left \cup entry.mine
    BY <2>2, <2>3 DEF Created
  <2>5. (left \cup entry.mine) \cap entry.theirs = both
    BY <1>2, <2>2
  <2> QED
    BY <2>1, <2>4, <2>5 DEF Created
<1>6. \A edge \in Twice(both) : Ends(edge) \subseteq before.nodes
  <2>1. both \subseteq before.edges /\ before.edges \subseteq Edges
    BY DEF At, Databases
  <2>2. \A edge \in Twice(both) : \E x \in both : Alike(edge, x)
    BY <2>1, TwiceEdges
  <2> QED
    BY <1>2, <2>1, <2>2 DEF Alike, Ends, Whole
<1>7. n.edges = before.edges \cup Twice(both) /\ n.nodes = before.nodes \cup {l}
  BY <1>2, <1>3, <1>5, <1>6 DEF Whole
<1>8. n.known = before.known /\ n.gone = before.gone
  BY <1>1, <1>2, <1>3
<1>9. n.into = before.into
  BY <1>1, <1>2, <1>3 DEF Databases
<1> QED
  BY <1>7, <1>8, <1>9 DEF n, w, l, AsItWas
----------------------------------------------------------------------------
(* What the steps of a session do to what it is doing and to the lock.                           *)
EntryOf(pair) == [winner |-> pair[1], loser |-> pair[2], applied |-> TRUE,
                  mine |-> At(Visible, pair[1]), theirs |-> At(Visible, pair[2])]

LEMMA BeginDoes ==
  ASSUME TypeOK, HolderWorks, NEW s \in Sessions,
         \/ \E a \in Assets : BeginWrite(s, a)
         \/ BeginMerge(s)
         \/ \E i \in DOMAIN log : BeginRollback(s, i)
  PROVE  /\ lock # s /\ UNCHANGED <<db, log, lock, seen, work, undo, stale>>
         /\ \A o \in Sessions \ {s} : tx'[o] = tx[o]
         /\ tx'[s].merges = <<>>
         /\ \/ tx'[s].op \in {"write", "merge"} /\ tx'[s].of = 0
            \/ \E i \in DOMAIN log : /\ tx'[s].op = "rollback" /\ tx'[s].of = i
                                     /\ log[i].loser \in db.gone => tx'[s].gone = TRUE
                                     /\ tx'[s].into = db.into[log[i].loser]
<1>1. /\ tx[s] = Idle /\ UNCHANGED <<db, log, lock, seen, work, undo, stale>>
      /\ \A o \in Sessions \ {s} : tx'[o] = tx[o]
  BY DEF BeginWrite, BeginMerge, BeginRollback, TypeOK
<1>2. lock # s
  BY <1>1 DEF HolderWorks, Idle
<1>3. CASE \E a \in Assets : BeginWrite(s, a)
  <2>1. PICK a \in Assets, facts \in SUBSET Facts :
           tx' = [tx EXCEPT ![s] = [Idle EXCEPT !.op = "write", !.asset = a, !.facts = facts]]
    BY <1>3 DEF BeginWrite
  <2>2. tx'[s] = [Idle EXCEPT !.op = "write", !.asset = a, !.facts = facts]
    BY <2>1 DEF TypeOK
  <2>3. tx'[s].op = "write" /\ tx'[s].of = 0 /\ tx'[s].merges = <<>>
    BY <2>2 DEF Idle
  <2> QED
    BY <1>1, <1>2, <2>3
<1>4. CASE BeginMerge(s)
  <2>1. PICK pairs : tx' = [tx EXCEPT ![s] = [Idle EXCEPT !.op = "merge", !.pairs = pairs]]
    BY <1>4 DEF BeginMerge
  <2>2. tx'[s] = [Idle EXCEPT !.op = "merge", !.pairs = pairs]
    BY <2>1 DEF TypeOK
  <2>3. tx'[s].op = "merge" /\ tx'[s].of = 0 /\ tx'[s].merges = <<>>
    BY <2>2 DEF Idle
  <2> QED
    BY <1>1, <1>2, <2>3
<1>5. CASE \E i \in DOMAIN log : BeginRollback(s, i)
  <2>1. PICK i \in DOMAIN log : BeginRollback(s, i)
    BY <1>5
  <2>2. /\ tx'[s].op = "rollback"
        /\ log[i].loser \in db.gone => tx'[s].gone = TRUE
        /\ tx'[s].into = db.into[log[i].loser]
    BY <2>1, RollbackBegun
  <2> DEFINE was == log[i].loser \in db.gone
             into == db.into[log[i].loser]
  <2>3. tx' = [tx EXCEPT ![s] = [Idle EXCEPT !.op = "rollback", !.of = i, !.gone = was, !.into = into]]
    BY <2>1 DEF BeginRollback
  <2> HIDE DEF was, into
  <2>4. tx'[s] = [Idle EXCEPT !.op = "rollback", !.of = i, !.gone = was, !.into = into]
    BY <2>3 DEF TypeOK
  <2>5. tx'[s].of = i /\ tx'[s].merges = <<>>
    BY <2>4 DEF Idle
  <2> QED
    BY <1>1, <1>2, <2>2, <2>5
<1> QED
  BY <1>3, <1>4, <1>5

LEMMA GraphDoes ==
  ASSUME TypeOK, NEW s \in Sessions, WriteGraph(s) \/ RollbackGraph(s)
  PROVE  /\ lock \in {None, s} /\ lock' = s /\ seen' = db /\ UNCHANGED <<db, log, undo>>
         /\ \A o \in Sessions \ {s} : tx'[o] = tx[o]
         /\ tx[s].op \in {"write", "rollback"} /\ tx'[s].op = "commit"
         /\ tx'[s].of = tx[s].of /\ tx'[s].merges = tx[s].merges
         /\ tx'[s].gone = tx[s].gone /\ tx'[s].into = tx[s].into
         /\ stale => stale'
<1>1. /\ tx' = [tx EXCEPT ![s] = [tx[s] EXCEPT !.op = "commit"]]
      /\ lock \in {None, s} /\ lock' = s /\ seen' = db /\ UNCHANGED <<db, log, undo>>
      /\ tx[s].op \in {"write", "rollback"} /\ (stale => stale')
  <2>1. CASE WriteGraph(s)
    BY <2>1 DEF WriteGraph, Locked
  <2>2. CASE RollbackGraph(s)
    <3>1. stale => stale'
      BY <2>2 DEF RollbackGraph
    <3>2. /\ tx' = [tx EXCEPT ![s] = [tx[s] EXCEPT !.op = "commit"]]
          /\ UNCHANGED <<db, log, undo>> /\ tx[s].op = "rollback"
      BY <2>2 DEF RollbackGraph
    <3> QED
      BY <2>2, <3>1, <3>2 DEF RollbackGraph, Locked
  <2> QED
    BY <2>1, <2>2
<1>2. tx'[s] = [tx[s] EXCEPT !.op = "commit"] /\ \A o \in Sessions \ {s} : tx'[o] = tx[o]
  BY <1>1 DEF TypeOK
<1>3. tx[s] \in Jobs
  BY DEF TypeOK
<1>4. /\ tx'[s].op = "commit"
      /\ tx'[s].of = tx[s].of /\ tx'[s].merges = tx[s].merges
      /\ tx'[s].gone = tx[s].gone /\ tx'[s].into = tx[s].into
  BY <1>2, <1>3 DEF Jobs
<1> QED
  BY <1>1, <1>2, <1>4

LEMMA MergeDoes ==
  ASSUME TypeOK, PairsDiffer, NEW s \in Sessions, NEW pair \in tx[s].pairs, MergePair(s, pair)
  PROVE  /\ lock \in {None, s} /\ lock' = s /\ seen' = db /\ UNCHANGED <<db, log, undo>>
         /\ \A o \in Sessions \ {s} : tx'[o] = tx[o]
         /\ tx[s].op = "merge" /\ tx'[s].op \in {"merge", "commit"} /\ tx'[s].of = tx[s].of
         /\ tx'[s].merges = Append(tx[s].merges, EntryOf(pair))
         /\ tx[s].merges \in Seq(Logs) /\ EntryOf(pair) \in Logs
         /\ pair[1] \in Entities /\ pair[2] \in Entities /\ pair[1] # pair[2]
         /\ stale' = (stale \/ ~ {pair[1], pair[2]} \subseteq Live(Visible))
<1>1. /\ tx' = [tx EXCEPT ![s].pairs = @ \ {pair},
                          ![s].op = IF tx[s].pairs = {pair} THEN "commit" ELSE "merge",
                          ![s].merges = Append(@, EntryOf(pair))]
      /\ lock \in {None, s} /\ lock' = s /\ seen' = db /\ UNCHANGED <<db, log, undo>>
      /\ tx[s].op = "merge"
  BY DEF MergePair, Locked, EntryOf
<1>2. stale' = (stale \/ ~ {pair[1], pair[2]} \subseteq Live(Visible))
  BY DEF MergePair
<1>3. tx[s] \in Jobs /\ pair[1] \in Entities /\ pair[2] \in Entities /\ pair[1] # pair[2]
  BY DEF TypeOK, Jobs, PairsDiffer
<1>4. EntryOf(pair) \in Logs
  <2>1. At(Visible, pair[1]) \subseteq Edges /\ At(Visible, pair[2]) \subseteq Edges
    BY VisibleTyped DEF At, Databases
  <2> QED
    BY <1>3, <2>1 DEF EntryOf, Logs
<1>5. /\ tx'[s].op \in {"merge", "commit"} /\ tx'[s].of = tx[s].of
      /\ tx'[s].merges = Append(tx[s].merges, EntryOf(pair)) /\ tx[s].merges \in Seq(Logs)
      /\ \A o \in Sessions \ {s} : tx'[o] = tx[o]
  BY <1>1, <1>3 DEF TypeOK, Jobs
<1> QED
  BY <1>1, <1>2, <1>3, <1>4, <1>5

LEMMA EndDoes ==
  ASSUME TypeOK, NEW s \in Sessions, Commit(s) \/ Rollback(s)
  PROVE  /\ tx'[s] = Idle /\ \A o \in Sessions \ {s} : tx'[o] = tx[o]
         /\ tx'[s].op = "idle" /\ tx'[s].merges = <<>> /\ tx'[s].of = 0
         /\ stale' = stale
<1>1. tx' = [tx EXCEPT ![s] = Idle] /\ stale' = stale
  BY DEF Commit, Rollback
<1> QED
  BY <1>1 DEF TypeOK, Idle

(* The steps that take no lock.                                                                  *)
Others == (\E a \in Assets, cleaned \in BOOLEAN : DeleteAsset(a, cleaned))
            \/ ClearSpace \/ Reads \/ Sweep \/ SweepVectors

LEMMA OthersDo ==
  ASSUME Others
  PROVE  UNCHANGED <<log, lock, seen, work, tx, stale>> /\ (undo' = undo \/ undo'.at = 0)
<1>1. CASE \E a \in Assets, cleaned \in BOOLEAN : DeleteAsset(a, cleaned)
  BY <1>1 DEF DeleteAsset
<1>2. CASE ClearSpace
  BY <1>2 DEF ClearSpace
<1>3. CASE Sweep
  BY <1>3 DEF Sweep
<1>4. CASE SweepVectors
  BY <1>4 DEF SweepVectors
<1>5. CASE Reads
  BY <1>5, ReadsDo
<1> QED
  BY <1>1, <1>2, <1>3, <1>4, <1>5 DEF Others

(* All that can happen.                                                                          *)
LEMMA StepIs ==
  ASSUME [Next]_vars
  PROVE  \/ UNCHANGED vars
         \/ Others
         \/ \E s \in Sessions :
              \/ \/ \E a \in Assets : BeginWrite(s, a)
                 \/ BeginMerge(s)
                 \/ \E i \in DOMAIN log : BeginRollback(s, i)
              \/ WriteGraph(s) \/ RollbackGraph(s)
              \/ \E pair \in tx[s].pairs : MergePair(s, pair)
              \/ Commit(s) \/ Rollback(s)
  BY DEF Next, Others, Reads
----------------------------------------------------------------------------
(* No loops anywhere: documents state none, and merges and rollbacks make none.                   *)
LooplessLog(entries) ==
    \A i \in 1..Len(entries) : Loopless(entries[i].mine) /\ Loopless(entries[i].theirs)
NoLoops ==
    /\ Loopless(db.edges) /\ Loopless(work.edges)
    /\ LooplessLog(log) /\ \A s \in Sessions : LooplessLog(tx[s].merges)

LEMMA NextNoLoops ==
  ASSUME TypeOK, PairsDiffer, HolderWorks, NoLoops, [Next]_vars
  PROVE  NoLoops'
<1> USE DEF NoLoops
<1>1. LooplessLog(<<>>) /\ Loopless({}) /\ Empty.edges = {}
  BY DEF LooplessLog, Loopless, Empty
<1>2. CASE UNCHANGED vars
  BY <1>2 DEF vars
<1>3. CASE Others
  <2>1. UNCHANGED <<log, work, tx>>
    BY <1>3, OthersDo
  <2>2. db'.edges \subseteq db.edges
    <3>1. CASE \E a \in Assets, cleaned \in BOOLEAN : DeleteAsset(a, cleaned)
      <4>1. PICK a \in Assets, cleaned \in BOOLEAN : DeleteAsset(a, cleaned)
        BY <3>1
      <4>2. db' = db \/ \E bared : db' = [db EXCEPT !.edges = EdgesWithout(a), !.nodes = @ \ bared]
        BY <4>1 DEF DeleteAsset
      <4>3. db \in Databases
        BY DEF TypeOK
      <4> QED
        BY <4>2, <4>3 DEF Databases, EdgesWithout
    <3>2. CASE ClearSpace \/ Sweep \/ SweepVectors
      BY <3>2, SweepDoes DEF ClearSpace, SweepVectors, TypeOK, Databases
    <3>3. CASE Reads
      BY <3>3, ReadsDo
    <3> QED
      BY <1>3, <3>1, <3>2, <3>3 DEF Others
  <2> QED
    BY <2>1, <2>2 DEF Loopless
<1>4. ASSUME NEW s \in Sessions,
             \/ \E a \in Assets : BeginWrite(s, a)
             \/ BeginMerge(s)
             \/ \E i \in DOMAIN log : BeginRollback(s, i)
      PROVE  NoLoops'
  <2>1. /\ UNCHANGED <<db, work, log>> /\ tx'[s].merges = <<>>
        /\ \A o \in Sessions \ {s} : tx'[o] = tx[o]
    BY <1>4, BeginDoes
  <2>2. \A o \in Sessions : LooplessLog(tx'[o].merges)
    BY <1>1, <2>1
  <2> QED
    BY <2>1, <2>2
<1>5. ASSUME NEW s \in Sessions, WriteGraph(s) \/ RollbackGraph(s)
      PROVE  NoLoops'
  <2>1. /\ UNCHANGED <<db, log>> /\ tx'[s].merges = tx[s].merges
        /\ \A o \in Sessions \ {s} : tx'[o] = tx[o]
    BY <1>5, GraphDoes
  <2>2. \A o \in Sessions : LooplessLog(tx'[o].merges)
    BY <2>1
  <2>3. db \in Databases /\ tx[s] \in Jobs
    BY DEF TypeOK
  <2>4. CASE WriteGraph(s)
    <3> DEFINE facts == tx[s].facts
               new == {[h |-> Key(db, f[1]), t |-> Key(db, f[2]), of |-> {tx[s].asset}, copy |-> 1] :
                          f \in {f \in facts : Key(db, f[1]) # Key(db, f[2])}}
    <3>1. work' = Written(db, tx[s].asset, facts)
      BY <2>4 DEF WriteGraph
    <3>2. work'.edges \subseteq db.edges \cup new
      BY <2>3, <3>1 DEF Written, Databases
    <3>3. Loopless(new)
      BY DEF Loopless
    <3> HIDE DEF new
    <3>4. Loopless(work'.edges)
      BY <3>2, <3>3 DEF Loopless
    <3> QED
      BY <2>1, <2>2, <3>4
  <2>5. CASE RollbackGraph(s)
    <3> DEFINE entry == log[tx[s].of]
    <3>1. work' = RolledBack(db, entry, tx[s]) /\ tx[s].of \in 1..Len(log)
      BY <2>5 DEF RollbackGraph, TypeOK
    <3>2. Loopless(entry.mine) /\ Loopless(entry.theirs)
      BY <3>1 DEF LooplessLog
    <3>3. entry \in Logs
      BY <3>1 DEF TypeOK
    <3> HIDE DEF entry
    <3>4. \A x \in work'.edges : \E y \in db.edges \cup entry.mine \cup entry.theirs : Alike(x, y)
      BY <2>3, <3>1, <3>3, RolledBackTyped
    <3>5. Loopless(work'.edges)
      BY <3>2, <3>4 DEF Loopless, Alike
    <3> QED
      BY <2>1, <2>2, <3>5
  <2> QED
    BY <1>5, <2>4, <2>5
<1>6. ASSUME NEW s \in Sessions, NEW pair \in tx[s].pairs, MergePair(s, pair)
      PROVE  NoLoops'
  <2> DEFINE w == pair[1]
             l == pair[2]
  <2>1. /\ UNCHANGED <<db, log>> /\ tx'[s].merges = Append(tx[s].merges, EntryOf(pair))
        /\ \A o \in Sessions \ {s} : tx'[o] = tx[o]
        /\ tx[s].merges \in Seq(Logs) /\ EntryOf(pair) \in Logs
        /\ w \in Entities /\ l \in Entities /\ w # l
    BY <1>6, MergeDoes
  <2>2. Visible \in Databases /\ Whole(Visible) /\ Loopless(Visible.edges)
    BY VisibleWhole
  <2>3. PICK order \in Orders(Apart(Visible, w, l)) : work' = Merged(Visible, w, l, order)
    BY <1>6 DEF MergePair
  <2>4. /\ EntryOf(pair).winner = w /\ EntryOf(pair).loser = l
        /\ EntryOf(pair).mine = At(Visible, w) /\ EntryOf(pair).theirs = At(Visible, l)
    BY DEF EntryOf
  <2>5. Loopless(EntryOf(pair).mine) /\ Loopless(EntryOf(pair).theirs)
    BY <2>2, <2>4 DEF Loopless, At
  <2> HIDE DEF w, l
  <2>6. Loopless(work'.edges)
    BY <2>1, <2>2, <2>3, <2>4, MergedIsMergeOf
  <2>7. LooplessLog(tx'[s].merges)
    <3>1. \A i \in 1..Len(tx'[s].merges) :
             tx'[s].merges[i] = IF i <= Len(tx[s].merges) THEN tx[s].merges[i] ELSE EntryOf(pair)
      BY <2>1
    <3>2. \A i \in 1..Len(tx'[s].merges) : i <= Len(tx[s].merges) => i \in 1..Len(tx[s].merges)
      BY <2>1
    <3> QED
      BY <2>5, <3>1, <3>2 DEF LooplessLog
  <2> QED
    BY <2>1, <2>6, <2>7
<1>7. ASSUME NEW s \in Sessions, Commit(s)
      PROVE  NoLoops'
  <2>1. tx'[s].merges = <<>> /\ \A o \in Sessions \ {s} : tx'[o] = tx[o]
    BY <1>7, EndDoes
  <2>2. \A o \in Sessions : LooplessLog(tx'[o].merges)
    BY <1>1, <2>1
  <2> DEFINE of == tx[s].of
             merges == tx[s].merges
             logged == log \o merges
  <2>3. /\ db' = Visible /\ work' = Empty
        /\ log' = IF of = 0 THEN logged ELSE [logged EXCEPT ![of].applied = FALSE]
    BY <1>7 DEF Commit, Unlocked
  <2>4. Loopless(db'.edges) /\ Loopless(work'.edges)
    BY <1>1, <2>3, VisibleWhole
  <2>5. log \in Seq(Logs) /\ merges \in Seq(Logs) /\ of \in 0..Len(log)
    BY DEF TypeOK, Jobs
  <2>6. /\ Len(logged) = Len(log) + Len(merges) /\ logged \in Seq(Logs)
        /\ \A i \in 1..Len(log) + Len(merges) :
              logged[i] = IF i <= Len(log) THEN log[i] ELSE merges[i - Len(log)]
    BY <2>5, ConcatProperties
  <2>7. LooplessLog(log) /\ LooplessLog(merges) /\ Len(log) \in Nat /\ Len(merges) \in Nat
    BY <2>5
  <2> HIDE DEF logged, merges, of
  <2>8. LooplessLog(logged)
    <3> SUFFICES ASSUME NEW i \in 1..Len(logged)
                 PROVE  Loopless(logged[i].mine) /\ Loopless(logged[i].theirs)
      BY DEF LooplessLog
    <3>1. CASE i <= Len(log)
      BY <2>6, <2>7, <3>1 DEF LooplessLog
    <3>2. CASE ~ i <= Len(log)
      <4>1. i - Len(log) \in 1..Len(merges) /\ logged[i] = merges[i - Len(log)]
        BY <2>6, <2>7, <3>2
      <4> QED
        BY <2>7, <4>1 DEF LooplessLog
    <3> QED
      BY <3>1, <3>2
  <2>9. LooplessLog(log')
    <3>1. CASE of = 0
      BY <2>3, <2>8, <3>1
    <3>2. CASE of # 0
      <4>1. of \in 1..Len(logged)
        BY <2>5, <2>6, <2>7, <3>2
      <4>2. logged[of] \in Logs
        BY <2>6, <4>1
      <4> DEFINE entry == [logged[of] EXCEPT !.applied = FALSE]
      <4>3. entry.mine = logged[of].mine /\ entry.theirs = logged[of].theirs /\ entry \in Logs
        BY <4>2 DEF Logs
      <4>4. log' = [logged EXCEPT ![of] = entry]
        BY <2>3, <3>2
      <4> HIDE DEF entry
      <4>5. Len(log') = Len(logged) /\ \A i \in 1..Len(logged) : log'[i] = IF i = of THEN entry ELSE logged[i]
        BY <2>6, <4>1, <4>3, <4>4
      <4> QED
        BY <2>8, <4>3, <4>5 DEF LooplessLog
    <3> QED
      BY <3>1, <3>2
  <2> QED
    BY <2>2, <2>4, <2>9
<1>8. ASSUME NEW s \in Sessions, Rollback(s)
      PROVE  NoLoops'
  <2>1. tx'[s].merges = <<>> /\ \A o \in Sessions \ {s} : tx'[o] = tx[o]
    BY <1>8, EndDoes
  <2>2. \A o \in Sessions : LooplessLog(tx'[o].merges)
    BY <1>1, <2>1
  <2>3. UNCHANGED <<db, log>> /\ work' \in {work, Empty}
    BY <1>8 DEF Rollback, Unlocked
  <2> QED
    BY <1>1, <2>2, <2>3
<1> QED
  BY <1>2, <1>3, <1>4, <1>5, <1>6, <1>7, <1>8, StepIs
----------------------------------------------------------------------------
(* One session has begun to merge, that with the lock, and rollbacks are told apart by what they   *)
(* roll back.                                                                                    *)
TurnsKept ==
    \A s \in Sessions :
        /\ (tx[s].op \in {"write", "merge"} \/ tx[s].merges # <<>>) => tx[s].of = 0
        /\ lock = s /\ tx[s].op = "merge" => tx[s].merges # <<>>
        /\ lock # s => tx[s].merges = <<>>

LEMMA NextTurns ==
  ASSUME TypeOK, LockHeld, PairsDiffer, HolderWorks, TurnsKept, [Next]_vars
  PROVE  TurnsKept'
<1> USE DEF TurnsKept
<1>1. CASE UNCHANGED vars
  BY <1>1 DEF vars
<1>2. CASE Others
  BY <1>2, OthersDo
<1>3. ASSUME NEW s \in Sessions,
             \/ \E a \in Assets : BeginWrite(s, a)
             \/ BeginMerge(s)
             \/ \E i \in DOMAIN log : BeginRollback(s, i)
      PROVE  TurnsKept'
  <2>1. /\ lock # s /\ lock' = lock /\ tx'[s].merges = <<>>
        /\ \A o \in Sessions \ {s} : tx'[o] = tx[o]
        /\ tx'[s].op \in {"write", "merge"} => tx'[s].of = 0
    BY <1>3, BeginDoes
  <2> QED
    BY <2>1
<1>4. ASSUME NEW s \in Sessions, WriteGraph(s) \/ RollbackGraph(s)
      PROVE  TurnsKept'
  <2>1. /\ lock \in {None, s} /\ lock' = s /\ tx'[s].op = "commit"
        /\ tx'[s].of = tx[s].of /\ tx'[s].merges = tx[s].merges
        /\ \A o \in Sessions \ {s} : tx'[o] = tx[o]
    BY <1>4, GraphDoes
  <2>2. \A o \in Sessions \ {s} : lock # o
    BY <2>1, NoneAssumption
  <2> QED
    BY <2>1, <2>2
<1>5. ASSUME NEW s \in Sessions, NEW pair \in tx[s].pairs, MergePair(s, pair)
      PROVE  TurnsKept'
  <2>1. /\ lock \in {None, s} /\ lock' = s /\ tx[s].op = "merge" /\ tx'[s].of = tx[s].of
        /\ tx'[s].merges = Append(tx[s].merges, EntryOf(pair))
        /\ tx[s].merges \in Seq(Logs) /\ EntryOf(pair) \in Logs
        /\ \A o \in Sessions \ {s} : tx'[o] = tx[o]
    BY <1>5, MergeDoes
  <2>2. \A o \in Sessions \ {s} : lock # o
    BY <2>1, NoneAssumption
  <2>3. tx'[s].merges # <<>>
    BY <2>1, AppendProperties
  <2> QED
    BY <2>1, <2>2, <2>3
<1>6. ASSUME NEW s \in Sessions, Commit(s) \/ Rollback(s)
      PROVE  TurnsKept'
  <2>1. /\ tx'[s].op = "idle" /\ tx'[s].merges = <<>> /\ tx'[s].of = 0
        /\ \A o \in Sessions \ {s} : tx'[o] = tx[o]
    BY <1>6, EndDoes
  <2>2. lock' = lock \/ (lock = s /\ lock' = None)
    <3>1. CASE Commit(s)
      BY <3>1 DEF Commit, LockHeld, Unlocked
    <3>2. CASE Rollback(s)
      BY <3>2 DEF Rollback, Unlocked
    <3> QED
      BY <1>6, <3>1, <3>2
  <2>3. ASSUME NEW o \in Sessions
        PROVE  /\ (tx'[o].op \in {"write", "merge"} \/ tx'[o].merges # <<>>) => tx'[o].of = 0
               /\ lock' = o /\ tx'[o].op = "merge" => tx'[o].merges # <<>>
               /\ lock' # o => tx'[o].merges = <<>>
    BY <2>1, <2>2, NoneAssumption
  <2> QED
    BY <2>3
<1> QED
  BY <1>1, <1>2, <1>3, <1>4, <1>5, <1>6, StepIs

(* A single merge, in progress and committed, is what its log entry says, of the graph before it;  *)
(* and a rollback of the merge that was the last change has made of the graph what the entry       *)
(* says.                                                                                         *)
OneMerge(before, after, entry) ==
    /\ entry.winner # entry.loser
    /\ MergeOf(before, after, entry)
    /\ stale \/ {entry.winner, entry.loser} \subseteq Live(before)
FirstMergeFits ==
    \A s \in Sessions : (lock = s /\ Len(tx[s].merges) = 1) => OneMerge(seen, work, tx[s].merges[1])
LastMergeFits ==
    Whole(db) /\ (undo.at # 0 => OneMerge(undo.before, db, log[undo.at]))
UndoFits ==
    \A s \in Sessions : (undo.at # 0 /\ tx[s].of = undo.at) =>
        /\ tx[s].gone = TRUE /\ tx[s].into = log[undo.at].winner
        /\ tx[s].op = "commit" => /\ seen = db
                                  /\ work = RolledBack(db, log[undo.at], tx[s])

LEMMA NextFirstMergeFits ==
  ASSUME Ordered, HolderWorks, NoLoops, TurnsKept, LastMergeFits, FirstMergeFits, [Next]_vars
  PROVE  FirstMergeFits'
<1> USE DEF Ordered, FirstMergeFits
<1>1. CASE UNCHANGED vars
  BY <1>1 DEF vars, OneMerge
<1>2. CASE Others
  BY <1>2, OthersDo DEF OneMerge
<1>3. ASSUME NEW s \in Sessions,
             \/ \E a \in Assets : BeginWrite(s, a)
             \/ BeginMerge(s)
             \/ \E i \in DOMAIN log : BeginRollback(s, i)
      PROVE  FirstMergeFits'
  <2>1. /\ lock # s /\ UNCHANGED <<lock, seen, work, stale>> /\ \A o \in Sessions \ {s} : tx'[o] = tx[o]
    BY <1>3, BeginDoes
  <2> QED
    BY <2>1 DEF OneMerge
<1>4. ASSUME NEW s \in Sessions, WriteGraph(s) \/ RollbackGraph(s)
      PROVE  FirstMergeFits'
  <2>1. /\ lock' = s /\ tx[s].op \in {"write", "rollback"} /\ tx'[s].merges = tx[s].merges
    BY <1>4, GraphDoes
  <2>2. tx'[s].merges = <<>>
    BY <2>1 DEF HolderWorks, TurnsKept
  <2> QED
    BY <2>1, <2>2
<1>5. ASSUME NEW s \in Sessions, NEW pair \in tx[s].pairs, MergePair(s, pair)
      PROVE  FirstMergeFits'
  <2> DEFINE w == pair[1]
             l == pair[2]
             entry == EntryOf(pair)
  <2>1. /\ lock \in {None, s} /\ lock' = s /\ seen' = db /\ tx[s].op = "merge"
        /\ tx'[s].merges = Append(tx[s].merges, entry)
        /\ tx[s].merges \in Seq(Logs) /\ entry \in Logs
        /\ w \in Entities /\ l \in Entities /\ w # l
        /\ stale' = (stale \/ ~ {w, l} \subseteq Live(Visible))
    BY <1>5, MergeDoes
  <2>2. CASE lock = s
    <3>1. tx[s].merges # <<>>
      BY <2>1, <2>2 DEF TurnsKept
    <3>2. Len(tx'[s].merges) # 1
      BY <2>1, <3>1
    <3> QED
      BY <2>1, <3>2
  <2>3. CASE lock = None
    <3>1. tx[s].merges = <<>>
      BY <2>3, NoneAssumption DEF TurnsKept
    <3>2. tx'[s].merges[1] = entry
      BY <2>1, <3>1
    <3>3. Visible = db /\ Whole(db) /\ Loopless(db.edges) /\ db \in Databases
      BY <2>3, VisibleWhole DEF LockHeld, LastMergeFits, NoLoops, TypeOK
    <3>4. PICK order \in Orders(Apart(db, w, l)) : work' = Merged(db, w, l, order)
      BY <1>5, <3>3 DEF MergePair
    <3>5. entry.winner = w /\ entry.loser = l /\ entry.mine = At(db, w) /\ entry.theirs = At(db, l)
      BY <3>3 DEF EntryOf
    <3> HIDE DEF w, l, entry
    <3>6. MergeOf(db, work', entry)
      BY <2>1, <3>3, <3>4, <3>5, MergedIsMergeOf
    <3>7. entry.winner # entry.loser /\ (stale' \/ {entry.winner, entry.loser} \subseteq Live(db))
      BY <2>1, <3>3, <3>5
    <3>8. MergeOf(seen', work', tx'[s].merges[1])
      BY <2>1, <3>2, <3>6
    <3>9. OneMerge(seen, work, tx[s].merges[1])'
      BY <2>1, <3>2, <3>7, <3>8 DEF OneMerge
    <3> QED
      BY <2>1, <3>9
  <2> QED
    BY <2>1, <2>2, <2>3
<1>6. ASSUME NEW s \in Sessions, Commit(s) \/ Rollback(s)
      PROVE  FirstMergeFits'
  <2>1. /\ tx'[s].merges = <<>> /\ stale' = stale
        /\ \A o \in Sessions \ {s} : tx'[o] = tx[o]
    BY <1>6, EndDoes
  <2>2. lock' = None \/ UNCHANGED <<lock, seen, work>>
    BY <1>6 DEF Commit, Rollback, Unlocked
  <2>3. CASE lock' = None
    BY <2>3, NoneAssumption
  <2>4. CASE UNCHANGED <<lock, seen, work>>
    BY <2>1, <2>4 DEF OneMerge
  <2> QED
    BY <2>2, <2>3, <2>4
<1> QED
  BY <1>1, <1>2, <1>3, <1>4, <1>5, <1>6, StepIs

LEMMA NextLastMergeFits ==
  ASSUME Ordered, HolderWorks, TurnsKept, FirstMergeFits, LastMergeFits, [Next]_vars
  PROVE  LastMergeFits'
<1> USE DEF Ordered, LastMergeFits
<1>1. ASSUME UNCHANGED <<db, log, undo>>, stale => stale'
      PROVE  LastMergeFits'
  BY <1>1 DEF OneMerge
<1>2. CASE UNCHANGED vars
  BY <1>1, <1>2 DEF vars
<1>3. CASE Others
  <2>1. CASE SweepVectors \/ Reads
    BY <1>1, <2>1, ReadsDo DEF SweepVectors
  <2>2. CASE (\E a \in Assets, cleaned \in BOOLEAN : DeleteAsset(a, cleaned)) \/ ClearSpace \/ Sweep
    <3>1. undo'.at = 0
      <4>1. CASE \E a \in Assets, cleaned \in BOOLEAN : DeleteAsset(a, cleaned)
        BY <4>1 DEF DeleteAsset
      <4>2. CASE ClearSpace
        BY <4>2 DEF ClearSpace
      <4>3. CASE Sweep
        BY <4>3 DEF Sweep
      <4> QED
        BY <2>2, <4>1, <4>2, <4>3
    <3>2. Whole(db')
      <4>1. CASE ClearSpace
        BY <4>1 DEF ClearSpace, Whole, TypeOK, Databases
      <4>2. CASE Sweep
        <5>1. db'.edges = db.edges /\ db'.nodes = db.nodes \ (plan.isolated \ Used(db))
          BY <4>2, SweepDoes
        <5> QED
          BY <5>1 DEF Whole, Used
      <4>3. ASSUME NEW a \in Assets, NEW cleaned \in BOOLEAN, DeleteAsset(a, cleaned)
            PROVE  Whole(db')
        <5> DEFINE kept == EdgesWithout(a)
                   touched == UNION {Ends(edge) : edge \in db.edges \ kept}
                   bared == {e \in touched : \A edge \in kept : e \notin Ends(edge)}
        <5>1. db' = db \/ db' = [db EXCEPT !.edges = kept, !.nodes = @ \ bared]
          BY <4>3 DEF DeleteAsset
        <5>2. kept \subseteq db.edges
          BY DEF EdgesWithout
        <5>3. \A edge \in kept : Ends(edge) \cap bared = {}
          OBVIOUS
        <5>4. db \in Databases
          BY DEF TypeOK
        <5> HIDE DEF kept, bared
        <5> QED
          BY <5>1, <5>2, <5>3, <5>4 DEF Whole, Databases
      <4> QED
        BY <2>2, <4>1, <4>2, <4>3
    <3> QED
      BY <3>1, <3>2
  <2> QED
    BY <1>3, <2>1, <2>2 DEF Others
<1>4. ASSUME NEW s \in Sessions,
             \/ \E a \in Assets : BeginWrite(s, a)
             \/ BeginMerge(s)
             \/ \E i \in DOMAIN log : BeginRollback(s, i)
      PROVE  LastMergeFits'
  BY <1>1, <1>4, BeginDoes
<1>5. ASSUME NEW s \in Sessions, WriteGraph(s) \/ RollbackGraph(s)
      PROVE  LastMergeFits'
  BY <1>1, <1>5, GraphDoes
<1>6. ASSUME NEW s \in Sessions, NEW pair \in tx[s].pairs, MergePair(s, pair)
      PROVE  LastMergeFits'
  BY <1>1, <1>6, MergeDoes
<1>7. ASSUME NEW s \in Sessions, Commit(s)
      PROVE  LastMergeFits'
  <2> DEFINE of == tx[s].of
             merges == tx[s].merges
             logged == log \o merges
  <2>1. /\ db' = Visible /\ stale' = stale
        /\ log' = IF of = 0 THEN logged ELSE [logged EXCEPT ![of].applied = FALSE]
        /\ undo' = IF Len(merges) = 1 /\ seen = db THEN [at |-> Len(logged), before |-> db]
                   ELSE [at |-> 0, before |-> Empty]
    BY <1>7 DEF Commit
  <2>2. Whole(db')
    BY <2>1, VisibleWhole
  <2>3. log \in Seq(Logs) /\ merges \in Seq(Logs)
    BY DEF TypeOK, Jobs
  <2>4. Len(logged) = Len(log) + Len(merges)
        /\ \A i \in 1..Len(log) + Len(merges) :
              logged[i] = IF i <= Len(log) THEN log[i] ELSE merges[i - Len(log)]
    BY <2>3, ConcatProperties
  <2>5. lock = s
    BY <1>7 DEF Commit, LockHeld
  <2>6. CASE Len(merges) = 1 /\ seen = db
    <3>1. OneMerge(db, work, merges[1])
      BY <2>5, <2>6 DEF FirstMergeFits
    <3>2. of = 0
      <4>1. merges # <<>>
        BY <2>6
      <4> QED
        BY <4>1 DEF TurnsKept
    <3>3. Visible = work
      BY <2>6, <3>1, VisibleWhole DEF OneMerge, MergeOf
    <3> HIDE DEF logged, merges, of
    <3>4. log'[Len(logged)] = merges[1]
      <4>1. Len(log) \in Nat /\ Len(logged) = Len(log) + 1 /\ Len(logged) \in 1..Len(log) + Len(merges)
        BY <2>3, <2>4, <2>6
      <4>2. logged[Len(logged)] = merges[1]
        BY <2>4, <4>1
      <4> QED
        BY <2>1, <3>2, <4>2
    <3>5. undo'.at = Len(logged) /\ undo'.before = db
      BY <2>1, <2>6
    <3>6. OneMerge(undo.before, db, log[undo.at])'
      BY <2>1, <3>1, <3>3, <3>4, <3>5 DEF OneMerge
    <3> QED
      BY <2>2, <3>6
  <2>7. CASE ~ (Len(merges) = 1 /\ seen = db)
    BY <2>1, <2>2, <2>7
  <2> QED
    BY <2>6, <2>7
<1>8. ASSUME NEW s \in Sessions, Rollback(s)
      PROVE  LastMergeFits'
  BY <1>1, <1>8 DEF Rollback
<1> QED
  BY <1>2, <1>3, <1>4, <1>5, <1>6, <1>7, <1>8, StepIs

LEMMA NextUndoFits ==
  ASSUME Ordered, HolderWorks, TurnsKept, LastMergeFits, UndoFits, [Next]_vars
  PROVE  UndoFits'
<1> USE DEF Ordered, UndoFits
<1>1. CASE UNCHANGED vars
  BY <1>1 DEF vars
<1>2. CASE Others
  <2>1. UNCHANGED <<log, lock, seen, work, tx, stale>>
    BY <1>2, OthersDo
  <2>2. CASE undo'.at = 0
    BY <2>2
  <2>3. CASE undo'.at # 0
    <3>1. SweepVectors \/ Reads
      <4>1. ASSUME NEW a \in Assets, NEW cleaned \in BOOLEAN, DeleteAsset(a, cleaned) PROVE FALSE
        BY <2>3, <4>1 DEF DeleteAsset
      <4>2. ~ ClearSpace
        BY <2>3 DEF ClearSpace
      <4>3. ~ Sweep
        BY <2>3 DEF Sweep
      <4> QED
        BY <1>2, <4>1, <4>2, <4>3 DEF Others
    <3>2. UNCHANGED <<db, undo>>
      BY <3>1, ReadsDo DEF SweepVectors
    <3> QED
      BY <2>1, <3>2
  <2> QED
    BY <2>2, <2>3
<1>3. ASSUME NEW s \in Sessions,
             \/ \E a \in Assets : BeginWrite(s, a)
             \/ BeginMerge(s)
             \/ \E i \in DOMAIN log : BeginRollback(s, i)
      PROVE  UndoFits'
  <2>1. /\ UNCHANGED <<db, log, seen, work, undo>> /\ \A o \in Sessions \ {s} : tx'[o] = tx[o]
    BY <1>3, BeginDoes
  <2>2. \/ tx'[s].of = 0
        \/ \E i \in DOMAIN log : /\ tx'[s].op = "rollback" /\ tx'[s].of = i
                                 /\ log[i].loser \in db.gone => tx'[s].gone = TRUE
                                 /\ tx'[s].into = db.into[log[i].loser]
    BY <1>3, BeginDoes
  <2>3. ASSUME undo.at # 0, tx'[s].of = undo.at
        PROVE  tx'[s].gone = TRUE /\ tx'[s].into = log[undo.at].winner /\ tx'[s].op # "commit"
    <3>1. /\ undo.at \in DOMAIN log /\ tx'[s].op = "rollback"
          /\ log[undo.at].loser \in db.gone => tx'[s].gone = TRUE
          /\ tx'[s].into = db.into[log[undo.at].loser]
      BY <2>2, <2>3
    <3> DEFINE entry == log[undo.at]
    <3>2. entry \in Logs /\ undo.before \in Databases /\ MergeOf(undo.before, db, entry)
      BY <2>3, <3>1 DEF TypeOK, LastMergeFits, OneMerge
    <3> HIDE DEF entry
    <3>3. entry.loser \in db.gone /\ db.into = [undo.before.into EXCEPT ![entry.loser] = entry.winner]
          /\ entry.loser \in Entities
      BY <3>2 DEF MergeOf, Logs
    <3>4. db.into[entry.loser] = entry.winner
      BY <3>2, <3>3 DEF Databases
    <3> QED
      BY <3>1, <3>3, <3>4 DEF entry
  <2> QED
    BY <2>1, <2>3
<1>4. ASSUME NEW s \in Sessions, WriteGraph(s) \/ RollbackGraph(s)
      PROVE  UndoFits'
  <2>1. /\ lock \in {None, s} /\ seen' = db /\ UNCHANGED <<db, log, undo>>
        /\ \A o \in Sessions \ {s} : tx'[o] = tx[o]
        /\ tx[s].op \in {"write", "rollback"}
        /\ tx'[s].of = tx[s].of /\ tx'[s].gone = tx[s].gone /\ tx'[s].into = tx[s].into
    BY <1>4, GraphDoes
  <2>2. \A o \in Sessions \ {s} : tx[o].op # "commit"
    BY <2>1, NoneAssumption DEF LockHeld
  <2>3. ASSUME undo.at # 0, tx[s].of = undo.at
        PROVE  work' = RolledBack(db, log[undo.at], tx'[s])
    <3>1. tx[s].op # "write"
      BY <2>3 DEF TurnsKept
    <3>2. RollbackGraph(s)
      BY <1>4, <3>1 DEF WriteGraph
    <3>3. work' = RolledBack(db, log[undo.at], tx[s])
      BY <2>3, <3>2 DEF RollbackGraph
    <3>4. RolledBack(db, log[undo.at], tx[s]) = RolledBack(db, log[undo.at], tx'[s])
      BY <2>1 DEF RolledBack
    <3> QED
      BY <3>3, <3>4
  <2>4. ASSUME NEW o \in Sessions, undo.at # 0, tx'[o].of = undo.at
        PROVE  /\ tx'[o].gone = TRUE /\ tx'[o].into = log[undo.at].winner
               /\ tx'[o].op = "commit" => /\ seen' = db
                                         /\ work' = RolledBack(db, log[undo.at], tx'[o])
    <3>1. CASE o = s
      BY <2>1, <2>3, <2>4, <3>1
    <3>2. CASE o # s
      BY <2>1, <2>2, <2>4, <3>2
    <3> QED
      BY <3>1, <3>2
  <2> QED
    BY <2>1, <2>4
<1>5. ASSUME NEW s \in Sessions, NEW pair \in tx[s].pairs, MergePair(s, pair)
      PROVE  UndoFits'
  <2>1. /\ lock \in {None, s} /\ UNCHANGED <<db, log, undo>>
        /\ \A o \in Sessions \ {s} : tx'[o] = tx[o]
        /\ tx[s].op = "merge" /\ tx'[s].of = tx[s].of
    BY <1>5, MergeDoes
  <2>2. \A o \in Sessions \ {s} : tx[o].op # "commit"
    BY <2>1, NoneAssumption DEF LockHeld
  <2>3. tx'[s].of = 0
    BY <2>1 DEF TurnsKept
  <2> QED
    BY <2>1, <2>2, <2>3
<1>6. ASSUME NEW s \in Sessions, Commit(s)
      PROVE  UndoFits'
  <2>1. /\ tx'[s].of = 0 /\ \A o \in Sessions \ {s} : tx'[o] = tx[o]
    BY <1>6, EndDoes
  <2> DEFINE merges == tx[s].merges
             logged == log \o merges
  <2>2. undo' = IF Len(merges) = 1 /\ seen = db THEN [at |-> Len(logged), before |-> db]
                ELSE [at |-> 0, before |-> Empty]
    BY <1>6 DEF Commit
  <2>3. log \in Seq(Logs) /\ merges \in Seq(Logs) /\ \A o \in Sessions : tx[o].of \in 0..Len(log)
    BY DEF TypeOK, Jobs
  <2>4. Len(logged) = Len(log) + Len(merges)
    BY <2>3, ConcatProperties
  <2> HIDE DEF logged, merges
  <2>5. undo'.at = 0 \/ undo'.at = Len(log) + 1
    BY <2>2, <2>4
  <2>6. \A o \in Sessions : undo'.at # 0 => tx'[o].of # undo'.at
    BY <2>1, <2>3, <2>5
  <2> QED
    BY <2>6
<1>7. ASSUME NEW s \in Sessions, Rollback(s)
      PROVE  UndoFits'
  <2>1. /\ tx'[s].of = 0 /\ \A o \in Sessions \ {s} : tx'[o] = tx[o]
    BY <1>7, EndDoes
  <2>2. UNCHANGED <<db, log, undo>> /\ (lock # s => UNCHANGED <<seen, work>>)
    BY <1>7 DEF Rollback
  <2>3. \A o \in Sessions \ {s} : tx[o].op = "commit" => lock # s
    BY DEF LockHeld
  <2> QED
    BY <2>1, <2>2, <2>3
<1> QED
  BY <1>1, <1>2, <1>3, <1>4, <1>5, <1>6, <1>7, StepIs
----------------------------------------------------------------------------
Reversible == Ordered /\ HolderWorks /\ NoLoops /\ TurnsKept /\ FirstMergeFits /\ LastMergeFits /\ UndoFits

LEMMA InitReversible == Init => Reversible
<1> SUFFICES ASSUME Init PROVE Reversible
  OBVIOUS
<1>1. db.edges = {} /\ work.edges = {} /\ log = <<>> /\ lock \notin Sessions /\ undo.at = 0
  BY NoneAssumption DEF Init, Empty
<1>2. \A s \in Sessions : tx[s].op = "idle" /\ tx[s].merges = <<>> /\ tx[s].of = 0
  BY DEF Init, Idle
<1>3. NoLoops
  BY <1>1, <1>2 DEF NoLoops, Loopless, LooplessLog
<1>4. TurnsKept /\ HolderWorks
  BY <1>1, <1>2 DEF TurnsKept, HolderWorks
<1>5. FirstMergeFits /\ LastMergeFits /\ UndoFits
  BY <1>1 DEF FirstMergeFits, LastMergeFits, UndoFits, Whole
<1> QED
  BY <1>3, <1>4, <1>5, InitOrdered DEF Reversible

LEMMA NextReversible ==
  ASSUME Reversible, TypeOK', [Next]_vars
  PROVE  Reversible'
<1>1. Ordered' /\ HolderWorks' /\ NoLoops' /\ TurnsKept'
  BY NextOrdered, NextHolderWorks, NextNoLoops, NextTurns DEF Reversible, Ordered
<1>2. FirstMergeFits' /\ LastMergeFits' /\ UndoFits'
  BY NextFirstMergeFits, NextLastMergeFits, NextUndoFits DEF Reversible
<1> QED
  BY <1>1, <1>2 DEF Reversible

LEMMA UndoneIsBefore ==
  ASSUME Reversible, [Next]_vars, NEW s \in Sessions,
         tx[s].op = "commit", tx[s].of # 0, tx[s].of = undo.at, tx'[s] = Idle, db' # db, ~ stale
  PROVE  /\ db'.edges = undo.before.edges \cup
                          Twice(At(undo.before, log[undo.at].winner)
                                   \cap At(undo.before, log[undo.at].loser))
         /\ Live(db') = Live(undo.before) /\ db'.into = undo.before.into
         /\ db'.nodes \ {log[undo.at].loser} \subseteq undo.before.nodes
         /\ undo.before.nodes \subseteq db'.nodes
<1> USE DEF Reversible, Ordered
<1>1. Commit(s)
  <2>1. ~ UNCHANGED vars
    BY DEF vars
  <2>2. ~ Others
    <3>1. Idle.op = "idle"
      BY DEF Idle
    <3> QED
      BY <3>1, OthersDo
  <2>3. PICK o \in Sessions :
              \/ \/ \E a \in Assets : BeginWrite(o, a)
                 \/ BeginMerge(o)
                 \/ \E i \in DOMAIN log : BeginRollback(o, i)
              \/ WriteGraph(o) \/ RollbackGraph(o)
              \/ \E pair \in tx[o].pairs : MergePair(o, pair)
              \/ Commit(o) \/ Rollback(o)
    BY <2>1, <2>2, StepIs
  <2>4. Commit(o)
    BY <2>3, BeginDoes, GraphDoes, MergeDoes DEF Rollback
  <2>5. o = s
    BY <2>4, NoneAssumption DEF Commit, LockHeld
  <2> QED
    BY <2>4, <2>5
<1> DEFINE entry == log[undo.at]
           before == undo.before
           n == RolledBack(db, entry, tx[s])
<1>2. /\ entry \in Logs /\ before \in Databases /\ db \in Databases /\ tx[s] \in Jobs
  BY DEF TypeOK
<1>3. /\ MergeOf(before, db, entry) /\ entry.winner # entry.loser
      /\ entry.winner \in Live(before) /\ entry.loser \in Live(before)
  BY DEF LastMergeFits, OneMerge
<1>4. tx[s].gone = TRUE /\ tx[s].into = entry.winner /\ seen = db /\ work = n
  BY DEF UndoFits
<1> HIDE DEF entry, before
<1>5. Whole(n)
  <2>1. \E g \in Databases : n = Attached(g)
    <3> DEFINE kept == {edge \in db.edges : ~ (entry.winner \in Ends(edge) /\ Ends(edge) \in Touched(entry))}
               edges == Created(Created(kept, entry.mine), entry.theirs)
               g == [db EXCEPT !.nodes = @ \cup {entry.loser}, !.edges = edges,
                               !.gone = IF tx[s].gone THEN @ \ {entry.loser} ELSE @,
                               !.into[entry.loser] = IF tx[s].into # None THEN None ELSE @]
    <3>1. n = Attached(g)
      BY DEF RolledBack
    <3>2. edges \subseteq Edges
      BY <1>2, CreatedEdges DEF Logs, Databases
    <3> HIDE DEF edges, n
    <3>3. g \in Databases
      BY <1>2, <3>2 DEF Logs, Databases
    <3> QED
      BY <3>1, <3>3
  <2> HIDE DEF n
  <2> QED
    BY <2>1 DEF Attached, Databases, Whole
<1>6. db' = n
  BY <1>1, <1>4, <1>5, VisibleWhole DEF Commit
<1>7. AsItWas(n, before, entry)
  <2>1. ReadyToUndo(before, db, entry, tx[s])
    BY <1>2, <1>3, <1>4 DEF ReadyToUndo
  <2> QED
    BY <2>1, RolledBackIsBefore DEF n
<1>8. Live(n) = Live(before)
  <2> HIDE DEF n
  <2> QED
    BY <1>7 DEF Live, AsItWas
<1> HIDE DEF n
<1> QED
  BY <1>6, <1>7, <1>8 DEF entry, before, AsItWas

(* The merge that was the last change is undone by its rollback: living entities and the chains of *)
(* merges are what they were before, and so are the nodes, but for the loser's, and the edges,    *)
(* but for those between winner and loser, which come back twice.                                *)
THEOREM RollbackUndoesTheMerge == Spec => RollbackRestores
<1> DEFINE Step ==
      \A s \in Sessions :
         (/\ tx[s].op = "commit" /\ tx[s].of # 0 /\ tx[s].of = undo.at
          /\ tx'[s] = Idle /\ db' # db /\ ~ stale) =>
             /\ db'.edges = undo.before.edges \cup
                              Twice(At(undo.before, log[undo.at].winner)
                                       \cap At(undo.before, log[undo.at].loser))
             /\ Live(db') = Live(undo.before) /\ db'.into = undo.before.into
             /\ db'.nodes \ {log[undo.at].loser} \subseteq undo.before.nodes
             /\ undo.before.nodes \subseteq db'.nodes
<1>1. Reversible /\ [Next]_vars => Step
  BY UndoneIsBefore
<1>2. Init => Reversible
  BY InitReversible
<1>3. Reversible /\ TypeOK' /\ [Next]_vars => Reversible'
  BY NextReversible
<1>4. RollbackRestores <=> [][Step]_vars
  BY DEF RollbackRestores
<1> HIDE DEF Step
<1> QED
  BY <1>1, <1>2, <1>3, <1>4, EntityGraphTypeCorrect, PTL DEF Spec
=============================================================================
