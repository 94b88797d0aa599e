---------------------------- MODULE FoldersProofs ----------------------------
(***************************************************************************)
(* What holds of the folders and files of a space for any number of         *)
(* requests, folders and files: the types; the tree, which only two         *)
(* overlapping moves can break; the names of the folders of one parent; that*)
(* nothing live is left in a deleted folder; and the counter of files.      *)
(* The tree is stated without a closure operator: no set of folders holds   *)
(* the parents of all its members.                                          *)
(***************************************************************************)
EXTENDS Folders, FiniteSetTheorems, TLAPS

(* Rows refer to parents without a cycle among themselves. *)
Forest(f) == \A S \in SUBSET DOMAIN f : S # {} => \E g \in S : f[g] \notin S

(* The requests that name a folder, place a folder, place a file, or count files. *)
Naming == {"create", "rename", "move", "copy_folder"}
Nesting == {"create", "move", "copy_folder"}
Placing == {"register", "move_asset", "copy_asset", "copy_folder"}
Counting == {"register", "delete_asset", "copy_asset", "delete_folder", "copy_folder"}

(* What a transaction writes, by the request it belongs to: it counts the files it inserts or   *)
(* those it deletes.                                                                            *)
Formed(t) ==
    /\ t.op \notin Nesting => DOMAIN t.parent = {} /\ t.born \cap Folders = {}
    /\ t.op \notin Naming => DOMAIN t.name = {}
    /\ t.op \notin Placing => DOMAIN t.folder = {} /\ t.born \cap Assets = {}
    /\ t.op # "delete_folder" => t.gone \cap Folders = {}
    /\ t.op \notin Counting => t.born \cap Assets = {} /\ t.gone = {} /\ t.adds = 0
    /\ t.born \cap Folders \subseteq DOMAIN t.parent
    /\ t.born \cap Assets \subseteq DOMAIN t.folder
    /\ \/ t.gone = {} /\ t.adds = Cardinality(t.born \cap Assets)
       \/ t.born = {} /\ t.adds = -Cardinality(t.gone \cap Assets)

(* It counts on from the counter as it is, and what it adds is within the quota. *)
CountsOn(t) ==
    t.op \in Counting =>
        /\ t.read = files
        /\ t.gone \cap Assets \subseteq live
        /\ t.adds > 0 => WithinQuota(t.adds)

(* A cascade takes all folders that are below one of its own and all files that are in one, and *)
(* what the others write puts folders and files where they can be seen.                         *)
Cascades(t) ==
    IF t.op = "delete_folder"
    THEN \A g \in Folders : parent[g] \in t.gone => g \in t.gone
    ELSE \A g \in DOMAIN t.parent : IsPlace(t.parent[g]) \/ t.parent[g] \in t.born
Sweeps(t) ==
    IF t.op = "delete_folder"
    THEN \A a \in Assets \cap live : folder[a] \in t.gone => a \in t.gone
    ELSE \A a \in DOMAIN t.folder : IsPlace(t.folder[a]) \/ t.folder[a] \in t.born

(* The live folders of one parent have different names, and still have when t is committed. *)
NamesDiffer ==
    \A f, g \in Folders \cap live : (f # g /\ parent[f] = parent[g]) => name[f] # name[g]
NamesWillDiffer(t) ==
    \A f, g \in Folders \cap (live \cup t.born) :
        (f # g /\ Over(t.parent, parent)[f] = Over(t.parent, parent)[g])
            => Over(t.name, name)[f] # Over(t.name, name)[g]

(* What holds of a transaction when it begins. *)
Fits(t) ==
    /\ t \in Transactions
    /\ \A x \in t.born : Unused(x)
    /\ t.op = "move" =>
         \E f \in Folders, p \in Places :
             /\ t.parent = [x \in {f} |-> p]
             /\ t.born = {} /\ f \in live /\ IsPlace(p)
             /\ \E D \in SUBSET Folders : f \in D /\ ClosedBelow(D) /\ p \notin D
    /\ t.op # "move" =>
         /\ DOMAIN t.parent \subseteq t.born
         /\ \A g \in DOMAIN t.parent : IsPlace(t.parent[g]) \/ t.parent[g] \in t.born
         /\ ParentChainsEnd => Forest(t.parent)
    /\ Formed(t) /\ CountsOn(t) /\ Cascades(t) /\ Sweeps(t)
    /\ NamesDiffer /\ ParentChainsEnd => NamesWillDiffer(t)

LEMMA PartialFunctions ==
  ASSUME NEW S, NEW T, NEW D, D \subseteq S, NEW f \in [D -> T]
  PROVE  f \in Partial(S, T)
  BY DEF Partial

LEMMA PartialDomain ==
  ASSUME NEW S, NEW T, NEW f \in Partial(S, T)
  PROVE  /\ DOMAIN f \subseteq S
         /\ f \in [DOMAIN f -> T]
  BY DEF Partial

LEMMA IdleIsATransaction == Idle \in Transactions
<1>1. /\ Nothing \in Partial(Folders, Places)
      /\ Nothing \in Partial(Folders, Names)
      /\ Nothing \in Partial(Assets, Places)
  BY DEF Partial, Nothing
<1>2. QED
  BY <1>1 DEF Idle, Transactions

LEMMA Counts ==
  /\ Cardinality({}) = 0
  /\ \A x : Cardinality({x}) = 1
  BY FS_EmptySet, FS_Singleton

\* A transaction that neither places nor names a folder leaves the names as they are.
LEMMA NamesAreKept ==
  ASSUME TypeOK, NEW t, DOMAIN t.parent = {}, DOMAIN t.name = {}, t.born \cap Folders = {},
         NamesDiffer
  PROVE  NamesWillDiffer(t)
<1>1. \A g \in Folders : Over(t.parent, parent)[g] = parent[g] /\ Over(t.name, name)[g] = name[g]
  BY DEF Over, TypeOK
<1>2. QED
  BY <1>1 DEF NamesWillDiffer, NamesDiffer

LEMMA CreateFits ==
  ASSUME TypeOK, NEW r \in Requests, NEW f \in Folders, NEW p \in Places, NEW n \in Names,
         Unused(f), CreateFolder(r, f, p, n)
  PROVE  \E t : Begin(r, t) /\ Fits(t)
<1> DEFINE t == [Idle EXCEPT !.op = "create", !.born = {f},
                             !.parent = [x \in {f} |-> p], !.name = [x \in {f} |-> n]]
<1>1. Begin(r, t)
  BY DEF CreateFolder
<1>2. /\ [x \in {f} |-> p] \in Partial(Folders, Places)
      /\ [x \in {f} |-> n] \in Partial(Folders, Names)
  BY PartialFunctions
<1>3. t \in Transactions
  BY <1>2, IdleIsATransaction DEF Transactions, Ops
<1>4. /\ t.op = "create" /\ t.born = {f} /\ t.parent = [x \in {f} |-> p]
      /\ t.name = [x \in {f} |-> n] /\ t.folder = Nothing /\ t.gone = {} /\ t.adds = 0
  BY DEF Idle
<1>5. f # p /\ IsPlace(p) /\ Siblings(p, n) = {} /\ f \notin Assets
  BY RootAssumption, RowsAssumption DEF CreateFolder, Unused, IsPlace
<1>6. DOMAIN Nothing = {}
  BY DEF Nothing
<1> HIDE DEF t
<1>7. Forest(t.parent)
  BY <1>4, <1>5 DEF Forest
<1>8. t.born \cap Assets = {} /\ t.born \cap Folders = {f}
  BY <1>4, <1>5
<1>9. Formed(t)
  BY <1>4, <1>6, <1>8, Counts DEF Formed, Nesting, Naming, Placing, Counting
<1>10. CountsOn(t)
  BY <1>4 DEF CountsOn, Counting
<1>11. Cascades(t) /\ Sweeps(t)
  BY <1>4, <1>5, <1>6 DEF Cascades, Sweeps
<1>12. NamesDiffer => NamesWillDiffer(t)
  <2>1. \A g \in Folders : /\ Over(t.parent, parent)[g] = IF g = f THEN p ELSE parent[g]
                           /\ Over(t.name, name)[g] = IF g = f THEN n ELSE name[g]
    BY <1>4 DEF Over, TypeOK
  <2>2. \A g \in Folders \cap live : parent[g] = p => name[g] # n
    BY <1>5 DEF Siblings
  <2>3. QED
    BY <1>4, <2>1, <2>2 DEF NamesWillDiffer, NamesDiffer
<1>13. Fits(t)
  BY <1>3, <1>4, <1>5, <1>7, <1>9, <1>10, <1>11, <1>12 DEF Fits
<1>14. QED
  BY <1>1, <1>13

LEMMA RenameFits ==
  ASSUME TypeOK, NEW r \in Requests, NEW f \in Folders \cap live, NEW n \in Names,
         RenameFolder(r, f, n)
  PROVE  \E t : Begin(r, t) /\ Fits(t)
<1> DEFINE t == [Idle EXCEPT !.op = "rename", !.name = [x \in {f} |-> n]]
<1>1. Begin(r, t)
  BY DEF RenameFolder
<1>2. [x \in {f} |-> n] \in Partial(Folders, Names)
  BY PartialFunctions
<1>3. t \in Transactions
  BY <1>2, IdleIsATransaction DEF Transactions, Ops
<1>4. /\ t.op = "rename" /\ t.born = {} /\ t.parent = Nothing
      /\ t.name = [x \in {f} |-> n] /\ t.folder = Nothing /\ t.gone = {} /\ t.adds = 0
  BY DEF Idle
<1>5. DOMAIN Nothing = {}
  BY DEF Nothing
<1> HIDE DEF t
<1>6. Formed(t)
  BY <1>4, <1>5, Counts DEF Formed, Nesting, Naming, Placing, Counting
<1>7. CountsOn(t)
  BY <1>4 DEF CountsOn, Counting
<1>8. Cascades(t) /\ Sweeps(t)
  BY <1>4, <1>5 DEF Cascades, Sweeps
<1>9. NamesDiffer => NamesWillDiffer(t)
  <2>1. \A g \in Folders : /\ Over(t.parent, parent)[g] = parent[g]
                           /\ Over(t.name, name)[g] = IF g = f THEN n ELSE name[g]
    BY <1>4, <1>5 DEF Over, TypeOK
  <2>2. \A g \in Folders \cap live : g # f /\ parent[g] = parent[f] => name[g] # n
    BY DEF RenameFolder, NameIsFree, Siblings
  <2>3. QED
    BY <1>4, <2>1, <2>2 DEF NamesWillDiffer, NamesDiffer
<1>10. Fits(t)
  BY <1>3, <1>4, <1>5, <1>6, <1>7, <1>8, <1>9 DEF Fits, Forest
<1>11. QED
  BY <1>1, <1>10

LEMMA MoveFits ==
  ASSUME TypeOK, NEW r \in Requests, NEW f \in Folders \cap live, NEW p \in Places,
         MoveFolder(r, f, p)
  PROVE  \E t : Begin(r, t) /\ Fits(t)
<1> DEFINE t == [Idle EXCEPT !.op = "move", !.parent = [x \in {f} |-> p]]
<1>1. Begin(r, t) /\ IsPlace(p)
  BY DEF MoveFolder
<1>2. [x \in {f} |-> p] \in Partial(Folders, Places)
  BY PartialFunctions
<1>3. t \in Transactions
  BY <1>2, IdleIsATransaction DEF Transactions, Ops
<1>4. /\ t.op = "move" /\ t.born = {} /\ t.parent = [x \in {f} |-> p]
      /\ t.name = Nothing /\ t.folder = Nothing /\ t.gone = {} /\ t.adds = 0
  BY DEF Idle
<1>5. \E D \in SUBSET Folders : f \in D /\ ClosedBelow(D) /\ p \notin D
  <2>1. CASE p = Root
    BY <2>1, RootAssumption DEF ClosedBelow
  <2>2. CASE p # Root
    <3>1. p \in Folders /\ p \notin DescendantIds(f)
      BY <2>2 DEF MoveFolder, Places
    <3>2. QED
      BY <3>1 DEF DescendantIds
  <2>3. QED
    BY <2>1, <2>2
<1>6. DOMAIN Nothing = {}
  BY DEF Nothing
<1> HIDE DEF t
<1>7. Formed(t)
  BY <1>4, <1>6, Counts DEF Formed, Nesting, Naming, Placing, Counting
<1>8. CountsOn(t)
  BY <1>4 DEF CountsOn, Counting
<1>9. Cascades(t) /\ Sweeps(t)
  BY <1>1, <1>4, <1>6 DEF Cascades, Sweeps
<1>10. NamesDiffer => NamesWillDiffer(t)
  <2>1. \A g \in Folders : /\ Over(t.parent, parent)[g] = IF g = f THEN p ELSE parent[g]
                           /\ Over(t.name, name)[g] = name[g]
    BY <1>4, <1>6 DEF Over, TypeOK
  <2>2. \A g \in Folders \cap live : g # f /\ parent[g] = p => name[g] # name[f]
    BY DEF MoveFolder, NameIsFree, Siblings
  <2>3. QED
    BY <1>4, <2>1, <2>2 DEF NamesWillDiffer, NamesDiffer
<1>11. Fits(t)
  BY <1>1, <1>3, <1>4, <1>5, <1>7, <1>8, <1>9, <1>10 DEF Fits
<1>12. QED
  BY <1>1, <1>11

LEMMA FilesAreCounted ==
  ASSUME NEW D
  PROVE  /\ FilesIn(D) \subseteq Assets
         /\ Cardinality(FilesIn(D)) \in Nat
<1>1. FilesIn(D) \subseteq Assets
  BY DEF FilesIn
<1>2. IsFiniteSet(FilesIn(D))
  BY <1>1, FiniteAssumption, FS_Subset
<1>3. QED
  BY <1>1, <1>2, FS_CardinalityType

LEMMA DeleteFolderFits ==
  ASSUME TypeOK, NEW r \in Requests, NEW f \in Folders, DeleteFolder(r, f)
  PROVE  \E t : Begin(r, t) /\ Fits(t)
<1> DEFINE below == DescendantIds(f)
           lost  == FilesIn(below)
           t == [Idle EXCEPT !.op = "delete_folder", !.gone = below \cup lost,
                             !.read = files, !.adds = -Cardinality(lost)]
<1>1. Begin(r, t)
  BY DEF DeleteFolder
<1>2. below \subseteq Folders /\ lost \subseteq Assets \cap live
  BY DEF DescendantIds, FilesIn
<1>3. files \in Nat /\ Cardinality(lost) \in Nat /\ -Cardinality(lost) \in Int
  BY FilesAreCounted DEF TypeOK
<1>4. t \in Transactions
  <2> HIDE DEF below, lost
  <2>1. QED
    BY <1>2, <1>3, IdleIsATransaction DEF Transactions, Ops
<1>5. /\ t.op = "delete_folder" /\ t.born = {} /\ t.parent = Nothing
      /\ t.name = Nothing /\ t.folder = Nothing /\ t.gone = below \cup lost
      /\ t.read = files /\ t.adds = -Cardinality(lost)
  <2> HIDE DEF below, lost
  <2>1. QED
    BY DEF Idle
<1>6. DOMAIN Nothing = {}
  BY DEF Nothing
<1>7. \A g \in Folders : parent[g] \in below => g \in below
  BY DEF DescendantIds, ClosedBelow
<1>8. \A a \in Assets \cap live : folder[a] \in below => a \in lost
  BY DEF FilesIn
<1>9. \A x \in Places : x \notin lost
  BY <1>2, RootAssumption, RowsAssumption DEF Places
<1> HIDE DEF t, below, lost
<1>10. (below \cup lost) \cap Assets = lost
  BY <1>2, RowsAssumption
<1>11. Formed(t)
  BY <1>5, <1>6, <1>10 DEF Formed, Nesting, Naming, Placing, Counting
<1>12. CountsOn(t)
  BY <1>2, <1>3, <1>5, <1>10 DEF CountsOn
<1>13. Cascades(t) /\ Sweeps(t)
  BY <1>5, <1>7, <1>8, <1>9 DEF Cascades, Sweeps, TypeOK
<1>14. NamesDiffer => NamesWillDiffer(t)
  BY <1>5, <1>6, NamesAreKept
<1>15. Fits(t)
  BY <1>4, <1>5, <1>6, <1>11, <1>12, <1>13, <1>14 DEF Fits, Forest
<1>16. QED
  BY <1>1, <1>15

\* The live folders below f hold the parent of each of them but f itself.
LEMMA ParentsAreBelow ==
  ASSUME NEW f \in Folders, NEW s \in LiveBelow(f), s # f
  PROVE  parent[s] \in LiveBelow(f)
<1>1. SUFFICES ASSUME parent[s] \in Folders => parent[s] \notin LiveBelow(f)
               PROVE  FALSE
  BY DEF LiveBelow
<1>2. PICK D \in SUBSET Folders : f \in D /\ ChildrenClosed(D) /\ parent[s] \notin D
  <2>1. CASE parent[s] \in Folders
    BY <1>1, <2>1 DEF LiveBelow
  <2>2. CASE parent[s] \notin Folders
    BY <2>2 DEF ChildrenClosed
  <2>3. QED
    BY <2>1, <2>2
<1>3. f \in D \ {s} /\ ChildrenClosed(D \ {s})
  BY <1>2 DEF ChildrenClosed
<1>4. QED
  BY <1>3 DEF LiveBelow

LEMMA LiveBelowIsLive ==
  ASSUME NEW f \in Folders \cap live
  PROVE  LiveBelow(f) \subseteq Folders \cap live /\ f \in LiveBelow(f)
<1>1. ChildrenClosed(Folders \cap live)
  BY DEF ChildrenClosed
<1>2. QED
  BY <1>1 DEF LiveBelow

\* Where a folder of the source ends up says where it is put and how it is called.
LEMMA CopyTells ==
  ASSUME NEW f \in Folders, NEW p, NEW to \in [LiveBelow(f) -> Folders], IsCopy(to, f, p),
         NEW s \in LiveBelow(f)
  PROVE  /\ Unused(to[s]) \/ /\ to[s] \in live
                             /\ to[s] # s
                             /\ parent[to[s]] = CopyTarget(to, f, p, s)
                             /\ name[to[s]] = name[s]
         /\ Unused(to[s]) => MayMerge(to, f, p, s) = {}
<1>1. CASE MayMerge(to, f, p, s) # {}
  <2>1. to[s] \in MayMerge(to, f, p, s)
    BY <1>1 DEF IsCopy
  <2>2. QED
    BY <2>1 DEF MayMerge, Siblings, Unused
<1>2. CASE MayMerge(to, f, p, s) = {}
  BY <1>2 DEF IsCopy
<1>3. QED
  BY <1>1, <1>2

\* The place a copy is put under is not a folder that the copy is merged into: it would be below
\* itself.
LEMMA CopyStaysBelow ==
  ASSUME TypeOK, ParentChainsEnd, NEW f \in Folders, NEW p, IsPlace(p),
         NEW to \in [LiveBelow(f) -> Folders], IsCopy(to, f, p), NEW u \in LiveBelow(f)
  PROVE  to[u] # p
<1> DEFINE tree == LiveBelow(f)
           M == {x \in Folders : ~Unused(x) /\ \E v \in tree : to[v] = x}
<1>1. SUFFICES ASSUME to[u] = p PROVE FALSE
  OBVIOUS
<1>2. p \in M
  BY <1>1, RootAssumption DEF IsPlace, Unused
<1>3. ASSUME NEW x \in M PROVE parent[x] \in M
  <2>1. PICK v \in tree : to[v] = x
    OBVIOUS
  <2>2. parent[x] = CopyTarget(to, f, p, v)
    BY <2>1, CopyTells
  <2>3. CASE v = f
    BY <1>2, <2>2, <2>3 DEF CopyTarget
  <2>4. CASE v # f
    <3>1. parent[v] \in tree /\ parent[x] = to[parent[v]]
      BY <2>2, <2>4, ParentsAreBelow DEF CopyTarget
    <3>2. ~Unused(parent[x])
      BY DEF Unused, Range, TypeOK
    <3>3. QED
      BY <3>1, <3>2
  <2>5. QED
    BY <2>3, <2>4
<1>4. QED
  BY <1>2, <1>3 DEF ParentChainsEnd

\* Two folders of the source do not end up in one.
LEMMA CopiesDiffer ==
  ASSUME TypeOK, ParentChainsEnd, NamesDiffer, NEW f \in Folders \cap live, NEW p, IsPlace(p),
         NEW to \in [LiveBelow(f) -> Folders], IsCopy(to, f, p)
  PROVE  \A s, t \in LiveBelow(f) : to[s] = to[t] => s = t
<1> DEFINE tree == LiveBelow(f)
           Bad == {s \in tree : \E t \in tree : t # s /\ to[s] = to[t]}
<1>1. SUFFICES ASSUME Bad # {} PROVE FALSE
  OBVIOUS
<1>2. tree \subseteq Folders \cap live
  BY LiveBelowIsLive
<1>3. PICK s \in Bad : parent[s] \notin Bad
  BY <1>1, <1>2 DEF ParentChainsEnd
<1>4. PICK t \in tree : t # s /\ to[s] = to[t]
  OBVIOUS
<1>5. name[s] = name[t] /\ CopyTarget(to, f, p, s) = CopyTarget(to, f, p, t)
  <2>1. CASE Unused(to[s])
    BY <1>4, <2>1 DEF IsCopy
  <2>2. CASE ~Unused(to[s])
    BY <1>4, <2>2, CopyTells
  <2>3. QED
    BY <2>1, <2>2
<1>6. \A x \in tree : x # f => parent[x] \in tree /\ to[parent[x]] # p
  BY ParentsAreBelow, CopyStaysBelow
<1>7. s # f /\ t # f
  BY <1>4, <1>5, <1>6 DEF CopyTarget
<1>8. /\ parent[s] \in tree /\ parent[t] \in tree
      /\ to[parent[s]] = to[parent[t]]
  BY <1>5, <1>6, <1>7 DEF CopyTarget
<1>9. parent[s] # parent[t]
  BY <1>2, <1>4, <1>5 DEF NamesDiffer
<1>10. QED
  BY <1>3, <1>8, <1>9

\* A copy is put where no folder has its name, each of its folders beside others.
LEMMA CopyKeepsNames ==
  ASSUME TypeOK, ParentChainsEnd, NamesDiffer, NEW f \in Folders \cap live, NEW p, IsPlace(p),
         NEW n, IF f \in Siblings(p, name[f]) THEN Siblings(p, n) = {} ELSE n = name[f],
         NEW to \in [LiveBelow(f) -> Folders], IsCopy(to, f, p),
         NEW new \in SUBSET Folders, \A g \in new : Unused(g),
         NEW src \in [new -> LiveBelow(f)], \A g \in new : to[src[g]] = g,
         NEW t, t.born \cap Folders = new,
         t.parent = [g \in new |-> CopyTarget(to, f, p, src[g])],
         t.name = [g \in new |-> IF src[g] = f THEN n ELSE name[src[g]]]
  PROVE  NamesWillDiffer(t)
<1> DEFINE tree == LiveBelow(f)
           up(g) == CopyTarget(to, f, p, src[g])
           called(g) == IF src[g] = f THEN n ELSE name[src[g]]
<1>1. tree \subseteq Folders \cap live
  BY LiveBelowIsLive
<1>2. \A x \in tree : x # f => parent[x] \in tree /\ to[parent[x]] # p
  BY ParentsAreBelow, CopyStaysBelow
<1>3. \A x, y \in tree : to[x] = to[y] => x = y
  BY CopiesDiffer
<1>4. \A g \in Folders : /\ Over(t.parent, parent)[g] = IF g \in new THEN up(g) ELSE parent[g]
                         /\ Over(t.name, name)[g] = IF g \in new THEN called(g) ELSE name[g]
  BY DEF Over, TypeOK
<1>5. Folders \cap (live \cup t.born) = (Folders \cap live) \cup new
  OBVIOUS
<1>6. \A g \in new : g \notin live
  BY DEF Unused
<1>7. ASSUME NEW g \in new, NEW h \in new, g # h, up(g) = up(h), called(g) = called(h)
      PROVE  FALSE
  <2>1. src[g] \in tree /\ src[h] \in tree /\ src[g] # src[h]
    BY <1>7
  <2>2. src[g] # f /\ src[h] # f
    BY <1>2, <1>7, <2>1 DEF CopyTarget
  <2>3. parent[src[g]] = parent[src[h]] /\ name[src[g]] = name[src[h]]
    BY <1>2, <1>3, <1>7, <2>1, <2>2 DEF CopyTarget
  <2>4. QED
    BY <1>1, <2>1, <2>3 DEF NamesDiffer
<1>8. ASSUME NEW g \in new, NEW x \in Folders \cap live, up(g) = parent[x], called(g) = name[x]
      PROVE  FALSE
  <2>1. src[g] \in tree /\ MayMerge(to, f, p, src[g]) = {}
    BY CopyTells
  <2>2. CASE src[g] # f
    <3>1. x \in Siblings(up(g), name[src[g]])
      BY <1>8, <2>2 DEF Siblings
    <3>2. x = src[g]
      BY <2>1, <3>1 DEF MayMerge
    <3>3. parent[x] \in tree /\ to[parent[x]] = parent[x]
      BY <1>2, <1>8, <2>1, <2>2, <3>2 DEF CopyTarget
    <3>4. parent[x] \in live
      BY <1>1, <3>3
    <3>5. QED
      BY <3>3, <3>4, CopyTells DEF Unused
  <2>3. CASE src[g] = f
    <3>1. x \in Siblings(p, n)
      BY <1>8, <2>3 DEF Siblings, CopyTarget
    <3>2. n = name[f] /\ f \notin Siblings(p, name[f])
      BY <3>1
    <3>3. MayMerge(to, f, p, f) = {} /\ CopyTarget(to, f, p, f) = p
      BY <2>1, <2>3 DEF CopyTarget
    <3>4. QED
      BY <3>1, <3>2, <3>3 DEF MayMerge
  <2>4. QED
    BY <2>2, <2>3
<1> HIDE DEF up, called
<1>9. QED
  BY <1>4, <1>5, <1>6, <1>7, <1>8 DEF NamesWillDiffer, NamesDiffer

\* A copy of a tree is a tree: each new folder stands for one of the source, and so does the
\* folder it is put in, unless that is the place the copy was asked for.
LEMMA CopyFits ==
  ASSUME TypeOK, NEW r \in Requests, NEW f \in Folders \cap live, NEW p \in Places,
         NEW n \in Names, CopyFolder(r, f, p, n)
  PROVE  \E t : Begin(r, t) /\ Fits(t)
<1> DEFINE tree == LiveBelow(f)
           old  == FilesIn(tree)
<1>1. PICK to \in [tree -> Folders], copy \in Injection(old, {a \in Assets : Unused(a)}) :
        LET new  == {g \in Range(to) : Unused(g)}
            src  == [g \in new |-> CHOOSE s \in tree : to[s] = g]
        IN
        /\ IsCopy(to, f, p)
        /\ Begin(r, [Idle EXCEPT !.op = "copy_folder", !.born = new \cup Range(copy),
               !.parent = [g \in new |-> CopyTarget(to, f, p, src[g])],
               !.name = [g \in new |-> IF src[g] = f THEN n ELSE name[src[g]]],
               !.folder = [b \in Range(copy) |->
                             to[folder[CHOOSE a \in old : copy[a] = b]]],
               !.read = files, !.adds = Cardinality(old)])
  BY DEF CopyFolder
<1> DEFINE new == {g \in Range(to) : Unused(g)}
           src == [g \in new |-> CHOOSE s \in tree : to[s] = g]
           up  == [g \in new |-> CopyTarget(to, f, p, src[g])]
           called == [g \in new |-> IF src[g] = f THEN n ELSE name[src[g]]]
           put == [b \in Range(copy) |-> to[folder[CHOOSE a \in old : copy[a] = b]]]
           t == [Idle EXCEPT !.op = "copy_folder", !.born = new \cup Range(copy),
                   !.parent = up, !.name = called, !.folder = put,
                   !.read = files, !.adds = Cardinality(old)]
<1>2. Begin(r, t) /\ IsCopy(to, f, p)
  BY <1>1
<1>3. IsPlace(p)
  BY DEF CopyFolder
<1>4. tree \subseteq Folders /\ f \in tree
  BY DEF LiveBelow
<1>5. new \subseteq Folders
  BY DEF Range
<1>6. \A g \in new : src[g] \in tree /\ to[src[g]] = g
  <2>1. \A g \in new : \E s \in tree : to[s] = g
    BY DEF Range
  <2>2. QED
    BY <2>1
<1>7. \A s \in tree : s # f => parent[s] \in tree
  BY ParentsAreBelow
<1>8. \A s \in tree : CopyTarget(to, f, p, s) \in Places
  BY <1>7 DEF CopyTarget, Places
<1>9. up \in [new -> Places]
  BY <1>6, <1>8
<1>10. called \in [new -> Names]
  BY <1>4, <1>6 DEF TypeOK
<1>11. copy \in [old -> {a \in Assets : Unused(a)}]
  BY DEF Injection, IsInjective
<1>12. Range(copy) \subseteq Assets /\ \A a \in Range(copy) : Unused(a)
  BY <1>11 DEF Range
<1>13. put \in [Range(copy) -> Places]
  <2>1. ASSUME NEW b \in Range(copy) PROVE put[b] \in Places
    <3>1. \E a \in old : copy[a] = b
      BY <1>11 DEF Range
    <3>2. PICK a \in old : a = (CHOOSE c \in old : copy[c] = b)
      BY <3>1
    <3>3. folder[a] \in tree
      BY DEF FilesIn
    <3>4. QED
      BY <3>2, <3>3 DEF Places
  <2>2. QED
    BY <2>1
<1>14. Cardinality(old) \in Int /\ files \in Nat
  BY FilesAreCounted DEF TypeOK
<1>15. /\ up \in Partial(Folders, Places)
       /\ called \in Partial(Folders, Names)
       /\ put \in Partial(Assets, Places)
  <2> HIDE DEF up, called, put, new, old, src
  <2>1. QED
    BY <1>5, <1>9, <1>10, <1>12, <1>13, PartialFunctions
<1>16. t \in Transactions
  <2> HIDE DEF up, called, put, new, old, src
  <2>1. QED
    BY <1>5, <1>12, <1>14, <1>15, IdleIsATransaction DEF Transactions, Ops
<1>17. /\ t.op = "copy_folder" /\ t.born = new \cup Range(copy) /\ t.parent = up
       /\ t.name = called /\ t.folder = put /\ t.gone = {}
       /\ t.read = files /\ t.adds = Cardinality(old)
  <2> HIDE DEF up, called, put, new, old, src
  <2>1. QED
    BY DEF Idle
<1>18. \A g \in new : IsPlace(up[g]) \/ up[g] \in new
  <2>1. ASSUME NEW g \in new, src[g] # f
        PROVE  IsPlace(up[g]) \/ up[g] \in new
    <3>1. parent[src[g]] \in tree /\ up[g] = to[parent[src[g]]]
      BY <1>6, <1>7, <2>1 DEF CopyTarget
    <3> DEFINE s == parent[src[g]]
    <3>2. CASE MayMerge(to, f, p, s) # {}
      <4>1. to[s] \in MayMerge(to, f, p, s)
        BY <1>2, <3>1, <3>2 DEF IsCopy
      <4>2. QED
        BY <3>1, <4>1 DEF MayMerge, Siblings, IsPlace
    <3>3. CASE MayMerge(to, f, p, s) = {}
      <4>1. Unused(to[s])
        BY <1>2, <3>1, <3>3 DEF IsCopy
      <4>2. QED
        BY <3>1, <4>1 DEF Range
    <3>4. QED
      BY <3>2, <3>3
  <2>2. QED
    BY <1>3, <2>1 DEF CopyTarget
<1>19. ParentChainsEnd => Forest(up)
  <2>1. SUFFICES ASSUME ParentChainsEnd, NEW S \in SUBSET new, S # {},
                        \A g \in S : up[g] \in S
                 PROVE  FALSE
    BY DEF Forest
  <2> DEFINE Q == {s \in tree : to[s] \in S}
  <2>2. \A g \in S : Unused(g)
    OBVIOUS
  <2>3. p \notin S
    BY <1>3, <1>5, <2>2, RootAssumption DEF IsPlace, Unused
  <2>4. \A s \in Q : CopyTarget(to, f, p, s) \in S
    <3>1. TAKE s \in Q
    <3>2. to[s] \in new /\ src[to[s]] \in tree /\ to[src[to[s]]] = to[s] /\ Unused(to[s])
      BY <1>6
    <3>3. CopyTarget(to, f, p, src[to[s]]) = CopyTarget(to, f, p, s)
      BY <1>2, <3>2 DEF IsCopy
    <3>4. QED
      BY <2>1, <3>2, <3>3
  <2>5. f \notin Q
    BY <2>3, <2>4 DEF CopyTarget
  <2>6. \A s \in Q : parent[s] \in Q
    BY <1>7, <2>4, <2>5 DEF CopyTarget
  <2>7. PICK g \in S : TRUE
    BY <2>1
  <2>8. src[g] \in Q
    BY <1>6
  <2>9. QED
    BY <1>4, <2>1, <2>6, <2>8 DEF ParentChainsEnd
<1>20. t.born \cap Folders = new /\ t.born \cap Assets = Range(copy)
  BY <1>5, <1>12, <1>17, RowsAssumption
<1>21. Cardinality(Range(copy)) = Cardinality(old)
  <2>1. copy \in Injection(old, Range(copy)) /\ copy \in Surjection(old, Range(copy))
    BY <1>11 DEF Injection, Surjection, IsInjective, Range
  <2>2. IsFiniteSet(old)
    BY FilesAreCounted, FiniteAssumption, FS_Subset
  <2>3. QED
    BY <2>1, <2>2, FS_Surjection
<1>22. Formed(t)
  <2> HIDE DEF t, up, new, called, put, old
  <2>1. DOMAIN up = new /\ DOMAIN put = Range(copy)
    BY DEF up, put
  <2>2. QED
    BY <1>17, <1>20, <1>21, <2>1 DEF Formed, Nesting, Naming, Placing, Counting
<1>23. CountsOn(t)
  BY <1>17 DEF CountsOn, CopyFolder
<1>24. Cascades(t) /\ Sweeps(t)
  <2>1. \A g \in tree : IsPlace(to[g]) \/ to[g] \in new
    <3>1. TAKE g \in tree
    <3>2. Unused(to[g]) \/ to[g] \in live
      BY <1>2, CopyTells
    <3>3. QED
      BY <3>2 DEF IsPlace, Range
  <2>2. \A b \in Range(copy) : IsPlace(put[b]) \/ put[b] \in new
    <3>1. TAKE b \in Range(copy)
    <3>2. \E a \in old : copy[a] = b
      BY <1>11 DEF Range
    <3>3. PICK a \in old : a = (CHOOSE c \in old : copy[c] = b)
      BY <3>2
    <3>4. folder[a] \in tree /\ put[b] = to[folder[a]]
      BY <3>3 DEF FilesIn
    <3>5. QED
      BY <2>1, <3>4
  <2> HIDE DEF t, up, new, put
  <2>3. DOMAIN up = new /\ DOMAIN put = Range(copy)
    BY DEF up, put
  <2>4. QED
    BY <1>17, <1>18, <2>2, <2>3 DEF Cascades, Sweeps
<1>25. NamesDiffer /\ ParentChainsEnd => NamesWillDiffer(t)
  <2>1. IF f \in Siblings(p, name[f]) THEN Siblings(p, n) = {} ELSE n = name[f]
    BY DEF CopyFolder
  <2>2. src \in [new -> LiveBelow(f)] /\ \A g \in new : to[src[g]] = g
    BY <1>6
  <2>3. \A g \in new : Unused(g)
    OBVIOUS
  <2>4. /\ t.parent = [g \in new |-> CopyTarget(to, f, p, src[g])]
        /\ t.name = [g \in new |-> IF src[g] = f THEN n ELSE name[src[g]]]
    <3> HIDE DEF t, new, src
    <3>1. QED
      BY <1>17
  <2> HIDE DEF t, new, src, up, called, put
  <2>5. SUFFICES ASSUME NamesDiffer, ParentChainsEnd PROVE NamesWillDiffer(t)
    OBVIOUS
  <2>6. QED
    BY <1>2, <1>3, <1>5, <1>20, <2>1, <2>2, <2>3, <2>4, <2>5, CopyKeepsNames
<1>26. Fits(t)
  <2> HIDE DEF t, up, new
  <2>1. DOMAIN up = new
    BY DEF up
  <2>2. \A x \in new : Unused(x)
    BY DEF new
  <2>3. QED
    BY <1>12, <1>16, <1>17, <1>18, <1>19, <1>22, <1>23, <1>24, <1>25, <2>1, <2>2 DEF Fits
<1>27. QED
  BY <1>2, <1>26

\* A transaction that inserts one file.
LEMMA NewFileFits ==
  ASSUME TypeOK, NEW a \in Assets, Unused(a), NEW p, IsPlace(p), WithinQuota(1),
         NEW t \in Transactions, t.op \in {"register", "copy_asset"},
         t.born = {a}, t.parent = Nothing, t.name = Nothing, t.folder = [x \in {a} |-> p],
         t.gone = {}, t.read = files, t.adds = 1
  PROVE  Fits(t)
<1>1. DOMAIN Nothing = {}
  BY DEF Nothing
<1>2. {a} \cap Assets = {a} /\ {a} \cap Folders = {}
  BY RowsAssumption
<1>3. Formed(t)
  BY <1>1, <1>2, Counts DEF Formed, Nesting, Naming, Placing, Counting
<1>4. CountsOn(t) /\ Cascades(t) /\ Sweeps(t)
  BY <1>1, <1>2 DEF CountsOn, Counting, Cascades, Sweeps
<1>5. NamesDiffer => NamesWillDiffer(t)
  BY <1>1, <1>2, NamesAreKept
<1>6. QED
  BY <1>1, <1>3, <1>4, <1>5 DEF Fits, Forest

LEMMA RegisterFits ==
  ASSUME TypeOK, NEW r \in Requests, NEW a \in Assets, NEW p \in Places, Unused(a),
         RegisterAsset(r, a, p)
  PROVE  \E t : Begin(r, t) /\ Fits(t)
<1> DEFINE t == [Idle EXCEPT !.op = "register", !.born = {a}, !.folder = [x \in {a} |-> p],
                             !.read = files, !.adds = 1]
<1>1. Begin(r, t)
  BY DEF RegisterAsset
<1>2. t \in Transactions /\ t.op \in {"register", "copy_asset"}
  <2>1. [x \in {a} |-> p] \in Partial(Assets, Places)
    BY PartialFunctions
  <2>2. files \in Nat /\ 1 \in Int /\ {a} \subseteq Folders \cup Assets
    BY DEF TypeOK
  <2>3. QED
    BY <2>1, <2>2, IdleIsATransaction DEF Transactions, Ops, Idle
<1>3. /\ t.born = {a} /\ t.parent = Nothing /\ t.name = Nothing
      /\ t.folder = [x \in {a} |-> p] /\ t.gone = {} /\ t.read = files /\ t.adds = 1
  BY DEF Idle
<1>4. IsPlace(p) /\ WithinQuota(1)
  BY DEF RegisterAsset
<1> HIDE DEF t
<1>5. QED
  BY <1>1, <1>2, <1>3, <1>4, NewFileFits

LEMMA MoveAssetFits ==
  ASSUME TypeOK, NEW r \in Requests, NEW a \in Assets, NEW p \in Places,
         MoveAsset(r, a, p)
  PROVE  \E t : Begin(r, t) /\ Fits(t)
<1> DEFINE t == [Idle EXCEPT !.op = "move_asset", !.folder = [x \in {a} |-> p]]
<1>1. Begin(r, t) /\ IsPlace(p)
  BY DEF MoveAsset
<1>2. [x \in {a} |-> p] \in Partial(Assets, Places)
  BY PartialFunctions
<1>3. t \in Transactions
  BY <1>2, IdleIsATransaction DEF Transactions, Ops
<1>4. /\ t.op = "move_asset" /\ t.born = {} /\ t.parent = Nothing /\ t.name = Nothing
      /\ t.folder = [x \in {a} |-> p] /\ t.gone = {} /\ t.adds = 0
  BY DEF Idle
<1>5. DOMAIN Nothing = {}
  BY DEF Nothing
<1> HIDE DEF t
<1>6. Formed(t)
  BY <1>4, <1>5, Counts DEF Formed, Nesting, Naming, Placing, Counting
<1>7. CountsOn(t) /\ Cascades(t) /\ Sweeps(t)
  BY <1>1, <1>4, <1>5 DEF CountsOn, Counting, Cascades, Sweeps
<1>8. NamesDiffer => NamesWillDiffer(t)
  BY <1>4, <1>5, NamesAreKept
<1>9. Fits(t)
  BY <1>3, <1>4, <1>5, <1>6, <1>7, <1>8 DEF Fits, Forest
<1>10. QED
  BY <1>1, <1>9

LEMMA DeleteAssetFits ==
  ASSUME TypeOK, NEW r \in Requests, NEW a \in Assets \cap live, DeleteAsset(r, a)
  PROVE  \E t : Begin(r, t) /\ Fits(t)
<1> DEFINE t == [Idle EXCEPT !.op = "delete_asset", !.gone = {a},
                         !.read = files, !.adds = -1]
<1>1. Begin(r, t)
  BY DEF DeleteAsset
<1>2. files \in Nat /\ -1 \in Int /\ {a} \subseteq Folders \cup Assets
  BY DEF TypeOK
<1>3. t \in Transactions
  BY <1>2, IdleIsATransaction DEF Transactions, Ops
<1>4. /\ t.op = "delete_asset" /\ t.born = {} /\ t.parent = Nothing /\ t.name = Nothing
      /\ t.folder = Nothing /\ t.gone = {a} /\ t.read = files /\ t.adds = -1
  BY DEF Idle
<1>5. DOMAIN Nothing = {}
  BY DEF Nothing
<1>6. {a} \cap Assets = {a} /\ {a} \cap Folders = {}
  BY RowsAssumption
<1> HIDE DEF t
<1>7. Formed(t)
  BY <1>4, <1>5, <1>6, Counts DEF Formed, Nesting, Naming, Placing, Counting
<1>8. CountsOn(t) /\ Cascades(t) /\ Sweeps(t)
  BY <1>4, <1>5, <1>6 DEF CountsOn, Counting, Cascades, Sweeps
<1>9. NamesDiffer => NamesWillDiffer(t)
  BY <1>4, <1>5, NamesAreKept
<1>10. Fits(t)
  BY <1>3, <1>4, <1>5, <1>7, <1>8, <1>9 DEF Fits, Forest
<1>11. QED
  BY <1>1, <1>10

LEMMA CopyAssetFits ==
  ASSUME TypeOK, NEW r \in Requests, NEW a \in Assets, NEW b \in Assets, NEW p \in Places,
         Unused(b), CopyAsset(r, a, b, p)
  PROVE  \E t : Begin(r, t) /\ Fits(t)
<1> DEFINE t == [Idle EXCEPT !.op = "copy_asset", !.born = {b}, !.folder = [x \in {b} |-> p],
                             !.read = files, !.adds = 1]
<1>1. Begin(r, t)
  BY DEF CopyAsset
<1>2. t \in Transactions /\ t.op \in {"register", "copy_asset"}
  <2>1. [x \in {b} |-> p] \in Partial(Assets, Places)
    BY PartialFunctions
  <2>2. files \in Nat /\ 1 \in Int /\ {b} \subseteq Folders \cup Assets
    BY DEF TypeOK
  <2>3. QED
    BY <2>1, <2>2, IdleIsATransaction DEF Transactions, Ops, Idle
<1>3. /\ t.born = {b} /\ t.parent = Nothing /\ t.name = Nothing
      /\ t.folder = [x \in {b} |-> p] /\ t.gone = {} /\ t.read = files /\ t.adds = 1
  BY DEF Idle
<1>4. IsPlace(p) /\ WithinQuota(1)
  BY DEF CopyAsset
<1> HIDE DEF t
<1>5. QED
  BY <1>1, <1>2, <1>3, <1>4, NewFileFits

\* Every request that gets as far as its writes begins a transaction that fits.
LEMMA RequestsFit ==
  ASSUME TypeOK, NEW r \in Requests, OnFolders(r) \/ OnAssets(r)
  PROVE  \E t : Begin(r, t) /\ Fits(t)
<1>1. CASE OnFolders(r)
  BY <1>1, CreateFits, RenameFits, MoveFits, DeleteFolderFits, CopyFits DEF OnFolders
<1>2. CASE OnAssets(r)
  BY <1>2, RegisterFits, MoveAssetFits, DeleteAssetFits, CopyAssetFits DEF OnAssets
<1>3. QED
  BY <1>1, <1>2

-----------------------------------------------------------------------------
(* Type correctness: the columns of the rows and the counter, which is never below zero          *)
(* (quota.py 135-146), whatever requests cross.                                                  *)
LEMMA RisksArePromises ==
  ASSUME NEW a, NEW b
  PROVE  Risks(a, b) \subseteq Promises
  BY DEF Risks

LEMMA BeginType ==
  ASSUME TypeOK, NEW r \in Requests, NEW t, Begin(r, t), Fits(t)
  PROVE  TypeOK'
<1>1. parent' \in [Folders -> Places]
  BY DEF TypeOK, Begin, Places
<1>2. tx' \in [Requests -> Transactions]
  BY DEF TypeOK, Begin, Fits
<1>3. crossed' \subseteq Promises
  BY RisksArePromises DEF TypeOK, Begin
<1>4. QED
  BY <1>1, <1>2, <1>3 DEF TypeOK, Begin

LEMMA OverType ==
  ASSUME NEW S, NEW T, NEW f \in Partial(S, T), NEW g \in [S -> T]
  PROVE  Over(f, g) \in [S -> T]
  BY PartialDomain DEF Over

LEMMA CommitType ==
  ASSUME TypeOK, NEW r \in Requests, Commit(r)
  PROVE  TypeOK'
<1>1. tx[r] \in Transactions
  BY DEF TypeOK
<1>2. /\ tx[r].parent \in Partial(Folders, Places)
      /\ tx[r].name \in Partial(Folders, Names)
      /\ tx[r].folder \in Partial(Assets, Places)
      /\ tx[r].born \subseteq Folders \cup Assets
      /\ tx[r].read \in Nat /\ tx[r].adds \in Int
  BY <1>1 DEF Transactions
<1>3. /\ parent' \in [Folders -> Places]
      /\ name' \in [Folders -> Names]
      /\ folder' \in [Assets -> Places]
  BY <1>2, OverType DEF TypeOK, Commit
<1>4. files' \in Nat
  BY <1>2 DEF TypeOK, Commit, Metered
<1>5. tx' \in [Requests -> Transactions]
  BY IdleIsATransaction DEF TypeOK, Commit
<1>6. live' \subseteq Folders \cup Assets
  BY <1>2 DEF TypeOK, Commit
<1>7. QED
  BY <1>3, <1>4, <1>5, <1>6 DEF TypeOK, Commit

LEMMA InitType == Init => TypeOK
  BY IdleIsATransaction DEF Init, TypeOK, Places

LEMMA NextType == TypeOK /\ [Next]_vars => TypeOK'
<1>1. SUFFICES ASSUME TypeOK, [Next]_vars PROVE TypeOK'
  OBVIOUS
<1>2. CASE UNCHANGED vars
  BY <1>1, <1>2 DEF vars, TypeOK
<1>3. ASSUME NEW r \in Requests, OnFolders(r) \/ OnAssets(r) PROVE TypeOK'
  BY <1>1, <1>3, RequestsFit, BeginType
<1>4. ASSUME NEW r \in Requests, Commit(r) PROVE TypeOK'
  BY <1>1, <1>4, CommitType
<1>5. ASSUME NEW r \in Requests, Rollback(r) PROVE TypeOK'
  BY <1>1, <1>5, IdleIsATransaction DEF TypeOK, Rollback
<1>6. QED
  BY <1>1, <1>2, <1>3, <1>4, <1>5 DEF Next

(* The rows keep their types through every mix of requests. *)
THEOREM FoldersTypeCorrect == Spec => []TypeOK
<1>1. QED
  BY InitType, NextType, PTL DEF Spec

-----------------------------------------------------------------------------
(* The tree. *)

\* Nothing but its own transaction refers to a row that is not yet committed.
NewRowsAreApart ==
    \A r \in Requests : \A x \in tx[r].born :
        /\ x \notin live
        /\ \A g \in Folders : parent[g] # x
        /\ \A o \in Requests \ {r} :
              /\ x \notin tx[o].born
              /\ \A g \in DOMAIN tx[o].parent : tx[o].parent[g] # x

\* A transaction other than a move gives parents to the rows it inserts only.
OnlyMovesMove ==
    \A r \in Requests : tx[r].op # "move" => DOMAIN tx[r].parent \subseteq tx[r].born

MovesAreApart ==
    "tree" \in crossed \/ \A r, o \in Requests : tx[r].op = "move" /\ tx[o].op = "move" => r = o

\* What a move has checked still holds when it commits: a set of folders closed under children
\* holds the folder and not its new parent.
MovesStaySafe ==
    "tree" \notin crossed =>
        \A r \in Requests : tx[r].op = "move" =>
            \E f \in Folders, p \in Places :
                /\ tx[r].parent = [x \in {f} |-> p]
                /\ \E D \in SUBSET Folders : f \in D /\ ClosedBelow(D) /\ p \notin D

InsertsAreForests ==
    "tree" \notin crossed => \A r \in Requests : tx[r].op # "move" => Forest(tx[r].parent)

TreeInv ==
    /\ NewRowsAreApart
    /\ OnlyMovesMove
    /\ MovesAreApart
    /\ MovesStaySafe
    /\ InsertsAreForests
    /\ TreeUnlessMovesCross

LEMMA IdleHasNothing ==
  /\ Idle.op = "idle" /\ Idle.born = {} /\ Idle.gone = {}
  /\ DOMAIN Idle.parent = {} /\ Forest(Idle.parent)
  BY DEF Idle, Nothing, Forest

LEMMA InitTree == Init => TreeInv
<1>1. SUFFICES ASSUME Init PROVE TreeInv
  OBVIOUS
<1>2. \A r \in Requests : tx[r] = Idle
  BY <1>1 DEF Init
<1>3. NewRowsAreApart /\ OnlyMovesMove /\ MovesAreApart /\ MovesStaySafe /\ InsertsAreForests
  BY <1>2, IdleHasNothing
     DEF NewRowsAreApart, OnlyMovesMove, MovesAreApart, MovesStaySafe, InsertsAreForests
<1>4. ParentChainsEnd
  BY <1>1, RootAssumption DEF Init, ParentChainsEnd
<1>5. QED
  BY <1>3, <1>4 DEF TreeInv, TreeUnlessMovesCross

\* A set of folders that is closed under children stays closed when rows that are about to be
\* inserted lose the parent of the row whose identity they take.
LEMMA BeginKeepsClosed ==
  ASSUME TypeOK, NEW r \in Requests, NEW t, Begin(r, t), NEW D \in SUBSET Folders, ClosedBelow(D)
  PROVE  ClosedBelow(D)'
  BY RootAssumption DEF TypeOK, Begin, ClosedBelow

LEMMA BeginTree ==
  ASSUME TypeOK, TreeInv, NEW r \in Requests, NEW t, Begin(r, t), Fits(t), tx[r] = Idle
  PROVE  TreeInv'
<1>1. tx' = [tx EXCEPT ![r] = t] /\ DOMAIN tx = Requests /\ live' = live
  BY DEF TypeOK, Begin
<1>2. \A o \in Requests : o # r => tx'[o] = tx[o]
  BY <1>1
<1>3. tx'[r] = t
  BY <1>1
<1>4. crossed \subseteq crossed'
  BY DEF Begin
<1>5. \A g \in Folders : parent'[g] = Root \/ parent'[g] = parent[g]
  BY DEF Begin
<1>6. t.born \subseteq Folders \cup Assets /\ t.parent \in Partial(Folders, Places)
  BY DEF Fits, Transactions
<1>8. NewRowsAreApart'
  <2>1. ASSUME NEW x \in t.born
        PROVE  /\ x \notin live
               /\ \A g \in Folders : parent'[g] # x
               /\ \A o \in Requests \ {r} :
                     /\ x \notin tx[o].born
                     /\ \A g \in DOMAIN tx[o].parent : tx[o].parent[g] # x
    <3>1. Unused(x)
      BY DEF Fits
    <3>2. \A g \in Folders : parent[g] # x
      BY <3>1 DEF Unused, Range, TypeOK
    <3>3. \A o \in Requests : \A g \in DOMAIN tx[o].parent : tx[o].parent[g] # x
      BY <3>1 DEF Unused, Refers, Range
    <3>4. x # Root
      BY <1>6, RootAssumption
    <3>5. QED
      BY <1>5, <3>1, <3>2, <3>3, <3>4 DEF Unused, Refers
  <2>2. ASSUME NEW o \in Requests \ {r}, NEW x \in tx[o].born
        PROVE  /\ x \notin live
               /\ \A g \in Folders : parent'[g] # x
               /\ x \notin t.born
               /\ \A g \in DOMAIN t.parent : t.parent[g] # x
    <3>1. x \notin live /\ \A g \in Folders : parent[g] # x
      BY DEF NewRowsAreApart, TreeInv
    <3>2. x \in Folders \cup Assets
      BY DEF TypeOK, Transactions
    <3>3. x # Root
      BY <3>2, RootAssumption
    <3>4. x \notin t.born
      BY DEF Fits, Unused, Refers
    <3>5. \A g \in DOMAIN t.parent : t.parent[g] # x
      BY <3>1, <3>3, <3>4 DEF Fits, IsPlace
    <3>6. QED
      BY <1>5, <3>1, <3>3, <3>4, <3>5
  <2>3. QED
    BY <1>1, <1>2, <1>3, <2>1, <2>2 DEF NewRowsAreApart, TreeInv
<1>9. OnlyMovesMove'
  BY <1>2, <1>3 DEF OnlyMovesMove, Fits, TreeInv
<1>10. MovesAreApart'
  <2>1. ASSUME NEW o \in Requests \ {r}, t.op = "move", tx[o].op = "move"
        PROVE  "tree" \in crossed'
    <3>1. "tree" \in Risks(t.op, tx[o].op)
      BY <2>1 DEF Risks, Promises
    <3>2. QED
      BY <3>1 DEF Begin
  <2>2. QED
    BY <1>2, <1>3, <1>4, <2>1 DEF MovesAreApart, TreeInv
<1>11. MovesStaySafe'
  <2>1. SUFFICES ASSUME "tree" \notin crossed', NEW o \in Requests, tx'[o].op = "move"
                 PROVE  \E f \in Folders, p \in Places :
                          /\ tx'[o].parent = [x \in {f} |-> p]
                          /\ \E D \in SUBSET Folders : f \in D /\ ClosedBelow(D)' /\ p \notin D
    BY DEF MovesStaySafe, ClosedBelow
  <2>2. \E f \in Folders, p \in Places :
          /\ tx'[o].parent = [x \in {f} |-> p]
          /\ \E D \in SUBSET Folders : f \in D /\ ClosedBelow(D) /\ p \notin D
    BY <1>2, <1>3, <1>4, <2>1 DEF MovesStaySafe, TreeInv, Fits
  <2>3. QED
    BY <2>2, BeginKeepsClosed
<1>12. TreeUnlessMovesCross'
  <2>1. SUFFICES ASSUME "tree" \notin crossed', NEW S \in SUBSET Folders, S # {}
                 PROVE  \E f \in S : parent'[f] \notin S
    BY DEF TreeUnlessMovesCross, ParentChainsEnd
  <2>2. ParentChainsEnd
    BY <1>4, <2>1 DEF TreeUnlessMovesCross, TreeInv
  <2>3. QED
    BY <1>5, <2>1, <2>2, RootAssumption DEF ParentChainsEnd
<1>13. InsertsAreForests'
  <2>1. "tree" \notin crossed' => ParentChainsEnd
    BY <1>4 DEF TreeUnlessMovesCross, TreeInv
  <2>2. QED
    BY <1>2, <1>3, <1>4, <2>1 DEF InsertsAreForests, TreeInv, Fits
<1>14. QED
  BY <1>8, <1>9, <1>10, <1>11, <1>12, <1>13 DEF TreeInv

LEMMA CommittedParents ==
  ASSUME TypeOK, NEW r \in Requests, Commit(r)
  PROVE  /\ DOMAIN tx[r].parent \subseteq Folders
         /\ \A g \in Folders :
              parent'[g] = IF g \in DOMAIN tx[r].parent THEN tx[r].parent[g] ELSE parent[g]
         /\ tx'[r] = Idle
         /\ \A o \in Requests : o # r => tx'[o] = tx[o]
         /\ live' \subseteq live \cup tx[r].born
         /\ crossed' = crossed
<1>1. tx[r].parent \in Partial(Folders, Places)
  BY DEF TypeOK, Transactions
<1>2. DOMAIN tx = Requests /\ DOMAIN parent = Folders
  BY DEF TypeOK
<1>3. QED
  BY <1>1, <1>2, PartialDomain DEF Commit, Over

\* A move that commits closes no cycle: a cycle would run through the folder and its new parent,
\* and the rest of it through the set that was below the folder.
LEMMA CommittedMoveKeepsTree ==
  ASSUME TypeOK, TreeInv, NEW r \in Requests, Commit(r), "tree" \notin crossed,
         tx[r].op = "move"
  PROVE  ParentChainsEnd'
<1>1. PICK f \in Folders, p \in Places :
        /\ tx[r].parent = [x \in {f} |-> p]
        /\ \E D \in SUBSET Folders : f \in D /\ ClosedBelow(D) /\ p \notin D
  BY DEF TreeInv, MovesStaySafe
<1>2. PICK D \in SUBSET Folders : f \in D /\ ClosedBelow(D) /\ p \notin D
  BY <1>1
<1>3. ParentChainsEnd
  BY DEF TreeInv, TreeUnlessMovesCross
<1>4. \A g \in Folders : parent'[g] = IF g = f THEN p ELSE parent[g]
  BY <1>1, CommittedParents
<1>5. SUFFICES ASSUME NEW S \in SUBSET Folders, S # {}, \A g \in S : parent'[g] \in S
               PROVE  FALSE
  BY DEF ParentChainsEnd
<1>6. f \in S
  BY <1>3, <1>4, <1>5 DEF ParentChainsEnd
<1>7. p \in S \ D
  BY <1>2, <1>4, <1>5, <1>6
<1>8. \A g \in S \ D : parent[g] \in S \ D
  BY <1>2, <1>4, <1>5 DEF ClosedBelow
<1>9. QED
  BY <1>3, <1>7, <1>8 DEF ParentChainsEnd

LEMMA CommittedInsertKeepsTree ==
  ASSUME TypeOK, TreeInv, NEW r \in Requests, Commit(r), "tree" \notin crossed,
         tx[r].op # "move"
  PROVE  ParentChainsEnd'
<1> DEFINE X == DOMAIN tx[r].parent
<1>1. X \subseteq Folders /\ X \subseteq tx[r].born
  BY CommittedParents DEF TreeInv, OnlyMovesMove
<1>2. \A g \in Folders : parent[g] \notin X
  BY <1>1 DEF TreeInv, NewRowsAreApart
<1>3. ParentChainsEnd /\ Forest(tx[r].parent)
  BY DEF TreeInv, TreeUnlessMovesCross, InsertsAreForests
<1>4. \A g \in Folders : parent'[g] = IF g \in X THEN tx[r].parent[g] ELSE parent[g]
  BY CommittedParents
<1>5. SUFFICES ASSUME NEW S \in SUBSET Folders, S # {}, \A g \in S : parent'[g] \in S
               PROVE  FALSE
  BY DEF ParentChainsEnd
<1>6. CASE S \subseteq X
  BY <1>1, <1>3, <1>4, <1>5, <1>6 DEF Forest
<1>7. CASE ~(S \subseteq X)
  <2>1. S \ X # {} /\ \A g \in S \ X : parent[g] \in S \ X
    BY <1>2, <1>4, <1>5, <1>7
  <2>2. QED
    BY <1>3, <2>1 DEF ParentChainsEnd
<1>8. QED
  BY <1>6, <1>7

LEMMA CommitTree ==
  ASSUME TypeOK, TreeInv, NEW r \in Requests, Commit(r)
  PROVE  TreeInv'
<1> DEFINE X == DOMAIN tx[r].parent
<1>1. X \subseteq Folders
  BY CommittedParents
<1>2. \A g \in Folders : parent'[g] = IF g \in X THEN tx[r].parent[g] ELSE parent[g]
  BY CommittedParents
<1>3. tx'[r] = Idle /\ \A o \in Requests : o # r => tx'[o] = tx[o]
  BY CommittedParents
<1>4. live' \subseteq live \cup tx[r].born /\ crossed' = crossed
  BY CommittedParents
<1>5. NewRowsAreApart'
  <2>1. SUFFICES ASSUME NEW q \in Requests, q # r, NEW x \in tx[q].born
                 PROVE  /\ x \notin live'
                        /\ \A g \in Folders : parent'[g] # x
                        /\ \A o \in Requests \ {q} :
                             /\ x \notin tx'[o].born
                             /\ \A g \in DOMAIN tx'[o].parent : tx'[o].parent[g] # x
    BY <1>3, IdleHasNothing DEF NewRowsAreApart
  <2>2. /\ x \notin live
        /\ \A g \in Folders : parent[g] # x
        /\ \A o \in Requests \ {q} :
             /\ x \notin tx[o].born
             /\ \A g \in DOMAIN tx[o].parent : tx[o].parent[g] # x
    BY <2>1 DEF TreeInv, NewRowsAreApart
  <2>3. \A g \in Folders : parent'[g] # x
    BY <1>2, <2>1, <2>2
  <2>4. \A o \in Requests \ {q} :
             /\ x \notin tx'[o].born
             /\ \A g \in DOMAIN tx'[o].parent : tx'[o].parent[g] # x
    BY <1>3, <2>2, IdleHasNothing
  <2>5. QED
    BY <1>4, <2>1, <2>2, <2>3, <2>4
<1>6. OnlyMovesMove'
  BY <1>3, IdleHasNothing DEF OnlyMovesMove, TreeInv
<1>7. MovesAreApart'
  BY <1>3, <1>4, IdleHasNothing DEF MovesAreApart, TreeInv
<1>8. MovesStaySafe'
  <2>1. SUFFICES ASSUME "tree" \notin crossed, NEW o \in Requests, tx'[o].op = "move"
                 PROVE  \E f \in Folders, p \in Places :
                          /\ tx'[o].parent = [x \in {f} |-> p]
                          /\ \E D \in SUBSET Folders :
                               /\ f \in D /\ p \notin D
                               /\ \A g \in Folders : parent'[g] \in D => g \in D
    BY <1>4 DEF MovesStaySafe, ClosedBelow
  <2>2. o # r /\ tx'[o] = tx[o] /\ tx[o].op = "move"
    BY <1>3, <2>1, IdleHasNothing
  <2>3. tx[r].op # "move"
    BY <2>1, <2>2 DEF TreeInv, MovesAreApart
  <2>4. PICK f \in Folders, p \in Places :
          /\ tx[o].parent = [x \in {f} |-> p]
          /\ \E D \in SUBSET Folders : f \in D /\ ClosedBelow(D) /\ p \notin D
    BY <2>1, <2>2 DEF TreeInv, MovesStaySafe
  <2>5. PICK D \in SUBSET Folders : f \in D /\ ClosedBelow(D) /\ p \notin D
    BY <2>4
  <2>6. X \subseteq tx[r].born
    BY <2>3 DEF TreeInv, OnlyMovesMove
  <2>7. \A g \in Folders : parent[g] \notin X
    BY <2>6 DEF TreeInv, NewRowsAreApart
  <2>8. p \notin X
    BY <2>2, <2>4, <2>6 DEF TreeInv, NewRowsAreApart
  <2>9. \A g \in Folders : parent'[g] \in D \cup X => g \in D \cup X
    BY <1>2, <2>5, <2>7 DEF ClosedBelow
  <2>10. D \cup X \in SUBSET Folders /\ f \in D \cup X /\ p \notin D \cup X
    BY <1>1, <2>5, <2>8
  <2>11. tx'[o].parent = [x \in {f} |-> p]
    BY <2>2, <2>4
  <2>12. PICK E \in SUBSET Folders : E = D \cup X
    BY <2>10
  <2>13. /\ f \in E /\ p \notin E
         /\ \A g \in Folders : parent'[g] \in E => g \in E
    BY <2>9, <2>10, <2>12
  <2>14. QED
    BY <2>11, <2>13
<1>9. InsertsAreForests'
  BY <1>3, <1>4, IdleHasNothing DEF InsertsAreForests, TreeInv
<1>10. TreeUnlessMovesCross'
  BY <1>4, CommittedMoveKeepsTree, CommittedInsertKeepsTree DEF TreeUnlessMovesCross
<1>11. QED
  BY <1>5, <1>6, <1>7, <1>8, <1>9, <1>10 DEF TreeInv

LEMMA RollbackTree ==
  ASSUME TypeOK, TreeInv, NEW r \in Requests, Rollback(r)
  PROVE  TreeInv'
<1>1. tx'[r] = Idle /\ \A o \in Requests : o # r => tx'[o] = tx[o]
  BY DEF TypeOK, Rollback
<1>2. live' = live /\ parent' = parent /\ crossed' = crossed
  BY DEF Rollback
<1>3. NewRowsAreApart'
  BY <1>1, <1>2, IdleHasNothing DEF NewRowsAreApart, TreeInv
<1>4. OnlyMovesMove' /\ MovesAreApart' /\ InsertsAreForests'
  BY <1>1, <1>2, IdleHasNothing DEF OnlyMovesMove, MovesAreApart, InsertsAreForests, TreeInv
<1>5. MovesStaySafe'
  BY <1>1, <1>2, IdleHasNothing DEF MovesStaySafe, ClosedBelow, TreeInv
<1>6. TreeUnlessMovesCross'
  BY <1>2 DEF TreeUnlessMovesCross, ParentChainsEnd, TreeInv
<1>7. QED
  BY <1>3, <1>4, <1>5, <1>6 DEF TreeInv

LEMMA NextTree == TypeOK /\ TreeInv /\ [Next]_vars => TreeInv'
<1>1. SUFFICES ASSUME TypeOK, TreeInv, [Next]_vars PROVE TreeInv'
  OBVIOUS
<1>2. CASE UNCHANGED vars
  BY <1>1, <1>2 DEF vars, TreeInv, NewRowsAreApart, OnlyMovesMove, MovesAreApart, MovesStaySafe,
        InsertsAreForests, TreeUnlessMovesCross, ParentChainsEnd, ClosedBelow
<1>3. ASSUME NEW r \in Requests, tx[r] = Idle, OnFolders(r) \/ OnAssets(r) PROVE TreeInv'
  BY <1>1, <1>3, RequestsFit, BeginTree
<1>4. ASSUME NEW r \in Requests, Commit(r) PROVE TreeInv'
  BY <1>1, <1>4, CommitTree
<1>5. ASSUME NEW r \in Requests, Rollback(r) PROVE TreeInv'
  BY <1>1, <1>5, RollbackTree
<1>6. QED
  BY <1>1, <1>2, <1>3, <1>4, <1>5 DEF Next

(* For any number of requests, folders and files: whatever runs beside a move, other than a     *)
(* second move, leaves its check of the descendants true up to its commit, and the folders of a *)
(* space stay a tree (folders.py 122-140).                                                      *)
THEOREM FoldersStayATree == Spec => []TreeUnlessMovesCross
<1>1. Init => TypeOK /\ TreeInv
  BY InitType, InitTree
<1>2. TypeOK /\ TreeInv /\ [Next]_vars => (TypeOK /\ TreeInv)'
  BY NextType, NextTree
<1>3. TypeOK /\ TreeInv => TreeUnlessMovesCross
  BY DEF TreeInv
<1>4. QED
  BY <1>1, <1>2, <1>3, PTL DEF Spec

-----------------------------------------------------------------------------
(* What two requests have put at risk, and what each of them writes. *)

RequestsFormed == \A r \in Requests : Formed(tx[r])

LEMMA IdleIsFormed ==
  /\ Formed(Idle) /\ CountsOn(Idle) /\ Cascades(Idle) /\ Sweeps(Idle)
  /\ Idle.op \notin Naming \cup Nesting \cup Placing \cup Counting \cup {"delete_folder"}
<1>1. /\ Idle.op = "idle" /\ Idle.born = {} /\ Idle.gone = {} /\ Idle.adds = 0
      /\ DOMAIN Idle.parent = {} /\ DOMAIN Idle.name = {} /\ DOMAIN Idle.folder = {}
  BY DEF Idle, Nothing
<1>2. QED
  BY <1>1, Counts
     DEF Formed, CountsOn, Cascades, Sweeps, Naming, Nesting, Placing, Counting

LEMMA BeginMoves ==
  ASSUME TypeOK, NEW r \in Requests, NEW t, Begin(r, t), Fits(t)
  PROVE  /\ tx'[r] = t /\ \A o \in Requests : o # r => tx'[o] = tx[o]
         /\ live' = live /\ name' = name /\ folder' = folder /\ files' = files
         /\ crossed \subseteq crossed'
         /\ \A o \in Requests \ {r} : Risks(t.op, tx[o].op) \subseteq crossed'
         /\ \A g \in Folders : parent'[g] = IF g \in t.born THEN Root ELSE parent[g]
         /\ \A x \in t.born : x \notin live
         /\ t.born \subseteq Folders \cup Assets /\ t.gone \subseteq Folders \cup Assets
  BY DEF TypeOK, Begin, Fits, Unused, Transactions

LEMMA CommitMoves ==
  ASSUME TypeOK, NEW r \in Requests, Commit(r)
  PROVE  /\ tx'[r] = Idle /\ \A o \in Requests : o # r => tx'[o] = tx[o]
         /\ live' = (live \cup tx[r].born) \ tx[r].gone
         /\ crossed' = crossed
         /\ parent' = Over(tx[r].parent, parent)
         /\ name' = Over(tx[r].name, name)
         /\ \A g \in Folders :
              /\ parent'[g] = IF g \in DOMAIN tx[r].parent THEN tx[r].parent[g] ELSE parent[g]
              /\ name'[g] = IF g \in DOMAIN tx[r].name THEN tx[r].name[g] ELSE name[g]
         /\ \A a \in Assets :
              folder'[a] = IF a \in DOMAIN tx[r].folder THEN tx[r].folder[a] ELSE folder[a]
         /\ tx[r] \in Transactions
  BY DEF TypeOK, Commit, Over

LEMMA RollbackMoves ==
  ASSUME TypeOK, NEW r \in Requests, Rollback(r)
  PROVE  /\ tx'[r] = Idle /\ \A o \in Requests : o # r => tx'[o] = tx[o]
         /\ live' = live /\ parent' = parent /\ name' = name /\ folder' = folder
         /\ files' = files /\ crossed' = crossed
  BY DEF TypeOK, Rollback

LEMMA FormedStep ==
  ASSUME TypeOK, RequestsFormed, [Next]_vars
  PROVE  RequestsFormed'
<1>1. ASSUME NEW r \in Requests, OnFolders(r) \/ OnAssets(r) PROVE RequestsFormed'
  <2>1. PICK t : Begin(r, t) /\ Fits(t)
    BY <1>1, RequestsFit
  <2>2. tx'[r] = t /\ \A o \in Requests : o # r => tx'[o] = tx[o]
    BY <2>1, BeginMoves
  <2>3. QED
    BY <2>1, <2>2 DEF RequestsFormed, Fits
<1>2. ASSUME NEW r \in Requests, Commit(r) \/ Rollback(r) PROVE RequestsFormed'
  BY <1>2, CommitMoves, RollbackMoves, IdleIsFormed DEF RequestsFormed
<1>3. CASE UNCHANGED vars
  BY <1>3 DEF vars, RequestsFormed
<1>4. QED
  BY <1>1, <1>2, <1>3 DEF Next

-----------------------------------------------------------------------------
(* Names. *)

\* Inductive: what the only request that names folders has checked stays true up to its commit.
NamesInv ==
    /\ "tree" \in crossed => "names" \in crossed
    /\ "names" \notin crossed =>
         /\ NamesDiffer
         /\ \A r \in Requests : tx[r].op \in Naming => NamesWillDiffer(tx[r])
         /\ \A r, o \in Requests : tx[r].op \in Naming /\ tx[o].op \in Naming => r = o

LEMMA BeginNames ==
  ASSUME TypeOK, TreeInv, NamesInv, NEW r \in Requests, NEW t, Begin(r, t), Fits(t), tx[r] = Idle
  PROVE  NamesInv'
<1>1. Formed(t)
  BY DEF Fits
<1>2. \A o \in Requests \ {r} : /\ "tree" \in Risks(t.op, tx[o].op) => "names" \in crossed'
                                /\ t.op \in Naming /\ tx[o].op \in Naming => "names" \in crossed'
  <2>1. TAKE o \in Requests \ {r}
  <2>2. /\ "tree" \in Risks(t.op, tx[o].op) => "names" \in Risks(t.op, tx[o].op)
        /\ t.op \in Naming /\ tx[o].op \in Naming => "names" \in Risks(t.op, tx[o].op)
    BY DEF Risks, Promises, Naming
  <2>3. QED
    BY <2>2, BeginMoves
<1>3. "tree" \in crossed' => "names" \in crossed'
  BY <1>2, BeginMoves DEF Begin, NamesInv
<1>4. SUFFICES ASSUME "names" \notin crossed'
               PROVE  /\ NamesDiffer'
                      /\ \A o \in Requests : tx'[o].op \in Naming => NamesWillDiffer(tx[o])'
                      /\ \A q, o \in Requests :
                            tx'[q].op \in Naming /\ tx'[o].op \in Naming => q = o
  BY <1>3 DEF NamesInv
<1>5. "names" \notin crossed /\ ParentChainsEnd
  BY <1>4, BeginMoves DEF NamesInv, TreeInv, TreeUnlessMovesCross
<1>6. NamesDiffer'
  BY <1>5, BeginMoves DEF NamesInv, NamesDiffer
<1>7. NamesWillDiffer(t)'
  <2>1. NamesWillDiffer(t)
    BY <1>5 DEF NamesInv, Fits
  <2>2. \A g \in Folders \cap (live \cup t.born) :
          /\ Over(t.parent, parent')[g] = Over(t.parent, parent)[g]
          /\ Over(t.name, name')[g] = Over(t.name, name)[g]
    <3>1. DOMAIN parent = Folders /\ DOMAIN parent' = Folders
      BY DEF TypeOK, Begin
    <3>2. QED
      BY <1>1, <3>1, BeginMoves DEF Over, Formed
  <2>3. live' = live
    BY BeginMoves
  <2>4. QED
    BY <2>1, <2>2, <2>3 DEF NamesWillDiffer
<1>8. ASSUME NEW o \in Requests \ {r}, tx[o].op \in Naming, NEW u, u = tx[o]
      PROVE  NamesWillDiffer(u)'
  <2>1. t.op \notin Naming
    BY <1>2, <1>4, <1>8
  <2>2. parent' = parent
    <3>1. t.born \cap Folders = {}
      BY <1>1, <2>1 DEF Formed, Naming, Nesting
    <3>2. QED
      BY <3>1 DEF TypeOK, Begin
  <2>3. live' = live /\ name' = name
    BY BeginMoves
  <2>4. NamesWillDiffer(u)
    BY <1>5, <1>8 DEF NamesInv
  <2>5. QED
    BY <2>2, <2>3, <2>4 DEF NamesWillDiffer
<1>9. \A o \in Requests : tx'[o].op \in Naming => NamesWillDiffer(tx[o])'
  <2>1. TAKE o \in Requests
  <2>2. CASE o = r
    <3>1. tx'[o] = t
      BY <2>2, BeginMoves
    <3>2. QED
      BY <1>7, <3>1 DEF NamesWillDiffer
  <2>3. CASE o # r
    <3>1. tx'[o] = tx[o]
      BY <2>3, BeginMoves
    <3>2. QED
      BY <1>8, <2>3, <3>1 DEF NamesWillDiffer
  <2>4. QED
    BY <2>2, <2>3
<1>10. \A q, o \in Requests : tx'[q].op \in Naming /\ tx'[o].op \in Naming => q = o
  BY <1>2, <1>4, <1>5, BeginMoves DEF NamesInv
<1>11. QED
  BY <1>6, <1>9, <1>10

LEMMA CommitNames ==
  ASSUME TypeOK, RequestsFormed, NamesInv, NEW r \in Requests, Commit(r)
  PROVE  NamesInv'
<1> DEFINE t == tx[r]
<1>1. SUFFICES ASSUME "names" \notin crossed
               PROVE  /\ NamesDiffer'
                      /\ \A o \in Requests : tx'[o].op \in Naming => NamesWillDiffer(tx[o])'
                      /\ \A q, o \in Requests :
                            tx'[q].op \in Naming /\ tx'[o].op \in Naming => q = o
  BY CommitMoves DEF NamesInv
<1>2. \A q, o \in Requests : tx'[q].op \in Naming /\ tx'[o].op \in Naming => q = o
  BY <1>1, CommitMoves, IdleIsFormed DEF NamesInv
<1>3. NamesDiffer /\ Formed(t)
  BY <1>1 DEF NamesInv, RequestsFormed
<1>4. CASE t.op \in Naming
  <2>1. NamesDiffer'
    BY <1>1, <1>4, CommitMoves DEF NamesInv, NamesWillDiffer, NamesDiffer
  <2>2. \A o \in Requests : tx'[o].op \notin Naming
    BY <1>1, <1>4, CommitMoves, IdleIsFormed DEF NamesInv
  <2>3. QED
    BY <1>2, <2>1, <2>2
<1>5. CASE t.op \notin Naming
  <2>1. DOMAIN t.parent = {} /\ DOMAIN t.name = {} /\ t.born \cap Folders = {}
    BY <1>3, <1>5 DEF Formed, Naming, Nesting
  <2>2. parent' = parent /\ name' = name
    <3>1. Over(t.parent, parent) = parent /\ Over(t.name, name) = name
      BY <2>1 DEF Over, TypeOK
    <3>2. QED
      BY <3>1, CommitMoves
  <2>3. live' \cap Folders \subseteq live
    BY <2>1, CommitMoves
  <2>4. NamesDiffer'
    BY <1>3, <2>2, <2>3 DEF NamesDiffer
  <2>5. ASSUME NEW o \in Requests, tx'[o].op \in Naming PROVE NamesWillDiffer(tx[o])'
    <3>1. tx'[o] = tx[o] /\ NamesWillDiffer(tx[o])
      BY <1>1, <2>5, CommitMoves, IdleIsFormed DEF NamesInv
    <3>2. QED
      BY <2>2, <2>3, <3>1 DEF NamesWillDiffer
  <2>6. QED
    BY <1>2, <2>4, <2>5
<1>6. QED
  BY <1>4, <1>5

LEMMA RollbackNames ==
  ASSUME TypeOK, NamesInv, NEW r \in Requests, Rollback(r)
  PROVE  NamesInv'
<1>1. /\ live' = live /\ parent' = parent /\ name' = name /\ crossed' = crossed
      /\ \A o \in Requests : tx'[o].op \in Naming => tx'[o] = tx[o]
  BY RollbackMoves, IdleIsFormed
<1>2. NamesDiffer' = NamesDiffer
  BY <1>1 DEF NamesDiffer
<1>3. ASSUME NEW o \in Requests, tx'[o].op \in Naming, NamesWillDiffer(tx[o])
      PROVE  NamesWillDiffer(tx[o])'
  BY <1>1, <1>3 DEF NamesWillDiffer
<1>4. QED
  BY <1>1, <1>2, <1>3 DEF NamesInv

(* Names are kept apart by the check alone, in any number of requests of which no two name or     *)
(* place a folder at once: also a copy of a tree, part of which may go into folders that were     *)
(* there, gives no two folders of one parent one name (folders.py 88-118, 245-330).               *)
THEOREM FoldersKeepNamesApart == Spec => []NamesDifferUnlessCrossed
<1>1. Init => NamesInv /\ RequestsFormed
  BY IdleIsFormed DEF Init, NamesInv, NamesDiffer, RequestsFormed
<1>2. TypeOK /\ TreeInv /\ RequestsFormed /\ NamesInv /\ [Next]_vars => NamesInv'
  <2>1. SUFFICES ASSUME TypeOK, TreeInv, RequestsFormed, NamesInv, [Next]_vars
                 PROVE  NamesInv'
    OBVIOUS
  <2>2. ASSUME NEW r \in Requests, tx[r] = Idle, OnFolders(r) \/ OnAssets(r) PROVE NamesInv'
    BY <2>1, <2>2, RequestsFit, BeginNames
  <2>3. ASSUME NEW r \in Requests, Commit(r) \/ Rollback(r) PROVE NamesInv'
    BY <2>1, <2>3, CommitNames, RollbackNames
  <2>4. CASE UNCHANGED vars
    BY <2>1, <2>4 DEF vars, NamesInv, NamesDiffer, NamesWillDiffer
  <2>5. QED
    BY <2>1, <2>2, <2>3, <2>4 DEF Next
<1>3. NamesInv => NamesDifferUnlessCrossed
  BY DEF NamesInv, NamesDiffer, NamesDifferUnlessCrossed
<1>4. QED
  BY <1>1, <1>2, <1>3, InitType, InitTree, NextType, NextTree, FormedStep, PTL DEF Spec

-----------------------------------------------------------------------------
(* Deleted folders. *)

\* Inductive: with no cascade beside a request that puts a folder somewhere, the folders that
\* the cascade takes are closed under children, and where the others put theirs is live.
NestInv ==
    "nesting" \notin crossed =>
        /\ \A f \in Folders \cap live : IsPlace(parent[f])
        /\ \A r \in Requests : Cascades(tx[r])
        /\ \A r, o \in Requests : tx[r].op = "delete_folder" => tx[o].op \notin Nesting

PlaceInv ==
    "placing" \notin crossed =>
        /\ \A a \in Assets \cap live : IsPlace(folder[a])
        /\ \A r \in Requests : Sweeps(tx[r])
        /\ \A r, o \in Requests : tx[r].op = "delete_folder" => tx[o].op \notin Placing

LEMMA BeginCrosses ==
  ASSUME TypeOK, NEW r \in Requests, NEW t, Begin(r, t), Fits(t)
  PROVE  \A q, o \in Requests :
           (q = r \/ o = r) /\ q # o =>
             /\ tx'[q].op = "delete_folder" /\ tx'[o].op \in Nesting => "nesting" \in crossed'
             /\ tx'[q].op = "delete_folder" /\ tx'[o].op \in Placing => "placing" \in crossed'
             /\ tx'[q].op \in Counting /\ tx'[o].op \in Counting => "usage" \in crossed'
<1>1. TAKE q, o \in Requests
<1>2. SUFFICES ASSUME q = r \/ o = r, q # o
               PROVE  /\ tx'[q].op = "delete_folder" /\ tx'[o].op \in Nesting
                           => "nesting" \in crossed'
                      /\ tx'[q].op = "delete_folder" /\ tx'[o].op \in Placing
                           => "placing" \in crossed'
                      /\ tx'[q].op \in Counting /\ tx'[o].op \in Counting
                           => "usage" \in crossed'
  OBVIOUS
<1>3. \A a, b : /\ a = "delete_folder" /\ b \in Nesting
                     => "nesting" \in Risks(a, b) /\ "nesting" \in Risks(b, a)
                /\ a = "delete_folder" /\ b \in Placing
                     => "placing" \in Risks(a, b) /\ "placing" \in Risks(b, a)
                /\ a \in Counting /\ b \in Counting
                     => "usage" \in Risks(a, b) /\ "usage" \in Risks(b, a)
  <2>1. TAKE a, b
  <2>2. a = "delete_folder" /\ b \in Nesting
           => "nesting" \in Risks(a, b) /\ "nesting" \in Risks(b, a)
    BY DEF Risks, Promises, Nesting
  <2>3. a = "delete_folder" /\ b \in Placing
           => "placing" \in Risks(a, b) /\ "placing" \in Risks(b, a)
    BY DEF Risks, Promises, Placing
  <2>4. a \in Counting /\ b \in Counting
           => "usage" \in Risks(a, b) /\ "usage" \in Risks(b, a)
    BY DEF Risks, Promises, Counting
  <2>5. QED
    BY <2>2, <2>3, <2>4
<1>4. CASE q = r
  <2>1. tx'[q] = t /\ tx'[o] = tx[o] /\ Risks(t.op, tx[o].op) \subseteq crossed'
    BY <1>2, <1>4, BeginMoves
  <2>2. QED
    BY <1>3, <2>1
<1>5. CASE o = r
  <2>1. tx'[o] = t /\ tx'[q] = tx[q] /\ Risks(t.op, tx[q].op) \subseteq crossed'
    BY <1>2, <1>5, BeginMoves
  <2>2. QED
    BY <1>3, <2>1
<1>6. QED
  BY <1>2, <1>4, <1>5

LEMMA BeginNest ==
  ASSUME TypeOK, NestInv, NEW r \in Requests, NEW t, Begin(r, t), Fits(t)
  PROVE  NestInv'
<1>1. SUFFICES ASSUME "nesting" \notin crossed'
               PROVE  /\ \A f \in Folders \cap live' : IsPlace(parent[f])'
                      /\ \A o \in Requests : Cascades(tx[o])'
                      /\ \A q, o \in Requests :
                            tx'[q].op = "delete_folder" => tx'[o].op \notin Nesting
  BY DEF NestInv
<1>2. /\ \A f \in Folders \cap live : IsPlace(parent[f])
      /\ \A o \in Requests : Cascades(tx[o])
      /\ \A q, o \in Requests : tx[q].op = "delete_folder" => tx[o].op \notin Nesting
  BY <1>1, BeginMoves DEF NestInv
<1>3. /\ tx'[r] = t /\ \A o \in Requests : o # r => tx'[o] = tx[o]
      /\ live' = live
      /\ \A g \in Folders : parent'[g] = IF g \in t.born THEN Root ELSE parent[g]
      /\ \A x \in t.born : x \notin live
  BY BeginMoves
<1>4. \A f \in Folders \cap live' : IsPlace(parent[f])'
  BY <1>2, <1>3 DEF IsPlace
<1>5. \A o \in Requests : Root \notin tx[o].gone
  BY RootAssumption DEF TypeOK, Transactions
<1>6. ASSUME NEW o \in Requests, o # r PROVE Cascades(tx[o])'
  <2>1. tx'[o] = tx[o] /\ Cascades(tx[o])
    BY <1>2, <1>3, <1>6
  <2>2. QED
    BY <1>3, <1>5, <2>1 DEF Cascades, IsPlace
<1>7. Cascades(tx[r])'
  <2>1. Cascades(t) /\ Formed(t)
    BY DEF Fits
  <2>2. t.op = "delete_folder" => t.born \cap Folders = {}
    BY <2>1 DEF Formed, Nesting
  <2>3. QED
    BY <1>3, <2>1, <2>2 DEF Cascades, IsPlace
<1>8. \A q, o \in Requests : tx'[q].op = "delete_folder" => tx'[o].op \notin Nesting
  <2>1. TAKE q, o \in Requests
  <2>2. CASE q = o
    BY <2>2 DEF Nesting
  <2>3. CASE q # r /\ o # r
    BY <1>2, <1>3, <2>3
  <2>4. CASE q # o /\ (q = r \/ o = r)
    BY <1>1, <2>4, BeginCrosses
  <2>5. QED
    BY <2>2, <2>3, <2>4
<1>9. QED
  BY <1>4, <1>6, <1>7, <1>8

LEMMA CommitNest ==
  ASSUME TypeOK, RequestsFormed, NestInv, NEW r \in Requests, Commit(r)
  PROVE  NestInv'
<1>1. SUFFICES ASSUME "nesting" \notin crossed
               PROVE  /\ \A f \in Folders \cap live' : IsPlace(parent[f])'
                      /\ \A o \in Requests : Cascades(tx[o])'
                      /\ \A q, o \in Requests :
                            tx'[q].op = "delete_folder" => tx'[o].op \notin Nesting
  BY CommitMoves DEF NestInv
<1>2. PICK t : t = tx[r]
  OBVIOUS
<1>3. /\ tx'[r] = Idle /\ \A o \in Requests : o # r => tx'[o] = tx[o]
      /\ live' = (live \cup t.born) \ t.gone
      /\ \A g \in Folders :
           parent'[g] = IF g \in DOMAIN t.parent THEN t.parent[g] ELSE parent[g]
  BY <1>2, CommitMoves
<1>4. /\ \A f \in Folders \cap live : IsPlace(parent[f])
      /\ \A o \in Requests : Cascades(tx[o])
      /\ \A q, o \in Requests : tx[q].op = "delete_folder" => tx[o].op \notin Nesting
  BY <1>1 DEF NestInv
<1>5. Formed(t) /\ Cascades(t) /\ t \in Transactions
  BY <1>2, <1>4, CommitMoves DEF RequestsFormed
<1>6. /\ \A g \in Folders : parent[g] \in Places
      /\ DOMAIN t.parent \subseteq Folders
      /\ \A g \in DOMAIN t.parent : t.parent[g] \in Places
      /\ t.gone \subseteq Folders \cup Assets
  BY <1>5, PartialDomain DEF TypeOK, Transactions
<1>7. \A q, o \in Requests : tx'[q].op = "delete_folder" => tx'[o].op \notin Nesting
  BY <1>3, <1>4, IdleIsFormed
<1>8. CASE t.op = "delete_folder"
  <2>1. DOMAIN t.parent = {} /\ t.born \cap Folders = {}
    BY <1>5, <1>8 DEF Formed, Nesting
  <2>2. \A g \in Folders : parent'[g] = parent[g]
    BY <1>3, <2>1
  <2>3. \A f \in Folders \cap live' : IsPlace(parent[f])'
    BY <1>3, <1>4, <1>5, <1>8, <2>1, <2>2 DEF IsPlace, Cascades
  <2>4. ASSUME NEW o \in Requests PROVE Cascades(tx[o])'
    <3>1. CASE o = r
      BY <1>3, <3>1, IdleHasNothing DEF Cascades
    <3>2. CASE o # r
      <4>1. tx'[o] = tx[o] /\ Cascades(tx[o]) /\ Formed(tx[o]) /\ tx[o].op \notin Nesting
        BY <1>2, <1>3, <1>4, <1>8, <3>2 DEF RequestsFormed
      <4>2. DOMAIN tx[o].parent = {}
        BY <4>1 DEF Formed
      <4>3. QED
        BY <2>2, <4>1, <4>2 DEF Cascades
    <3>3. QED
      BY <3>1, <3>2
  <2>5. QED
    BY <1>7, <2>3, <2>4
<1>9. CASE t.op # "delete_folder"
  <2>1. t.gone \cap Folders = {} /\ t.born \cap Folders \subseteq DOMAIN t.parent
    BY <1>5, <1>9 DEF Formed
  <2>2. \A p \in Places : IsPlace(p) \/ p \in t.born => IsPlace(p)'
    BY <1>3, <2>1, RootAssumption DEF IsPlace, Places
  <2>3. \A f \in Folders \cap live' : IsPlace(parent[f])'
    <3>1. TAKE f \in Folders \cap live'
    <3>2. CASE f \in DOMAIN t.parent
      <4>1. parent'[f] = t.parent[f] /\ (IsPlace(t.parent[f]) \/ t.parent[f] \in t.born)
        BY <1>3, <1>5, <1>9, <3>2 DEF Cascades
      <4>2. QED
        BY <1>6, <2>2, <3>2, <4>1 DEF IsPlace
    <3>3. CASE f \notin DOMAIN t.parent
      <4>1. parent'[f] = parent[f] /\ f \in live
        BY <1>3, <2>1, <3>3
      <4>2. QED
        BY <1>4, <1>6, <2>2, <4>1 DEF IsPlace
    <3>4. QED
      BY <3>2, <3>3
  <2>4. ASSUME NEW o \in Requests PROVE Cascades(tx[o])'
    <3>1. CASE o = r
      BY <1>3, <3>1, IdleHasNothing DEF Cascades
    <3>2. CASE o # r /\ tx[o].op = "delete_folder"
      <4>1. tx'[o] = tx[o] /\ Cascades(tx[o]) /\ DOMAIN t.parent = {}
        BY <1>2, <1>3, <1>4, <1>5, <3>2 DEF Formed
      <4>2. QED
        BY <1>3, <3>2, <4>1 DEF Cascades
    <3>3. CASE o # r /\ tx[o].op # "delete_folder"
      <4>1. tx'[o] = tx[o] /\ Cascades(tx[o])
        BY <1>3, <1>4, <3>3
      <4>2. \A g \in DOMAIN tx[o].parent : tx[o].parent[g] \in Places
        BY PartialDomain DEF TypeOK, Transactions
      <4>3. ASSUME NEW g \in DOMAIN tx[o].parent
            PROVE  tx[o].parent[g] \in tx[o].born \/ (tx[o].parent[g] = Root \/ tx[o].parent[g] \in live')
        BY <2>2, <3>3, <4>1, <4>2 DEF Cascades, IsPlace
      <4>4. QED
        BY <3>3, <4>1, <4>3 DEF Cascades, IsPlace
    <3>4. QED
      BY <3>1, <3>2, <3>3
  <2>5. QED
    BY <1>7, <2>3, <2>4
<1>10. QED
  BY <1>8, <1>9

LEMMA RollbackNest ==
  ASSUME TypeOK, NestInv, PlaceInv, NEW r \in Requests, Rollback(r)
  PROVE  NestInv' /\ PlaceInv'
<1>1. /\ live' = live /\ parent' = parent /\ folder' = folder /\ crossed' = crossed
      /\ \A o \in Requests : tx'[o] = tx[o] \/ tx'[o] = Idle
  BY RollbackMoves
<1>2. \A o \in Requests : (Cascades(tx[o]) => Cascades(tx[o])') /\ (Sweeps(tx[o]) => Sweeps(tx[o])')
  BY <1>1, IdleIsFormed DEF Cascades, Sweeps, IsPlace
<1>3. \A q, o \in Requests :
        /\ tx'[q].op = "delete_folder" => tx[q].op = "delete_folder"
        /\ tx'[o].op \in Nesting => tx[o].op \in Nesting
        /\ tx'[o].op \in Placing => tx[o].op \in Placing
  BY <1>1, IdleIsFormed
<1>4. NestInv'
  BY <1>1, <1>2, <1>3 DEF NestInv, IsPlace
<1>5. QED
  BY <1>1, <1>2, <1>3, <1>4 DEF PlaceInv, IsPlace

LEMMA BeginPlace ==
  ASSUME TypeOK, PlaceInv, NEW r \in Requests, NEW t, Begin(r, t), Fits(t)
  PROVE  PlaceInv'
<1>1. SUFFICES ASSUME "placing" \notin crossed'
               PROVE  /\ \A a \in Assets \cap live' : IsPlace(folder[a])'
                      /\ \A o \in Requests : Sweeps(tx[o])'
                      /\ \A q, o \in Requests :
                            tx'[q].op = "delete_folder" => tx'[o].op \notin Placing
  BY DEF PlaceInv
<1>2. /\ \A a \in Assets \cap live : IsPlace(folder[a])
      /\ \A o \in Requests : Sweeps(tx[o])
      /\ \A q, o \in Requests : tx[q].op = "delete_folder" => tx[o].op \notin Placing
  BY <1>1, BeginMoves DEF PlaceInv
<1>3. /\ tx'[r] = t /\ \A o \in Requests : o # r => tx'[o] = tx[o]
      /\ live' = live /\ folder' = folder
  BY BeginMoves
<1>4. \A a \in Assets \cap live' : IsPlace(folder[a])'
  BY <1>2, <1>3 DEF IsPlace
<1>5. ASSUME NEW o \in Requests PROVE Sweeps(tx[o])'
  <2>1. CASE o = r
    BY <1>3, <2>1 DEF Fits, Sweeps, IsPlace
  <2>2. CASE o # r
    <3>1. tx'[o] = tx[o] /\ Sweeps(tx[o])
      BY <1>2, <1>3, <2>2
    <3>2. QED
      BY <1>3, <3>1 DEF Sweeps, IsPlace
  <2>3. QED
    BY <2>1, <2>2
<1>6. \A q, o \in Requests : tx'[q].op = "delete_folder" => tx'[o].op \notin Placing
  <2>1. TAKE q, o \in Requests
  <2>2. CASE q = o
    BY <2>2 DEF Placing
  <2>3. CASE q # r /\ o # r
    BY <1>2, <1>3, <2>3
  <2>4. CASE q # o /\ (q = r \/ o = r)
    BY <1>1, <2>4, BeginCrosses
  <2>5. QED
    BY <2>2, <2>3, <2>4
<1>7. QED
  BY <1>4, <1>5, <1>6

LEMMA CommitPlace ==
  ASSUME TypeOK, RequestsFormed, PlaceInv, NEW r \in Requests, Commit(r)
  PROVE  PlaceInv'
<1>1. SUFFICES ASSUME "placing" \notin crossed
               PROVE  /\ \A a \in Assets \cap live' : IsPlace(folder[a])'
                      /\ \A o \in Requests : Sweeps(tx[o])'
                      /\ \A q, o \in Requests :
                            tx'[q].op = "delete_folder" => tx'[o].op \notin Placing
  BY CommitMoves DEF PlaceInv
<1>2. PICK t : t = tx[r]
  OBVIOUS
<1>3. /\ tx'[r] = Idle /\ \A o \in Requests : o # r => tx'[o] = tx[o]
      /\ live' = (live \cup t.born) \ t.gone
      /\ \A a \in Assets :
           folder'[a] = IF a \in DOMAIN t.folder THEN t.folder[a] ELSE folder[a]
  BY <1>2, CommitMoves
<1>4. /\ \A a \in Assets \cap live : IsPlace(folder[a])
      /\ \A o \in Requests : Sweeps(tx[o])
      /\ \A q, o \in Requests : tx[q].op = "delete_folder" => tx[o].op \notin Placing
  BY <1>1 DEF PlaceInv
<1>5. Formed(t) /\ Sweeps(t) /\ t \in Transactions
  BY <1>2, <1>4, CommitMoves DEF RequestsFormed
<1>6. /\ \A a \in Assets : folder[a] \in Places
      /\ DOMAIN t.folder \subseteq Assets
      /\ \A a \in DOMAIN t.folder : t.folder[a] \in Places
  BY <1>5, PartialDomain DEF TypeOK, Transactions
<1>7. \A q, o \in Requests : tx'[q].op = "delete_folder" => tx'[o].op \notin Placing
  BY <1>3, <1>4, IdleIsFormed
<1>8. Sweeps(tx[r])'
  BY <1>3, IdleHasNothing DEF Sweeps, Idle, Nothing
<1>9. CASE t.op = "delete_folder"
  <2>1. DOMAIN t.folder = {} /\ t.born \cap Assets = {}
    BY <1>5, <1>9 DEF Formed, Placing
  <2>2. \A a \in Assets : folder'[a] = folder[a]
    BY <1>3, <2>1
  <2>3. \A a \in Assets \cap live' : IsPlace(folder[a])'
    BY <1>3, <1>4, <1>5, <1>9, <2>1, <2>2 DEF IsPlace, Sweeps
  <2>4. ASSUME NEW o \in Requests, o # r PROVE Sweeps(tx[o])'
    <3>1. tx'[o] = tx[o] /\ Sweeps(tx[o]) /\ Formed(tx[o]) /\ tx[o].op \notin Placing
      BY <1>2, <1>3, <1>4, <1>9, <2>4 DEF RequestsFormed
    <3>2. DOMAIN tx[o].folder = {}
      BY <3>1 DEF Formed
    <3>3. Assets \cap live' \subseteq live
      BY <1>3, <2>1
    <3>4. QED
      BY <2>2, <3>1, <3>2, <3>3 DEF Sweeps
  <2>5. QED
    BY <1>7, <1>8, <2>3, <2>4
<1>10. CASE t.op # "delete_folder"
  <2>1. t.gone \cap Folders = {} /\ t.born \cap Assets \subseteq DOMAIN t.folder
    BY <1>5, <1>10 DEF Formed
  <2>2. \A p \in Places : IsPlace(p) \/ p \in t.born => IsPlace(p)'
    BY <1>3, <2>1, RootAssumption DEF IsPlace, Places
  <2>3. \A a \in Assets \cap live' : IsPlace(folder[a])'
    <3>1. TAKE a \in Assets \cap live'
    <3>2. CASE a \in DOMAIN t.folder
      <4>1. folder'[a] = t.folder[a] /\ (IsPlace(t.folder[a]) \/ t.folder[a] \in t.born)
        BY <1>3, <1>5, <1>10, <3>2 DEF Sweeps
      <4>2. QED
        BY <1>6, <2>2, <3>2, <4>1 DEF IsPlace
    <3>3. CASE a \notin DOMAIN t.folder
      <4>1. folder'[a] = folder[a] /\ a \in live
        BY <1>3, <2>1, <3>3
      <4>2. QED
        BY <1>4, <1>6, <2>2, <4>1 DEF IsPlace
    <3>4. QED
      BY <3>2, <3>3
  <2>4. ASSUME NEW o \in Requests, o # r PROVE Sweeps(tx[o])'
    <3>1. CASE tx[o].op = "delete_folder"
      <4>1. tx'[o] = tx[o] /\ Sweeps(tx[o]) /\ t.op \notin Placing
        BY <1>2, <1>3, <1>4, <2>4, <3>1
      <4>2. DOMAIN t.folder = {} /\ t.born \cap Assets = {}
        BY <1>5, <4>1 DEF Formed
      <4>3. QED
        BY <1>3, <3>1, <4>1, <4>2 DEF Sweeps
    <3>2. CASE tx[o].op # "delete_folder"
      <4>1. tx'[o] = tx[o] /\ Sweeps(tx[o])
        BY <1>3, <1>4, <2>4
      <4>2. \A a \in DOMAIN tx[o].folder : tx[o].folder[a] \in Places
        BY PartialDomain DEF TypeOK, Transactions
      <4>3. ASSUME NEW a \in DOMAIN tx[o].folder
            PROVE  \/ tx[o].folder[a] = Root \/ tx[o].folder[a] \in live'
                   \/ tx[o].folder[a] \in tx[o].born
        BY <2>2, <3>2, <4>1, <4>2 DEF Sweeps, IsPlace
      <4>4. QED
        BY <3>2, <4>1, <4>3 DEF Sweeps, IsPlace
    <3>3. QED
      BY <3>1, <3>2
  <2>5. QED
    BY <1>7, <1>8, <2>3, <2>4
<1>11. QED
  BY <1>9, <1>10

(* Whatever requests overlap, a live folder is in a live one, or at the top, unless a cascade     *)
(* has overlapped with a request that puts a folder somewhere; so for a file: every cascade takes *)
(* all of what is below its folder, deleted folders on the way included (folders.py 62-85,        *)
(* 333-389), and every other request looks whether its target is live.                            *)
THEOREM NothingStaysUnderDeleted == Spec => []NothingLiveUnderDeleted
<1>1. Init => NestInv /\ PlaceInv /\ RequestsFormed
  <2>1. SUFFICES ASSUME Init PROVE NestInv /\ PlaceInv /\ RequestsFormed
    OBVIOUS
  <2>2. live = {} /\ \A r \in Requests : tx[r] = Idle
    BY <2>1 DEF Init
  <2>3. QED
    BY <2>2, IdleIsFormed DEF NestInv, PlaceInv, RequestsFormed
<1>2. TypeOK /\ RequestsFormed /\ NestInv /\ PlaceInv /\ [Next]_vars => NestInv' /\ PlaceInv'
  <2>1. SUFFICES ASSUME TypeOK, RequestsFormed, NestInv, PlaceInv, [Next]_vars
                 PROVE  NestInv' /\ PlaceInv'
    OBVIOUS
  <2>2. ASSUME NEW r \in Requests, OnFolders(r) \/ OnAssets(r) PROVE NestInv' /\ PlaceInv'
    <3>1. PICK t : Begin(r, t) /\ Fits(t)
      BY <2>1, <2>2, RequestsFit
    <3>2. QED
      BY <2>1, <3>1, BeginNest, BeginPlace
  <2>3. ASSUME NEW r \in Requests, Commit(r) \/ Rollback(r) PROVE NestInv' /\ PlaceInv'
    BY <2>1, <2>3, CommitNest, CommitPlace, RollbackNest
  <2>4. CASE UNCHANGED vars
    BY <2>1, <2>4 DEF vars, NestInv, PlaceInv, Cascades, Sweeps, IsPlace
  <2>5. QED
    BY <2>1, <2>2, <2>3, <2>4 DEF Next
<1>3. NestInv /\ PlaceInv => NothingLiveUnderDeleted
  BY DEF NestInv, PlaceInv, NothingLiveUnderDeleted
<1>4. QED
  BY <1>1, <1>2, <1>3, InitType, NextType, FormedStep, PTL DEF Spec

-----------------------------------------------------------------------------
(* The counter. *)

\* Inductive: the only request that counts files goes on from the counter as it is, deletes
\* files that are live, and leaves room for those it adds.
CountInv ==
    "usage" \notin crossed =>
        /\ files = Cardinality(Assets \cap live) /\ WithinQuota(0)
        /\ \A r \in Requests : CountsOn(tx[r])
        /\ \A r, o \in Requests : tx[r].op \in Counting /\ tx[o].op \in Counting => r = o

LEMMA BeginCount ==
  ASSUME TypeOK, CountInv, NEW r \in Requests, NEW t, Begin(r, t), Fits(t)
  PROVE  CountInv'
<1>1. SUFFICES ASSUME "usage" \notin crossed'
               PROVE  /\ files' = Cardinality(Assets \cap live') /\ WithinQuota(0)'
                      /\ \A o \in Requests : CountsOn(tx[o])'
                      /\ \A q, o \in Requests :
                            tx'[q].op \in Counting /\ tx'[o].op \in Counting => q = o
  BY DEF CountInv
<1>2. /\ files = Cardinality(Assets \cap live) /\ WithinQuota(0)
      /\ \A o \in Requests : CountsOn(tx[o])
      /\ \A q, o \in Requests : tx[q].op \in Counting /\ tx[o].op \in Counting => q = o
  BY <1>1, BeginMoves DEF CountInv
<1>3. /\ tx'[r] = t /\ \A o \in Requests : o # r => tx'[o] = tx[o]
      /\ live' = live /\ files' = files
  BY BeginMoves
<1>4. \A o \in Requests : CountsOn(tx[o])'
  <2>1. TAKE o \in Requests
  <2>2. CASE o = r
    BY <1>3, <2>2 DEF Fits, CountsOn, WithinQuota
  <2>3. CASE o # r
    <3>1. tx'[o] = tx[o] /\ CountsOn(tx[o])
      BY <1>2, <1>3, <2>3
    <3>2. QED
      BY <1>3, <3>1 DEF CountsOn, WithinQuota
  <2>4. QED
    BY <2>2, <2>3
<1>5. \A q, o \in Requests : tx'[q].op \in Counting /\ tx'[o].op \in Counting => q = o
  <2>1. TAKE q, o \in Requests
  <2>2. CASE q # r /\ o # r
    BY <1>2, <1>3, <2>2
  <2>3. CASE q # o /\ (q = r \/ o = r)
    BY <1>1, <2>3, BeginCrosses
  <2>4. QED
    BY <2>2, <2>3
<1>6. QED
  BY <1>2, <1>3, <1>4, <1>5 DEF WithinQuota

LEMMA CommitCount ==
  ASSUME TypeOK, RequestsFormed, NewRowsAreApart, CountInv, NEW r \in Requests, Commit(r)
  PROVE  CountInv'
<1>1. SUFFICES ASSUME "usage" \notin crossed
               PROVE  /\ files' = Cardinality(Assets \cap live') /\ WithinQuota(0)'
                      /\ \A o \in Requests : CountsOn(tx[o])'
                      /\ \A q, o \in Requests :
                            tx'[q].op \in Counting /\ tx'[o].op \in Counting => q = o
  BY CommitMoves DEF CountInv
<1>2. PICK t : t = tx[r]
  OBVIOUS
<1>3. /\ tx'[r] = Idle /\ \A o \in Requests : o # r => tx'[o] = tx[o]
      /\ live' = (live \cup t.born) \ t.gone
      /\ files' = Metered(t)
  BY <1>2, CommitMoves DEF Commit
<1>4. /\ files = Cardinality(Assets \cap live) /\ WithinQuota(0)
      /\ \A o \in Requests : CountsOn(tx[o])
      /\ \A q, o \in Requests : tx[q].op \in Counting /\ tx[o].op \in Counting => q = o
  BY <1>1 DEF CountInv
<1>5. Formed(t) /\ CountsOn(t) /\ t.adds \in Int /\ t.read \in Nat /\ files \in Nat
  BY <1>2, <1>4, CommitMoves DEF RequestsFormed, TypeOK, Transactions
<1>6. \A x \in t.born : x \notin live
  BY <1>2 DEF NewRowsAreApart
<1>7. \A q, o \in Requests : tx'[q].op \in Counting /\ tx'[o].op \in Counting => q = o
  BY <1>3, <1>4, IdleIsFormed
<1>8. CASE t.op \notin Counting
  <2>1. t.born \cap Assets = {} /\ t.gone = {} /\ t.adds = 0
    BY <1>5, <1>8 DEF Formed
  <2>2. files' = files /\ Assets \cap live' = Assets \cap live /\ live \subseteq live'
    BY <1>3, <2>1 DEF Metered
  <2>3. \A o \in Requests : CountsOn(tx[o])'
    <3>1. TAKE o \in Requests
    <3>2. CASE o = r
      BY <1>3, <3>2, IdleIsFormed DEF CountsOn
    <3>3. CASE o # r
      <4>1. tx'[o] = tx[o] /\ CountsOn(tx[o])
        BY <1>3, <1>4, <3>3
      <4>2. QED
        BY <2>2, <4>1 DEF CountsOn, WithinQuota
    <3>4. QED
      BY <3>2, <3>3
  <2>4. QED
    BY <1>4, <1>7, <2>2, <2>3 DEF WithinQuota
<1>9. CASE t.op \in Counting
  <2>1. \A o \in Requests : tx'[o].op \notin Counting
    BY <1>2, <1>3, <1>4, <1>9, IdleIsFormed
  <2>2. t.read = files /\ t.gone \cap Assets \subseteq live /\ (t.adds > 0 => WithinQuota(t.adds))
    BY <1>5, <1>9 DEF CountsOn
  <2>3. IsFiniteSet(Assets \cap live) /\ IsFiniteSet(t.born \cap Assets)
    BY FiniteAssumption, FS_Subset
  <2>4. files + t.adds = Cardinality(Assets \cap live') /\ files + t.adds \in Nat
    <3>1. CASE t.gone = {} /\ t.adds = Cardinality(t.born \cap Assets)
      <4>1. /\ Assets \cap live' = (Assets \cap live) \cup (t.born \cap Assets)
            /\ (Assets \cap live) \cap (t.born \cap Assets) = {}
        BY <1>3, <1>6, <3>1
      <4>2. t.adds \in Nat
        BY <2>3, <3>1, FS_CardinalityType
      <4>3. Cardinality(Assets \cap live')
              = Cardinality(Assets \cap live) + Cardinality(t.born \cap Assets) - Cardinality({})
        BY <2>3, <4>1, FS_Union
      <4>4. QED
        BY <1>4, <1>5, <3>1, <4>2, <4>3, Counts
    <3>2. CASE t.born = {} /\ t.adds = -Cardinality(t.gone \cap Assets)
      <4>1. /\ Assets \cap live' = (Assets \cap live) \ (t.gone \cap Assets)
            /\ (Assets \cap live) \cap (t.gone \cap Assets) = t.gone \cap Assets
        BY <1>3, <2>2, <3>2
      <4>2. /\ IsFiniteSet(Assets \cap live')
            /\ Cardinality(Assets \cap live')
                 = Cardinality(Assets \cap live) - Cardinality(t.gone \cap Assets)
        <5> DEFINE had == Assets \cap live
                   lost == t.gone \cap Assets
        <5>1. IsFiniteSet(had \ lost) /\ Cardinality(had \ lost) = Cardinality(had) - Cardinality(had \cap lost)
          <6> HIDE DEF lost
          <6>1. QED
            BY <2>3, FS_Difference
        <5>2. had \cap lost = lost /\ had \ lost = Assets \cap live'
          BY <4>1
        <5> HIDE DEF had
        <5>3. QED
          BY <5>1, <5>2 DEF had
      <4>3. Cardinality(Assets \cap live') \in Nat
        BY <4>2, FS_CardinalityType
      <4>4. IsFiniteSet(t.gone \cap Assets)
        BY FiniteAssumption, FS_Subset
      <4>5. Cardinality(t.gone \cap Assets) \in Nat
        BY <4>4, FS_CardinalityType
      <4>6. QED
        BY <1>4, <1>5, <3>2, <4>2, <4>3, <4>5
    <3>3. QED
      BY <1>5, <3>1, <3>2 DEF Formed
  <2>5. files' = files + t.adds
    BY <1>3, <1>5, <2>2, <2>4 DEF Metered
  <2>6. WithinQuota(0)'
    BY <1>4, <1>5, <2>2, <2>5, QuotaAssumption DEF WithinQuota
  <2>7. QED
    BY <1>7, <2>1, <2>4, <2>5, <2>6 DEF CountsOn
<1>10. QED
  BY <1>8, <1>9

LEMMA RollbackCount ==
  ASSUME TypeOK, CountInv, NEW r \in Requests, Rollback(r)
  PROVE  CountInv'
<1>1. /\ live' = live /\ files' = files /\ crossed' = crossed
      /\ \A o \in Requests : tx'[o] = tx[o] \/ tx'[o] = Idle
  BY RollbackMoves
<1>2. \A o \in Requests :
        /\ CountsOn(tx[o]) => CountsOn(tx[o])'
        /\ tx'[o].op \in Counting => tx[o].op \in Counting
  BY <1>1, IdleIsFormed DEF CountsOn, WithinQuota
<1>3. QED
  BY <1>1, <1>2 DEF CountInv, WithinQuota

(* For any number of files and any quota: the counter is the number of live files and within the  *)
(* quota, as long as no two requests that count have overlapped.  It also never has to be kept    *)
(* from falling below zero (quota.py 109-150): that guard only hides what an overlap has lost.     *)
THEOREM CounterCountsFiles == Spec => []UsageCountsFiles
<1>1. Init => CountInv /\ RequestsFormed
  <2>1. SUFFICES ASSUME Init PROVE CountInv /\ RequestsFormed
    OBVIOUS
  <2>2. live = {} /\ files = 0 /\ Assets \cap live = {} /\ \A r \in Requests : tx[r] = Idle
    BY <2>1 DEF Init
  <2>3. WithinQuota(0)
    BY <2>2, QuotaAssumption DEF WithinQuota
  <2>4. \A r \in Requests : CountsOn(tx[r]) /\ tx[r].op \notin Counting /\ Formed(tx[r])
    BY <2>2, IdleIsFormed
  <2>5. QED
    BY <2>2, <2>3, <2>4, Counts DEF CountInv, RequestsFormed
<1>2. TypeOK /\ TreeInv /\ RequestsFormed /\ CountInv /\ [Next]_vars => CountInv'
  <2>1. SUFFICES ASSUME TypeOK, TreeInv, RequestsFormed, CountInv, [Next]_vars PROVE CountInv'
    OBVIOUS
  <2>2. ASSUME NEW r \in Requests, OnFolders(r) \/ OnAssets(r) PROVE CountInv'
    <3>1. PICK t : Begin(r, t) /\ Fits(t)
      BY <2>1, <2>2, RequestsFit
    <3>2. QED
      BY <2>1, <3>1, BeginCount
  <2>3. ASSUME NEW r \in Requests, Commit(r) \/ Rollback(r) PROVE CountInv'
    BY <2>1, <2>3, CommitCount, RollbackCount DEF TreeInv
  <2>4. CASE UNCHANGED vars
    BY <2>1, <2>4 DEF vars, CountInv, CountsOn, WithinQuota
  <2>5. QED
    BY <2>1, <2>2, <2>3, <2>4 DEF Next
<1>3. CountInv => UsageCountsFiles
  BY DEF CountInv, UsageCountsFiles
<1>4. QED
  BY <1>1, <1>2, <1>3, InitType, InitTree, NextType, NextTree, FormedStep, PTL DEF Spec
=============================================================================
