------------------------------ MODULE Folders ------------------------------
(***************************************************************************)
(* The folders and files of one space, and its file counter, as requests   *)
(* of the API change them (api/services/folders.py, api/services/assets.py,*)
(* core/quota.py).  Every request is one transaction under READ COMMITTED: *)
(* it reads and checks, then commits what it decided on, and nothing it    *)
(* has checked is locked in between.                                       *)
(***************************************************************************)
EXTENDS Integers, FiniteSets, Functions

CONSTANTS
    Requests,   \* requests that the API serves at a time
    Folders,    \* identities of folder rows
    Assets,     \* identities of asset rows
    Names,      \* names of folders
    Root,       \* the parent of a folder at the top, and where a file outside folders is
    Quota,      \* quota_file_count of the space, 0 for none
    MaxCrossed  \* bound: promises put at risk in one behaviour

ASSUME RootAssumption == Root \notin Folders \cup Assets
ASSUME RowsAssumption == Folders \cap Assets = {}
ASSUME FiniteAssumption == IsFiniteSet(Assets)
ASSUME QuotaAssumption == Quota \in Nat

VARIABLES
    live,       \* the folders and assets that exist and are not deleted (deleted_at)
    parent,     \* asset_folder.parent_id
    name,       \* asset_folder.name
    folder,     \* asset.folder_id
    files,      \* space_usage.file_count
    tx,         \* the transaction of a request: what it is about to write
    crossed     \* what two requests have put at risk by running side by side (not in the code)

vars == <<live, parent, name, folder, files, tx, crossed>>

Places == Folders \cup {Root}
Ops == {"create", "rename", "move", "delete_folder", "copy_folder",
        "register", "move_asset", "delete_asset", "copy_asset"}
Promises == {"tree", "names", "nesting", "placing", "usage"}

(* A transaction holds the columns it sets of the rows it touches, the rows it inserts and those *)
(* it marks deleted, and the counter it read together with what it adds to it.                   *)
Nothing == [x \in {} |-> Root]
Partial(S, T) == UNION {[D -> T] : D \in SUBSET S}
Transactions ==
    [op : Ops \cup {"idle"}, parent : Partial(Folders, Places), name : Partial(Folders, Names),
     folder : Partial(Assets, Places), born : SUBSET (Folders \cup Assets),
     gone : SUBSET (Folders \cup Assets), read : Nat, adds : Int]
Idle == [op |-> "idle", parent |-> Nothing, name |-> Nothing, folder |-> Nothing,
         born |-> {}, gone |-> {}, read |-> 0, adds |-> 0]

Init ==
    /\ live = {}
    /\ parent = [f \in Folders |-> Root]
    /\ \E n \in Names : name = [f \in Folders |-> n]
    /\ folder = [a \in Assets |-> Root]
    /\ files = 0
    /\ tx = [r \in Requests |-> Idle]
    /\ crossed = {}

-----------------------------------------------------------------------------
(* What a request reads. *)

IsPlace(p) == p = Root \/ p \in live
Siblings(p, n) == {f \in Folders \cap live : parent[f] = p /\ name[f] = n}
NameIsFree(p, n, f) == Siblings(p, n) \subseteq {f}

(* Deleted folders count, and a folder counts as its own descendant. *)
ClosedBelow(D) == \A g \in Folders : parent[g] \in D => g \in D
DescendantsOneDeep(f) == {f} \cup {g \in Folders : parent[g] = f}

DescendantIds(f) ==
    {g \in Folders : \A D \in SUBSET Folders : f \in D /\ ClosedBelow(D) => g \in D}

(* The walk keeps no set of what it has seen: it does not end on a folder that is below itself, *)
(* and the request never comes to its commit.                                                   *)
WalkEnds(f) == parent[f] \notin DescendantIds(f)

ChildrenClosed(D) == \A g \in Folders \cap live : parent[g] \in D => g \in D
LiveBelow(f) ==
    {g \in Folders : \A D \in SUBSET Folders : f \in D /\ ChildrenClosed(D) => g \in D}

FilesIn(D) == {a \in Assets \cap live : folder[a] \in D}
WithinQuota(n) == Quota = 0 \/ files + n <= Quota

(* An identity for a new row: no row and no transaction refers to it.  That of a deleted row *)
(* serves again, as if new, once nothing can read the row: requests go on without end.       *)
Refers(t, x) ==
    \/ x \in t.born \cup t.gone \cup DOMAIN t.parent \cup DOMAIN t.name \cup DOMAIN t.folder
    \/ x \in Range(t.parent) \cup Range(t.folder)
Unused(x) ==
    /\ x \notin live \cup Range(parent) \cup Range(folder)
    /\ \A r \in Requests : ~Refers(tx[r], x)

(* The two operations that put a promise at risk when they run side by side. *)
Risks(a, b) ==
    {p \in Promises :
        \/ p = "tree" /\ {a, b} = {"move"}
        \/ p = "names" /\ {a, b} \subseteq {"create", "rename", "move", "copy_folder"}
        \/ p = "nesting" /\ "delete_folder" \in {a, b}
             /\ {a, b} \cap {"create", "move", "copy_folder"} # {}
        \/ p = "placing" /\ "delete_folder" \in {a, b}
             /\ {a, b} \cap {"register", "move_asset", "copy_asset", "copy_folder"} # {}
        \/ p = "usage" /\ {a, b} \subseteq {"register", "delete_asset", "copy_asset",
                                             "delete_folder", "copy_folder"}}

Begin(r, t) ==
    /\ parent' = [f \in Folders |-> IF f \in t.born THEN Root ELSE parent[f]]
    /\ tx' = [tx EXCEPT ![r] = t]
    /\ crossed' = crossed \cup UNION {Risks(t.op, tx[o].op) : o \in Requests \ {r}}
    /\ Cardinality(crossed') <= MaxCrossed
    /\ UNCHANGED <<live, name, folder, files>>

-----------------------------------------------------------------------------
(* The requests on folders, each up to its commit. *)

CreateFolder(r, f, p, n) ==
    /\ IsPlace(p) /\ Siblings(p, n) = {}
    /\ Begin(r, [Idle EXCEPT !.op = "create", !.born = {f},
                             !.parent = [x \in {f} |-> p], !.name = [x \in {f} |-> n]])

(* A column set to the value it has is not written: a request that changes nothing is left out. *)
RenameFolder(r, f, n) ==
    /\ n # name[f] /\ NameIsFree(parent[f], n, f)
    /\ Begin(r, [Idle EXCEPT !.op = "rename", !.name = [x \in {f} |-> n]])

MoveFolderNamedWhereItWas(r, f, p) ==
    /\ IsPlace(p) /\ p # parent[f]
    /\ p # Root => WalkEnds(f) /\ p \notin DescendantIds(f)
    /\ NameIsFree(parent[f], name[f], f)
    /\ Begin(r, [Idle EXCEPT !.op = "move", !.parent = [x \in {f} |-> p]])

MoveFolder(r, f, p) ==
    /\ IsPlace(p) /\ p # parent[f]
    /\ p # Root => WalkEnds(f) /\ p \notin DescendantIds(f)
    /\ NameIsFree(p, name[f], f)
    /\ Begin(r, [Idle EXCEPT !.op = "move", !.parent = [x \in {f} |-> p]])

DeleteFolderAndItsFiles(r, f) ==
    /\ WalkEnds(f)
    /\ LET lost == FilesIn({f})
       IN  Begin(r, [Idle EXCEPT !.op = "delete_folder", !.gone = DescendantIds(f) \cup lost,
                                 !.read = files, !.adds = -Cardinality(lost)])

DeleteFolderUncounted(r, f) ==
    /\ WalkEnds(f)
    /\ LET below == DescendantIds(f)
       IN  Begin(r, [Idle EXCEPT !.op = "delete_folder", !.gone = below \cup FilesIn(below),
                                 !.read = files, !.adds = -Cardinality(FilesIn({f}))])

DeleteFolder(r, f) ==
    /\ WalkEnds(f)
    /\ LET below == DescendantIds(f)
           lost  == FilesIn(below)
       IN  Begin(r, [Idle EXCEPT !.op = "delete_folder", !.gone = below \cup lost,
                                 !.read = files, !.adds = -Cardinality(lost)])

(* Where a copy of the folders under f ends up when it is put under p: in a folder of the same *)
(* name where there is one, else in a new one.  Only f itself may be its own sibling there.    *)
CopyTarget(to, f, p, s) == IF s = f THEN p ELSE to[parent[s]]
MayMerge(to, f, p, s) == Siblings(CopyTarget(to, f, p, s), name[s]) \ {s}
IsCopy(to, f, p) ==
    \A s \in LiveBelow(f) :
        /\ IF MayMerge(to, f, p, s) # {}
             THEN MayMerge(to, f, p, s) = {to[s]}
             ELSE Unused(to[s])
        /\ \A t \in LiveBelow(f) :
              (to[s] = to[t] /\ Unused(to[s])) =>
                 /\ name[s] = name[t]
                 /\ CopyTarget(to, f, p, s) = CopyTarget(to, f, p, t)

(* n is the name the copy of f takes beside f itself.  A copy into the folder or below it would *)
(* copy its own output without end: the request does not come to its commit.                   *)
CopyFolder(r, f, p, n) ==
    LET tree == LiveBelow(f)
        old  == FilesIn(tree)
    IN
    /\ IsPlace(p) /\ WalkEnds(f) /\ p \notin tree
    /\ IF f \in Siblings(p, name[f]) THEN Siblings(p, n) = {} ELSE n = name[f]
    /\ WithinQuota(Cardinality(old))
    /\ \E to \in [tree -> Folders], copy \in Injection(old, {a \in Assets : Unused(a)}) :
         LET new  == {g \in Range(to) : Unused(g)}
             src  == [g \in new |-> CHOOSE s \in tree : to[s] = g]
         IN
         /\ IsCopy(to, f, p)
         /\ Begin(r, [Idle EXCEPT !.op = "copy_folder", !.born = new \cup Range(copy),
                !.parent = [g \in new |-> CopyTarget(to, f, p, src[g])],
                !.name = [g \in new |-> IF src[g] = f THEN n ELSE name[src[g]]],
                !.folder = [b \in Range(copy) |->
                              to[folder[CHOOSE a \in old : copy[a] = b]]],
                !.read = files, !.adds = Cardinality(old)])

-----------------------------------------------------------------------------
(* The requests on files. *)

(* register_file_asset and register_text_asset *)
RegisterAsset(r, a, p) ==
    /\ IsPlace(p) /\ WithinQuota(1)
    /\ Begin(r, [Idle EXCEPT !.op = "register", !.born = {a}, !.folder = [x \in {a} |-> p],
                             !.read = files, !.adds = 1])

MoveAsset(r, a, p) ==
    /\ IsPlace(p) /\ p # folder[a]
    /\ Begin(r, [Idle EXCEPT !.op = "move_asset", !.folder = [x \in {a} |-> p]])

DeleteAsset(r, a) ==
    Begin(r, [Idle EXCEPT !.op = "delete_asset", !.gone = {a},
                         !.read = files, !.adds = -1])

CopyAsset(r, a, b, p) ==
    /\ IsPlace(p) /\ WithinQuota(1)
    /\ Begin(r, [Idle EXCEPT !.op = "copy_asset", !.born = {b}, !.folder = [x \in {b} |-> p],
                             !.read = files, !.adds = 1])

-----------------------------------------------------------------------------
(* The counter is set to a number computed from the one that was read, and never below zero. *)
Metered(t) ==
    IF t.adds = 0 THEN files ELSE IF t.read + t.adds < 0 THEN 0 ELSE t.read + t.adds

Over(f, g) == [x \in DOMAIN g |-> IF x \in DOMAIN f THEN f[x] ELSE g[x]]

Commit(r) ==
    LET t == tx[r] IN
    /\ t # Idle
    /\ live' = (live \cup t.born) \ t.gone
    /\ parent' = Over(t.parent, parent)
    /\ name' = Over(t.name, name)
    /\ folder' = Over(t.folder, folder)
    /\ files' = Metered(t)
    /\ tx' = [tx EXCEPT ![r] = Idle]
    /\ UNCHANGED crossed

(* An error, a client that has gone or a dead process: the transaction is rolled back. *)
Rollback(r) ==
    /\ tx[r] # Idle
    /\ tx' = [tx EXCEPT ![r] = Idle]
    /\ UNCHANGED <<live, parent, name, folder, files, crossed>>

(* One step of a request on a folder or a file. *)
OnFolders(r) ==
    \/ \E f \in Folders : Unused(f) /\ \E p \in Places, n \in Names : CreateFolder(r, f, p, n)
    \/ \E f \in Folders \cap live :
          \/ \E n \in Names : RenameFolder(r, f, n)
          \/ \E p \in Places : MoveFolder(r, f, p)
          \/ DeleteFolder(r, f)
          \/ \E p \in Places, n \in Names : CopyFolder(r, f, p, n)
OnAssets(r) ==
    \/ \E a \in Assets : Unused(a) /\ \E p \in Places : RegisterAsset(r, a, p)
    \/ \E a \in Assets \cap live :
          \/ \E p \in Places : MoveAsset(r, a, p)
          \/ DeleteAsset(r, a)
          \/ \E b \in Assets : Unused(b) /\ \E p \in Places : CopyAsset(r, a, b, p)

Next ==
    \E r \in Requests :
        \/ tx[r] = Idle /\ (OnFolders(r) \/ OnAssets(r))
        \/ Commit(r)
        \/ Rollback(r)

Spec == Init /\ [][Next]_vars

-----------------------------------------------------------------------------
TypeOK ==
    /\ live \subseteq Folders \cup Assets
    /\ parent \in [Folders -> Places]
    /\ name \in [Folders -> Names]
    /\ folder \in [Assets -> Places]
    /\ files \in Nat
    /\ tx \in [Requests -> Transactions]
    /\ crossed \subseteq Promises

(* No folder is below itself (folders.py 3-7: the chain of parents has no cycle). *)
ParentChainsEnd ==
    \A S \in SUBSET Folders : S # {} => \E f \in S : parent[f] \notin S

(* The folders stay a tree through every mix of requests in which no two moves have overlapped: *)
(* of all that may run beside a move, only another move makes its check of the descendants stale.*)
TreeUnlessMovesCross == "tree" \notin crossed => ParentChainsEnd

(* Live folders of one parent have different names, unless two requests that name or place a    *)
(* folder have overlapped (there is no unique index behind find_sibling_name).                  *)
NamesDifferUnlessCrossed ==
    "names" \notin crossed =>
        \A f, g \in Folders \cap live :
            (f # g /\ parent[f] = parent[g]) => name[f] # name[g]

(* Nothing live is left in a deleted folder, where no listing shows it: no folder unless a     *)
(* cascade has overlapped with a request that puts a folder somewhere, and no file unless it    *)
(* has overlapped with one that puts a file somewhere.                                          *)
NothingLiveUnderDeleted ==
    /\ "nesting" \notin crossed => \A f \in Folders \cap live : IsPlace(parent[f])
    /\ "placing" \notin crossed => \A a \in Assets \cap live : IsPlace(folder[a])

(* The counter is the number of live files, and within the quota, through every sequence of      *)
(* uploads, copies, deletions and cascades, unless two of them have overlapped: each reads the   *)
(* counter, checks the quota against it and writes back a sum, so the second of two loses the    *)
(* first (quota.py 109-150).                                                                     *)
UsageCountsFiles ==
    "usage" \notin crossed => files = Cardinality(Assets \cap live) /\ WithinQuota(0)
=============================================================================
