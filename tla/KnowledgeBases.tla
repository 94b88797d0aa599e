--------------------------- MODULE KnowledgeBases ---------------------------
(***************************************************************************)
(* The knowledge bases of one space (tags in a tree) as people and the     *)
(* automatic filing of new documents change them at the same time          *)
(* (api/services/knowledge_bases.py, core/knowledge_base_auto.py, the      *)
(* filing in worker/tasks.py).  Every request or filing is a transaction   *)
(* under READ COMMITTED: it reads, takes row locks of PostgreSQL one by    *)
(* one in the order of its statements, and commits.                        *)
(*                                                                         *)
(* Names are given by their name_key.  The unique constraint on names does *)
(* not speak of different spellings, nor of spaces without a tenant, and   *)
(* is left out: only the code's own checks keep names apart here.          *)
(***************************************************************************)
EXTENDS Integers, FiniteSets, Sequences

CONSTANTS
    Clients,      \* requests and filings that run at a time
    Count,        \* identities of tag rows, in the order of their uuids
    Existing,     \* the tags that exist at the start, with parents and links of any kind
    Keys,         \* name_key of a name
    Assets,       \* the documents that are filed
    MaxPending,   \* pipeline.max_pending_knowledge_bases
    MaxChanges    \* bound: requests and filings that commit in one behaviour

ASSUME CountAssumption == Count \in Nat /\ Existing \subseteq 1..Count
ASSUME LimitAssumption == MaxPending \in Nat /\ MaxChanges \in Nat
ASSUME KeysAssumption == Keys # {} /\ 0 \notin Keys

VARIABLES
    state,     \* of a tag: "none", "pending" and "active" (TagStatus), "deleted" (deleted_at)
    parent,    \* tag.parent_id
    merged,    \* tag.merged_into
    key,       \* of tag.name
    links,     \* asset_tag
    tx,        \* the transaction of a client
    changes,   \* requests and filings that have committed
    crossed    \* what two clients have put at risk by running side by side (not in the code)

vars == <<state, parent, merged, key, links, tx, changes, crossed>>

Tags == 1..Count
None == 0
Live(t) == state[t] \in {"pending", "active"}
LiveTags == {t \in Tags : Live(t)}
Places == LiveTags \cup {None}
Pending == {t \in Tags : state[t] = "pending"}

(* "key" and "fk": FOR KEY SHARE, by a statement or by a foreign key to the row.  "row": UPDATE.  *)
(* "all": FOR UPDATE, or UPDATE of the name, which is in a unique constraint.                     *)
Modes == {"key", "fk", "row", "all"}
Conflict(m, n) == "all" \in {m, n} \/ (m = "row" /\ n = "row")

(* A transaction: its operation and the rows this is about, the locks it will ask for (sets of   *)
(* tags, one after the other, each in the order of the ids), those it holds, and for a filing    *)
(* the tags it has settled on and those it looks at next.                                        *)
Idle == [op |-> "idle", tag |-> None, other |-> None, name |-> None, asset |-> None, rows |-> {},
         want |-> <<>>, locks |-> {}, settled |-> {}, next |-> {}, hopped |-> FALSE]

Ops == {"create", "confirm", "move", "rename", "delete", "merge", "merging", "link",
        "suggest", "file"}
Promises == {"tree", "links", "names"}

Requests(S, mode) == IF S = {} THEN <<>> ELSE <<<<S, mode>>>>
Reference(p) == IF p = None THEN <<>> ELSE <<<<{p}, "fk">>>>

Init ==
    /\ state \in {s \in [Tags -> {"none", "pending"}] : \A t \in Tags : s[t] = "none" <=> t \notin Existing}
    /\ Cardinality(Pending) <= MaxPending
    /\ parent \in {p \in [Tags -> Existing \cup {None}] :
                     /\ \A t \in Tags \ Existing : p[t] = None
                     /\ \A S \in SUBSET Existing : S # {} => \E t \in S : p[t] \notin S}
    /\ merged = [t \in Tags |-> None]
    /\ key \in {k \in [Tags -> Keys] : \A s, t \in Existing : s # t => k[s] # k[t]}
    /\ \A t \in Tags \ Existing : key[t] = CHOOSE k \in Keys : TRUE
    /\ links \in SUBSET (Assets \X Existing)
    /\ tx = [c \in Clients |-> Idle]
    /\ changes = 0
    /\ crossed = {}

-----------------------------------------------------------------------------
(* What a transaction reads. *)

(* descendant_ids: through the tags that are not deleted, and the tag itself. *)
Descendants(t) ==
    {d \in Tags : \A D \in SUBSET Tags :
        (t \in D /\ \A g \in LiveTags : parent[g] \in D => g \in D) => d \in D}
WalkEnds(t) == Live(t) => parent[t] \notin Descendants(t)

(* The live tag at the end of the chain of merges, if there is one. *)
Heirs(t) ==
    {d \in LiveTags : \A D \in SUBSET Tags :
        (t \in D /\ \A g \in D : merged[g] # None => merged[g] \in D) => d \in D}

Named(k) == {t \in LiveTags : key[t] = k}
Removed(k) == {t \in Tags : state[t] = "deleted" /\ key[t] = k}
Unused == {t \in Tags : state[t] = "none" /\ \A c \in Clients : t \notin tx[c].rows}

Risks(a, b) ==
    {p \in Promises :
        \/ p = "tree" /\ {a, b} \subseteq {"move", "merge", "merging"}
        \/ p = "links" /\ "link" \in {a, b} /\ {"merge", "merging"} \cap {a, b} # {}
        \/ p = "names" /\ {"suggest", "file"} \cap {a, b} # {} /\ {"create", "rename"} \cap {a, b} # {}}

Begin(c, t) ==
    /\ tx' = [tx EXCEPT ![c] = t]
    /\ UNCHANGED <<state, parent, merged, key, links, changes, crossed>>

Ready(c, op) == tx[c].op = op /\ tx[c].want = <<>>
Commit(c) ==
    /\ tx' = [tx EXCEPT ![c] = Idle]
    /\ changes' = changes + 1
    /\ crossed' = crossed \cup UNION {Risks(tx[c].op, tx[o].op) : o \in Clients \ {c}}

-----------------------------------------------------------------------------
(* Locks: the next one of a transaction is granted when no other holds one in its way.  What a  *)
(* filing locks it reads again: a tag that has been merged leads to the one it is merged into,  *)
(* which is looked at in another round; a deleted one is dropped.                               *)

Holds(c, w) == \E l \in tx[c].locks : l[1] = w[1] /\ Conflict(l[2], w[2])

LookedUnchecked(t, x) == [t EXCEPT !.settled = @ \cup {x}]

Looked(t, x) ==
    LET on == IF Live(x) \/ merged[x] = None THEN t.next ELSE t.next \cup {merged[x]}
        at == [t EXCEPT !.settled = IF Live(x) THEN @ \cup {x} ELSE @]
    IN  IF t.want = <<>> /\ on # {}
          THEN [at EXCEPT !.want = Requests(on, "key"), !.next = {}, !.hopped = TRUE]
          ELSE [at EXCEPT !.next = on]

Lock(c) ==
    /\ tx[c].want # <<>>
    /\ LET asked == Head(tx[c].want)
           mode == asked[2]
       IN  \E x \in asked[1] :
            LET left == asked[1] \ {x}
                t == [tx[c] EXCEPT !.want = Requests(left, mode) \o Tail(@), !.locks = @ \cup {<<x, mode>>}]
            IN  /\ \A y \in left : x <= y
                /\ \A o \in Clients \ {c} : ~Holds(o, <<x, mode>>)
                /\ tx' = [tx EXCEPT ![c] = IF mode = "key" THEN Looked(t, x) ELSE t]
    /\ UNCHANGED <<state, parent, merged, key, links, changes, crossed>>

-----------------------------------------------------------------------------
(* The requests of people. *)

Create(c, n, k, p) ==
    Begin(c, [Idle EXCEPT !.op = "create", !.rows = {n}, !.tag = n, !.name = k, !.other = p,
                          !.want = Reference(p)])

CreateCommit(c) ==
    LET n == tx[c].tag IN
    /\ Ready(c, "create")
    /\ state' = [state EXCEPT ![n] = "active"]
    /\ key' = [key EXCEPT ![n] = tx[c].name]
    /\ parent' = [parent EXCEPT ![n] = tx[c].other]
    /\ Commit(c) /\ UNCHANGED <<merged, links>>

Confirm(c, t) ==
    /\ state[t] = "pending"
    /\ Begin(c, [Idle EXCEPT !.op = "confirm", !.tag = t, !.want = Requests({t}, "row")])

(* A tag that has been deleted meanwhile stays deleted. *)
ConfirmCommit(c) ==
    /\ Ready(c, "confirm")
    /\ state' = [state EXCEPT ![tx[c].tag] = IF @ = "pending" THEN "active" ELSE @]
    /\ Commit(c) /\ UNCHANGED <<parent, merged, key, links>>

(* update: a new name, and a new place.  A column set to the value it has is not written. *)
Rename(c, t, k) ==
    /\ k # key[t]
    /\ Begin(c, [Idle EXCEPT !.op = "rename", !.tag = t, !.name = k, !.want = Requests({t}, "all")])

RenameCommit(c) ==
    /\ Ready(c, "rename")
    /\ key' = [key EXCEPT ![tx[c].tag] = tx[c].name]
    /\ Commit(c) /\ UNCHANGED <<state, parent, merged, links>>

Move(c, t, p) ==
    /\ p # parent[t]
    /\ p # None => WalkEnds(t) /\ p \notin Descendants(t)
    /\ Begin(c, [Idle EXCEPT !.op = "move", !.tag = t, !.other = p,
                             !.want = Requests({t}, "row") \o Reference(p)])

MoveCommit(c) ==
    /\ Ready(c, "move")
    /\ parent' = [parent EXCEPT ![tx[c].tag] = tx[c].other]
    /\ Commit(c) /\ UNCHANGED <<state, merged, key, links>>

Delete(c, t) ==
    /\ WalkEnds(t)
    /\ Begin(c, [Idle EXCEPT !.op = "delete", !.rows = Descendants(t),
                             !.want = Requests(Descendants(t), "row")])

DeleteCommit(c) ==
    /\ Ready(c, "delete")
    /\ state' = [t \in Tags |-> IF t \in tx[c].rows THEN "deleted" ELSE state[t]]
    /\ Commit(c) /\ UNCHANGED <<parent, merged, key, links>>

Merge(c, s, t) ==
    /\ s # t
    /\ Begin(c, [Idle EXCEPT !.op = "merge", !.tag = s, !.other = t,
                             !.want = Requests({s, t}, "all")])

Merging(c, s) ==
    LET children == {g \in LiveTags : parent[g] = s} IN
    tx' = [tx EXCEPT ![c].op = "merging", ![c].rows = children,
                     ![c].want = Requests(children, "row")]

MergeReadBeforeLock(c) ==
    /\ Ready(c, "merge")
    /\ WalkEnds(tx[c].tag) /\ tx[c].other \notin Descendants(tx[c].tag)
    /\ Merging(c, tx[c].tag)
    /\ UNCHANGED <<state, parent, merged, key, links, changes, crossed>>

MergeReadAnywhere(c) ==
    /\ Ready(c, "merge")
    /\ state[tx[c].tag] = "pending" /\ Live(tx[c].other)
    /\ Merging(c, tx[c].tag)
    /\ UNCHANGED <<state, parent, merged, key, links, changes, crossed>>

(* With both rows locked, they are read again and their links and children read. *)
MergeRead(c) ==
    LET s == tx[c].tag  t == tx[c].other IN
    /\ Ready(c, "merge")
    /\ state[s] = "pending" /\ Live(t)
    /\ WalkEnds(s) /\ t \notin Descendants(s)
    /\ Merging(c, s)
    /\ UNCHANGED <<state, parent, merged, key, links, changes, crossed>>

MergeCommit(c) ==
    LET s == tx[c].tag  t == tx[c].other IN
    /\ Ready(c, "merging")
    /\ links' = {l \in links : l[2] # s} \cup {<<l[1], t>> : l \in {m \in links : m[2] = s}}
    /\ parent' = [g \in Tags |-> IF g \in tx[c].rows THEN t ELSE parent[g]]
    /\ merged' = [merged EXCEPT ![s] = t]
    /\ state' = [state EXCEPT ![s] = "deleted"]
    /\ Commit(c) /\ UNCHANGED key

(* set_asset_tags puts a tag on a document (a copy of a document does the same).  The links it  *)
(* takes away are left out: that locks no tag and only makes links fewer.                       *)
Link(c, a, t) ==
    /\ <<a, t>> \notin links
    /\ Begin(c, [Idle EXCEPT !.op = "link", !.tag = t, !.asset = a, !.want = Reference(t)])

LinkCommit(c) ==
    /\ Ready(c, "link")
    /\ links' = links \cup {<<tx[c].asset, tx[c].tag>>}
    /\ Commit(c) /\ UNCHANGED <<state, parent, merged, key>>

-----------------------------------------------------------------------------
(* The automatic filing of a document a.  The model that is asked chooses among the live tags,  *)
(* and may suggest a new one with the name k below p while the pending ones are few.            *)

FileAsChosen(c, a, chosen) ==
    /\ chosen # {}
    /\ \E order \in [1..Cardinality(chosen) -> chosen] :
         /\ \A t \in chosen : \E i \in DOMAIN order : order[i] = t
         /\ Begin(c, [Idle EXCEPT !.op = "file", !.asset = a,
                         !.want = [i \in DOMAIN order |-> <<{order[i]}, "key">>]])

File(c, a, chosen) ==
    /\ chosen # {}
    /\ Begin(c, [Idle EXCEPT !.op = "file", !.asset = a, !.want = Requests(chosen, "key")])

FileSuggesting(c, a, chosen, k, p) ==
    /\ Cardinality(Pending) < MaxPending
    /\ Begin(c, [Idle EXCEPT !.op = "suggest", !.asset = a, !.next = chosen,
                             !.name = k, !.other = p])

(* create_system_tag, under the advisory lock of the space, which is kept to the commit: the    *)
(* tag of that name, or what it was merged into, is used; a name that was removed by hand, a    *)
(* limit that is reached or a parent that is gone end the suggestion; else a tag is inserted.   *)
HasSpace(c) == tx[c].op = "file" /\ tx[c].name # None
Filing(c, chosen, first) ==
    [tx[c] EXCEPT !.op = "file", !.next = {}, !.want = first \o Requests(chosen, "key")]

SuggestFound(c) ==
    \E x \in Tags :
        /\ IF Named(tx[c].name) # {}
             THEN /\ x \in Named(tx[c].name)
                  /\ Named(tx[c].name) \ Pending # {} => x \notin Pending
             ELSE \E t \in Removed(tx[c].name) : x \in Heirs(t)
        /\ tx' = [tx EXCEPT ![c] = Filing(c, @.next \cup {x}, <<>>)]

MayInsert(c) ==
    /\ Named(tx[c].name) = {} /\ Removed(tx[c].name) = {}
    /\ Cardinality(Pending) < MaxPending /\ tx[c].other \in Places

SuggestNothing(c) ==
    /\ Named(tx[c].name) = {} /\ \A t \in Removed(tx[c].name) : Heirs(t) = {}
    /\ ~MayInsert(c)
    /\ tx' = [tx EXCEPT ![c] = Filing(c, @.next, <<>>)]

SuggestInsert(c) ==
    /\ MayInsert(c)
    /\ \E n \in Unused :
         /\ \A m \in Unused : n <= m
         /\ tx' = [tx EXCEPT ![c] = [Filing(c, @.next, Reference(@.other)) EXCEPT
                      !.tag = n, !.rows = {n}, !.settled = {n}]]

SuggestUnlocked(c) ==
    /\ tx[c].op = "suggest"
    /\ SuggestFound(c) \/ SuggestNothing(c) \/ SuggestInsert(c)
    /\ UNCHANGED <<state, parent, merged, key, links, changes, crossed>>

Suggest(c) ==
    /\ tx[c].op = "suggest"
    /\ \A o \in Clients : ~HasSpace(o)
    /\ SuggestFound(c) \/ SuggestNothing(c) \/ SuggestInsert(c)
    /\ UNCHANGED <<state, parent, merged, key, links, changes, crossed>>

FileCommit(c) ==
    LET t == tx[c] IN
    /\ Ready(c, "file")
    /\ links' = links \cup {<<t.asset, x>> : x \in t.settled}
    /\ state' = [x \in Tags |-> IF x \in t.rows THEN "pending" ELSE state[x]]
    /\ key' = [x \in Tags |-> IF x \in t.rows THEN t.name ELSE key[x]]
    /\ parent' = [x \in Tags |-> IF x \in t.rows THEN t.other ELSE parent[x]]
    /\ Commit(c) /\ UNCHANGED merged

-----------------------------------------------------------------------------
(* An error, a refusal, a client that has gone, or the victim of a deadlock.  A filing that was *)
(* the victim runs once more, as another filing.                                                *)
Rollback(c) ==
    /\ tx[c] # Idle
    /\ tx' = [tx EXCEPT ![c] = Idle]
    /\ UNCHANGED <<state, parent, merged, key, links, changes, crossed>>

OnTags(c) ==
    \/ \E n \in Unused, k \in Keys, p \in Places :
          (\A m \in Unused : n <= m) /\ Create(c, n, k, p)
    \/ \E t \in LiveTags :
          \/ Confirm(c, t)
          \/ Delete(c, t)
          \/ \E k \in Keys : Rename(c, t, k)
          \/ \E p \in Places : Move(c, t, p)
          \/ \E u \in LiveTags : Merge(c, t, u)
OnDocuments(c) ==
    \E a \in Assets :
       \/ \E t \in LiveTags : Link(c, a, t)
       \/ \E S \in SUBSET LiveTags :
             \/ File(c, a, S)
             \/ \E k \in Keys, p \in Places : FileSuggesting(c, a, S, k, p)
Request(c) ==
    /\ tx[c] = Idle
    /\ changes + Cardinality({o \in Clients : tx[o] # Idle}) < MaxChanges
    /\ OnTags(c) \/ OnDocuments(c)

Step(c) ==
    \/ Lock(c) \/ Suggest(c) \/ MergeRead(c)
    \/ CreateCommit(c) \/ ConfirmCommit(c) \/ RenameCommit(c) \/ MoveCommit(c)
    \/ DeleteCommit(c) \/ MergeCommit(c) \/ LinkCommit(c) \/ FileCommit(c)

Next == \E c \in Clients : Request(c) \/ Step(c) \/ Rollback(c)

Spec == Init /\ [][Next]_vars

-----------------------------------------------------------------------------
Transactions ==
    [op : Ops \cup {"idle"}, tag : Tags \cup {None}, other : Tags \cup {None}, name : Keys \cup {None},
     asset : Assets \cup {None}, rows : SUBSET Tags, want : Seq((SUBSET Tags) \X Modes),
     locks : SUBSET (Tags \X Modes), settled : SUBSET Tags, next : SUBSET Tags, hopped : BOOLEAN]

TypeOK ==
    /\ state \in [Tags -> {"none", "pending", "active", "deleted"}]
    /\ parent \in [Tags -> Tags \cup {None}]
    /\ merged \in [Tags -> Tags \cup {None}]
    /\ key \in [Tags -> Keys]
    /\ links \subseteq Assets \X Tags
    /\ tx \in [Clients -> Transactions]
    /\ changes \in Nat
    /\ crossed \subseteq Promises

(* Whatever runs side by side, the chain of merges ends: the two rows are locked and read again, *)
(* so that of two merges into one another the second is refused, and a redirection by            *)
(* resolve_live_tags has an end (knowledge_bases.py 126-150).                                    *)
MergesEnd ==
    \A S \in SUBSET Tags : S # {} => \E t \in S : merged[t] \notin S

(* No document is left on a tag that was merged away, where no reader would find it: the filing  *)
(* locks the tags it links against the merge, and only linking by hand, which has checked the    *)
(* tag without a lock, may come too late.                                                        *)
LinksLeaveMergedTags ==
    "links" \notin crossed => \A l \in links : merged[l[2]] = None

(* Filings side by side never bring the pending tags above the limit, because counting and       *)
(* inserting are under one lock of the space.                                                    *)
PendingWithinLimit == Cardinality(Pending) <= MaxPending

(* The tags that are not deleted stay a tree unless two of moves and merges have overlapped.     *)
(* Through a deleted tag the parents may close a circle: descendant_ids, which a move asks, does *)
(* not look below deleted tags, and a new tag can end up below one (repos.py 360-374).           *)
TreeUnlessMovesCross ==
    "tree" \notin crossed =>
        \A S \in SUBSET LiveTags : S # {} => \E t \in S : parent[t] \notin S

(* Filings and merges lock tags in the order of their ids, and a merge moves the children of a   *)
(* tag while filings hold them: they wait in a circle only if a filing has inserted its          *)
(* suggestion below a tag, whose row it then holds out of order, or follows a merge, or if one   *)
(* merge waits for a child that another merge has locked (knowledge_base_auto.py 84-103 names    *)
(* the second case only, and knowledge_bases.py 118-123 none).                                   *)
Waits(c, o) ==
    /\ tx[c].want # <<>>
    /\ LET asked == Head(tx[c].want)
       IN \E x \in asked[1] : (\A y \in asked[1] : x <= y) /\ Holds(o, <<x, asked[2]>>)
WaitCirclesHaveACause ==
    \A S \in (SUBSET Clients) \ {{}} :
        /\ \A c \in S : tx[c].op \in {"file", "merge", "merging"}
        /\ \A c \in S : \E o \in S \ {c} : Waits(c, o)
        => \E c \in S :
              \/ tx[c].hopped
              \/ \E l \in tx[c].locks : l[2] = "fk"
              \/ tx[c].op = "merging" /\ \E o \in S \ {c} : tx[o].op # "file" /\ Waits(c, o)
=============================================================================
