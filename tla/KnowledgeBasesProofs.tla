------------------------- MODULE KnowledgeBasesProofs -------------------------
(***************************************************************************)
(* Type correctness of KnowledgeBases, and five of its promises, for any   *)
(* number of clients, tags, names and documents: chains of merges end, no  *)
(* document is left on a tag that was merged away, filings keep the        *)
(* pending tags within their limit, the live tags stay a tree, and a       *)
(* circle of filings and merges that wait has one of three causes.         *)
(***************************************************************************)
EXTENDS KnowledgeBases, FiniteSetTheorems, TLAPS

Inserts == {"create", "suggest", "file"}

(* A merge has locked its two rows, or is about to. *)
AsksForBoth(t) ==
    \A x \in {t.tag, t.other} :
        \/ <<x, "all">> \in t.locks
        \/ t.want # <<>> /\ Head(t.want)[2] = "all" /\ x \in Head(t.want)[1]

(* What a transaction is by itself. *)
Formed(t) ==
    /\ t.op \in {"create", "rename", "suggest"} => t.name \in Keys
    /\ t.op = "create" => t.tag \in Tags
    /\ t.op = "create" => t.rows = {t.tag}
    /\ t.op = "suggest" => t.rows = {}
    /\ t.op = "link" => t.tag \in Tags /\ t.asset \in Assets
    /\ t.op \in {"suggest", "file"} => t.asset \in Assets
    /\ t.op = "file" /\ t.rows # {} => t.name \in Keys /\ \E n \in Tags : t.rows = {n}
    /\ t.op \in {"merge", "merging"} => t.tag \in Tags /\ t.other \in Tags /\ t.tag # t.other
    /\ t.op = "merge" => AsksForBoth(t)
    /\ t.op = "merge" /\ t.want # <<>> => Tail(t.want) = <<>> /\ Head(t.want)[2] = "all"
    /\ t.op = "merging" => <<t.tag, "all">> \in t.locks /\ <<t.other, "all">> \in t.locks

(* How the transaction t of client c goes with the tables and with the other transactions. *)
GoesWithTags(t) ==
    /\ t.op \in Inserts => \A x \in t.rows : state[x] = "none"
    /\ t.op = "delete" => \A x \in t.rows : state[x] # "none"
    /\ t.op \in {"merge", "merging"} => state[t.tag] # "none"
    /\ t.op = "merging" => merged[t.other] = None
    /\ t.op = "link" /\ "links" \notin crossed => merged[t.tag] = None
    /\ \A x \in t.settled : /\ merged[x] = None
                            /\ (t.op = "file" /\ x \in t.rows) \/ <<x, "key">> \in t.locks
    /\ t.op = "file" /\ t.rows # {} => Cardinality(Pending) < MaxPending

Apart(t, u) ==
    /\ t.op \in Inserts /\ u.op \in Inserts => t.rows \cap u.rows = {}
    /\ \A l \in t.locks, m \in u.locks : l[1] = m[1] => ~Conflict(l[2], m[2])
    /\ ~(t.op = "file" /\ t.name # None /\ u.op = "file" /\ u.name # None)

MergedAreGone == \A x \in Tags : merged[x] # None => state[x] = "deleted"

Fits(c, t) ==
    /\ t \in Transactions
    /\ Formed(t)
    /\ GoesWithTags(t)
    /\ \A o \in Clients \ {c} : Apart(t, tx[o])

Filed ==
    /\ TypeOK
    /\ \A c \in Clients : Fits(c, tx[c])
    /\ MergedAreGone
    /\ MergesEnd
    /\ LinksLeaveMergedTags
    /\ PendingWithinLimit

LEMMA ApartSymmetric ==
  ASSUME NEW t \in Transactions, NEW u \in Transactions, Apart(t, u)
  PROVE  Apart(u, t)
<1>1. \A m, n : Conflict(m, n) => Conflict(n, m)
  BY DEF Conflict
<1> QED
  BY <1>1 DEF Apart

LEMMA IdleTyped == Idle \in Transactions
  BY DEF Idle, Transactions

LEMMA IdleFits ==
  ASSUME NEW c \in Clients
  PROVE  Fits(c, Idle)
<1>1. Formed(Idle)
  BY DEF Formed, Idle
<1>2. GoesWithTags(Idle)
  BY DEF GoesWithTags, Idle, Inserts
<1>3. \A u : Apart(Idle, u)
  BY DEF Apart, Idle, Inserts
<1> QED
  BY <1>1, <1>2, <1>3, IdleTyped DEF Fits

LEMMA RequestsTyped ==
  ASSUME NEW S \in SUBSET Tags, NEW mode \in Modes
  PROVE  /\ Requests(S, mode) \in Seq((SUBSET Tags) \X Modes)
         /\ S # {} => Requests(S, mode) = <<<<S, mode>>>>
         /\ S = {} => Requests(S, mode) = <<>>
<1> DEFINE G == (SUBSET Tags) \X Modes
<1>1. <<S, mode>> \in G
  OBVIOUS
<1> HIDE DEF G
<1>2. <<<<S, mode>>>> \in Seq(G) /\ <<>> \in Seq(G)
  BY <1>1
<1> QED
  BY <1>2 DEF Requests, G

LEMMA ReferenceTyped ==
  ASSUME NEW p \in Tags \cup {None}
  PROVE  Reference(p) \in Seq((SUBSET Tags) \X Modes)
<1>1. ASSUME p \in Tags
      PROVE  <<<<{p}, "fk">>>> \in Seq((SUBSET Tags) \X Modes)
  <2> DEFINE G == (SUBSET Tags) \X Modes
  <2>1. <<{p}, "fk">> \in G
    BY <1>1 DEF Modes
  <2> HIDE DEF G
  <2>2. <<<<{p}, "fk">>>> \in Seq(G)
    BY <2>1
  <2> QED
    BY <2>2 DEF G
<1> QED
  BY <1>1 DEF Reference, None, Tags

LEMMA TagsAreFinite ==
  /\ IsFiniteSet(Tags)
  /\ \A S \in SUBSET Tags : IsFiniteSet(S) /\ Cardinality(S) \in Nat
<1>1. IsFiniteSet(Tags)
  BY CountAssumption, FS_Interval DEF Tags
<1> QED
  BY <1>1, FS_Subset, FS_CardinalityType

LEMMA DescendantsAreLive ==
  ASSUME NEW t \in LiveTags
  PROVE  Descendants(t) \subseteq LiveTags
<1>1. LiveTags \subseteq Tags
  BY DEF LiveTags
<1>2. t \in LiveTags /\ \A g \in LiveTags : parent[g] \in LiveTags => g \in LiveTags
  OBVIOUS
<1> QED
  BY <1>1, <1>2 DEF Descendants

(* A step that changes the transaction of one client, to one that fits, and no table.             *)
LEMMA QuietStep ==
  ASSUME Filed, NEW c \in Clients, NEW t, Fits(c, t),
         tx' = [tx EXCEPT ![c] = t],
         UNCHANGED <<state, parent, merged, key, links, changes, crossed>>
  PROVE  Filed'
<1>1. \A d \in Clients : tx'[d] = IF d = c THEN t ELSE tx[d]
  BY DEF Filed, TypeOK
<1>2. \A u : GoesWithTags(u) => GoesWithTags(u)'
  BY DEF GoesWithTags, Pending
<1>3. \A o \in Clients \ {c} : Apart(tx[o], t)
  BY ApartSymmetric DEF Filed, Fits
<1>4. ASSUME NEW d \in Clients PROVE Fits(d, tx[d])'
  <2>1. tx'[d] \in Transactions /\ Formed(tx'[d]) /\ GoesWithTags(tx[d])'
    BY <1>1, <1>2 DEF Filed, Fits, GoesWithTags, Pending
  <2>2. \A o \in Clients \ {d} : Apart(tx'[d], tx'[o])
    BY <1>1, <1>3 DEF Filed, Fits
  <2> QED
    BY <2>1, <2>2 DEF Fits, Formed, AsksForBoth, Apart, Transactions
<1>5. TypeOK'
  BY <1>4 DEF Filed, TypeOK, Fits, Transactions
<1>6. MergedAreGone' /\ MergesEnd' /\ LinksLeaveMergedTags' /\ PendingWithinLimit'
  BY DEF Filed, MergedAreGone, MergesEnd, LinksLeaveMergedTags, PendingWithinLimit, Pending
<1> QED
  BY <1>4, <1>5, <1>6 DEF Filed

(* A request is fit to begin: it holds no lock, and what it is about was read in this state.      *)
LEMMA FreshFits ==
  ASSUME Filed, NEW c \in Clients, NEW t \in Transactions, Formed(t),
         t.locks = {}, t.settled = {}, t.op \notin {"merging"},
         t.op \in Inserts => \A x \in t.rows : x \in Unused,
         t.op = "delete" => t.rows \subseteq LiveTags,
         t.op \in {"merge", "link"} => t.tag \in LiveTags,
         t.op = "file" => t.rows = {} /\ t.name = None
  PROVE  Fits(c, t)
<1>1. GoesWithTags(t)
  <2>1. \A x \in LiveTags : state[x] # "none" /\ merged[x] = None
    BY DEF Filed, MergedAreGone, LiveTags, Live
  <2>2. \A x \in Unused : state[x] = "none"
    BY DEF Unused
  <2> QED
    BY <2>1, <2>2 DEF GoesWithTags
<1>2. \A o \in Clients : Apart(t, tx[o])
  <2>1. \A x \in Unused : \A o \in Clients : x \notin tx[o].rows
    BY DEF Unused
  <2> QED
    BY <2>1 DEF Apart
<1> QED
  BY <1>1, <1>2 DEF Fits

LEMMA OnTagsStep ==
  ASSUME Filed, NEW c \in Clients, OnTags(c)
  PROVE  Filed'
<1> USE DEF Begin
<1>0. /\ LiveTags \subseteq Tags /\ Unused \subseteq Tags /\ Places \subseteq Tags \cup {None}
      /\ \A S \in SUBSET Tags, m \in Modes : Requests(S, m) \in Seq((SUBSET Tags) \X Modes)
      /\ \A q \in Tags \cup {None} : Reference(q) \in Seq((SUBSET Tags) \X Modes)
  BY RequestsTyped, ReferenceTyped DEF LiveTags, Unused, Places
<1>1. ASSUME NEW n \in Unused, NEW k \in Keys, NEW p \in Places, Create(c, n, k, p)
      PROVE  Filed'
  <2> DEFINE t == [Idle EXCEPT !.op = "create", !.rows = {n}, !.tag = n, !.name = k, !.other = p,
                               !.want = Reference(p)]
  <2>1. t \in Transactions
    BY <1>0 DEF Transactions, Idle, Ops, None
  <2>2. t.op = "create" /\ t.rows = {n} /\ t.tag = n /\ t.name = k /\ t.locks = {} /\ t.settled = {}
    BY DEF Idle
  <2> HIDE DEF t
  <2>3. Fits(c, t)
    BY <1>0, <2>1, <2>2, FreshFits DEF Formed
  <2> QED
    BY <1>1, <2>3, QuietStep DEF Create, t
<1>2. ASSUME NEW s \in LiveTags, Confirm(c, s)
      PROVE  Filed'
  <2> DEFINE t == [Idle EXCEPT !.op = "confirm", !.tag = s, !.want = Requests({s}, "row")]
  <2>1. t \in Transactions
    BY <1>0 DEF Transactions, Idle, Ops, None, Modes
  <2>2. t.op = "confirm" /\ t.locks = {} /\ t.settled = {}
    BY DEF Idle
  <2> HIDE DEF t
  <2>3. Fits(c, t)
    BY <2>1, <2>2, FreshFits DEF Formed, Inserts
  <2> QED
    BY <1>2, <2>3, QuietStep DEF Confirm, t
<1>3. ASSUME NEW s \in LiveTags, Delete(c, s)
      PROVE  Filed'
  <2> DEFINE t == [Idle EXCEPT !.op = "delete", !.rows = Descendants(s),
                               !.want = Requests(Descendants(s), "row")]
  <2>0. Descendants(s) \subseteq LiveTags
    BY DescendantsAreLive
  <2>1. t \in Transactions
    BY <1>0, <2>0 DEF Transactions, Idle, Ops, None, Modes
  <2>2. t.op = "delete" /\ t.rows \subseteq LiveTags /\ t.locks = {} /\ t.settled = {}
    BY <2>0 DEF Idle
  <2> HIDE DEF t
  <2>3. Fits(c, t)
    BY <2>1, <2>2, FreshFits DEF Formed, Inserts
  <2> QED
    BY <1>3, <2>3, QuietStep DEF Delete, t
<1>4. ASSUME NEW s \in LiveTags, NEW k \in Keys, Rename(c, s, k)
      PROVE  Filed'
  <2> DEFINE t == [Idle EXCEPT !.op = "rename", !.tag = s, !.name = k, !.want = Requests({s}, "all")]
  <2>1. t \in Transactions
    BY <1>0 DEF Transactions, Idle, Ops, None, Modes
  <2>2. t.op = "rename" /\ t.name = k /\ t.locks = {} /\ t.settled = {}
    BY DEF Idle
  <2> HIDE DEF t
  <2>3. Fits(c, t)
    BY <2>1, <2>2, FreshFits DEF Formed, Inserts
  <2> QED
    BY <1>4, <2>3, QuietStep DEF Rename, t
<1>5. ASSUME NEW s \in LiveTags, NEW p \in Places, Move(c, s, p)
      PROVE  Filed'
  <2> DEFINE t == [Idle EXCEPT !.op = "move", !.tag = s, !.other = p,
                               !.want = Requests({s}, "row") \o Reference(p)]
  <2>1. t \in Transactions
    <3>1. Requests({s}, "row") \o Reference(p) \in Seq((SUBSET Tags) \X Modes)
      BY <1>0 DEF Modes
    <3> QED
      BY <1>0, <3>1 DEF Transactions, Idle, Ops, None
  <2>2. t.op = "move" /\ t.locks = {} /\ t.settled = {}
    BY DEF Idle
  <2> HIDE DEF t
  <2>3. Fits(c, t)
    BY <2>1, <2>2, FreshFits DEF Formed, Inserts
  <2> QED
    BY <1>5, <2>3, QuietStep DEF Move, t
<1>6. ASSUME NEW s \in LiveTags, NEW u \in LiveTags, Merge(c, s, u)
      PROVE  Filed'
  <2> DEFINE t == [Idle EXCEPT !.op = "merge", !.tag = s, !.other = u,
                               !.want = Requests({s, u}, "all")]
  <2>1. t \in Transactions
    BY <1>0 DEF Transactions, Idle, Ops, None, Modes
  <2>2. /\ t.op = "merge" /\ t.tag = s /\ t.other = u /\ t.locks = {} /\ t.settled = {}
        /\ t.want = <<<<{s, u}, "all">>>>
    BY DEF Idle, Requests
  <2>3. s # u
    BY <1>6 DEF Merge
  <2> HIDE DEF t
  <2>4. Tail(t.want) = <<>> /\ Head(t.want)[2] = "all"
    BY <2>2
  <2>5. AsksForBoth(t)
    BY <2>2 DEF AsksForBoth
  <2>6. Formed(t)
    BY <1>0, <2>2, <2>3, <2>4, <2>5 DEF Formed
  <2>7. Fits(c, t)
    BY <2>1, <2>2, <2>6, FreshFits DEF Inserts
  <2> QED
    BY <1>6, <2>7, QuietStep DEF Merge, t
<1> QED
  BY <1>1, <1>2, <1>3, <1>4, <1>5, <1>6 DEF OnTags

LEMMA OnDocumentsStep ==
  ASSUME Filed, NEW c \in Clients, OnDocuments(c)
  PROVE  Filed'
<1> USE DEF Begin
<1>0. /\ LiveTags \subseteq Tags /\ Places \subseteq Tags \cup {None}
      /\ \A S \in SUBSET Tags, m \in Modes : Requests(S, m) \in Seq((SUBSET Tags) \X Modes)
      /\ \A q \in Tags \cup {None} : Reference(q) \in Seq((SUBSET Tags) \X Modes)
  BY RequestsTyped, ReferenceTyped DEF LiveTags, Places
<1>1. ASSUME NEW a \in Assets, NEW s \in LiveTags, Link(c, a, s)
      PROVE  Filed'
  <2> DEFINE t == [Idle EXCEPT !.op = "link", !.tag = s, !.asset = a, !.want = Reference(s)]
  <2>1. t \in Transactions
    BY <1>0 DEF Transactions, Idle, Ops, None
  <2>2. t.op = "link" /\ t.tag = s /\ t.asset = a /\ t.locks = {} /\ t.settled = {}
    BY DEF Idle
  <2> HIDE DEF t
  <2>3. Fits(c, t)
    BY <1>0, <2>1, <2>2, FreshFits DEF Formed, Inserts
  <2> QED
    BY <1>1, <2>3, QuietStep DEF Link, t
<1>2. ASSUME NEW a \in Assets, NEW S \in SUBSET LiveTags, File(c, a, S)
      PROVE  Filed'
  <2> DEFINE t == [Idle EXCEPT !.op = "file", !.asset = a, !.want = Requests(S, "key")]
  <2>1. t \in Transactions
    BY <1>0 DEF Transactions, Idle, Ops, None, Modes
  <2>2. t.op = "file" /\ t.asset = a /\ t.rows = {} /\ t.name = None /\ t.locks = {} /\ t.settled = {}
    BY DEF Idle
  <2> HIDE DEF t
  <2>3. Fits(c, t)
    BY <2>1, <2>2, FreshFits DEF Formed, Inserts
  <2> QED
    BY <1>2, <2>3, QuietStep DEF File, t
<1>3. ASSUME NEW a \in Assets, NEW S \in SUBSET LiveTags, NEW k \in Keys, NEW p \in Places,
             FileSuggesting(c, a, S, k, p)
      PROVE  Filed'
  <2> DEFINE t == [Idle EXCEPT !.op = "suggest", !.asset = a, !.next = S, !.name = k, !.other = p]
  <2>1. t \in Transactions
    <3>1. <<>> \in Seq((SUBSET Tags) \X Modes)
      OBVIOUS
    <3> QED
      BY <1>0, <3>1 DEF Transactions, Idle, Ops, None
  <2>2. t.op = "suggest" /\ t.asset = a /\ t.rows = {} /\ t.name = k /\ t.locks = {} /\ t.settled = {}
    BY DEF Idle
  <2> HIDE DEF t
  <2>3. Fits(c, t)
    BY <2>1, <2>2, FreshFits DEF Formed, Inserts
  <2> QED
    BY <1>3, <2>3, QuietStep DEF FileSuggesting, t
<1> QED
  BY <1>1, <1>2, <1>3 DEF OnDocuments

(* What a filing does with a tag it has locked: it settles on the tag if that is live.            *)
LEMMA LookedIs ==
  ASSUME Filed, NEW t \in Transactions, NEW x \in Tags
  PROVE  LET u == Looked(t, x) IN
         /\ u \in Transactions
         /\ u.op = t.op /\ u.tag = t.tag /\ u.other = t.other /\ u.name = t.name
         /\ u.asset = t.asset /\ u.rows = t.rows /\ u.locks = t.locks
         /\ u.settled = IF Live(x) THEN t.settled \cup {x} ELSE t.settled
         /\ u.hopped \/ (u.want = t.want /\ u.hopped = t.hopped)
<1> DEFINE on == IF Live(x) \/ merged[x] = None THEN t.next ELSE t.next \cup {merged[x]}
           at == [t EXCEPT !.settled = IF Live(x) THEN @ \cup {x} ELSE @]
           round == [at EXCEPT !.want = Requests(on, "key"), !.next = {}, !.hopped = TRUE]
           later == [at EXCEPT !.next = on]
<1>1. on \subseteq Tags
  <2>1. merged[x] \in Tags \cup {None}
    BY DEF Filed, TypeOK
  <2> QED
    BY <2>1 DEF Transactions
<1>2. Requests(on, "key") \in Seq((SUBSET Tags) \X Modes)
  BY <1>1, RequestsTyped DEF Modes
<1> HIDE DEF on
<1>3. /\ at \in Transactions
      /\ at.op = t.op /\ at.tag = t.tag /\ at.other = t.other /\ at.name = t.name
      /\ at.asset = t.asset /\ at.rows = t.rows /\ at.locks = t.locks
      /\ at.settled = IF Live(x) THEN t.settled \cup {x} ELSE t.settled
      /\ at.want = t.want /\ at.hopped = t.hopped
  BY DEF Transactions
<1> HIDE DEF at
<1>4. /\ round \in Transactions
      /\ round.op = at.op /\ round.tag = at.tag /\ round.other = at.other /\ round.name = at.name
      /\ round.asset = at.asset /\ round.rows = at.rows /\ round.locks = at.locks
      /\ round.settled = at.settled /\ round.hopped
  BY <1>2, <1>3 DEF Transactions
<1>5. /\ later \in Transactions
      /\ later.op = at.op /\ later.tag = at.tag /\ later.other = at.other /\ later.name = at.name
      /\ later.asset = at.asset /\ later.rows = at.rows /\ later.locks = at.locks
      /\ later.settled = at.settled /\ later.want = at.want /\ later.hopped = at.hopped
  BY <1>1, <1>3 DEF Transactions
<1>6. Looked(t, x) = round \/ Looked(t, x) = later
  BY DEF Looked, on, at
<1> HIDE DEF round, later
<1> QED
  BY <1>3, <1>4, <1>5, <1>6

Demands == Seq((SUBSET Tags) \X Modes)
Granted(t, w, x, mode) == [t EXCEPT !.want = w, !.locks = @ \cup {<<x, mode>>}]

LEMMA GrantedIs ==
  ASSUME NEW t, t \in Transactions, NEW w, w \in Demands,
         NEW x, x \in Tags, NEW mode, mode \in Modes, NEW u, u = Granted(t, w, x, mode)
  PROVE  /\ u \in Transactions
         /\ u.op = t.op /\ u.tag = t.tag /\ u.other = t.other /\ u.name = t.name
         /\ u.asset = t.asset /\ u.rows = t.rows /\ u.settled = t.settled
         /\ u.locks = t.locks \cup {<<x, mode>>} /\ u.want = w /\ u.hopped = t.hopped
<1> DEFINE A == SUBSET (Tags \X Modes)
           W == Demands
           more == t.locks \cup {<<x, mode>>}
<1>1. Transactions =
        [op : Ops \cup {"idle"}, tag : Tags \cup {None}, other : Tags \cup {None}, name : Keys \cup {None},
         asset : Assets \cup {None}, rows : SUBSET Tags, want : W, locks : A,
         settled : SUBSET Tags, next : SUBSET Tags, hopped : BOOLEAN]
  BY DEF Transactions, Demands
<1>2. more \in A /\ w \in W
  BY DEF Transactions
<1> HIDE DEF A, W, more
<1>3. u = [t EXCEPT !.want = w, !.locks = more]
  BY DEF more, Granted
<1>4. /\ u \in Transactions
         /\ u.op = t.op /\ u.tag = t.tag /\ u.other = t.other /\ u.name = t.name
         /\ u.asset = t.asset /\ u.rows = t.rows /\ u.settled = t.settled
         /\ u.locks = more /\ u.want = w /\ u.hopped = t.hopped
  BY <1>1, <1>2, <1>3
<1> QED
  BY <1>4 DEF more

LEMMA OnlyOne ==
  ASSUME NEW e
  PROVE  Tail(<<e>>) = <<>> /\ Head(<<e>>) = e /\ <<e>> # <<>>
<1>1. <<e>> \in Seq({e}) /\ Len(<<e>>) = 1
  OBVIOUS
<1> QED
  BY <1>1

LEMMA NothingAfter ==
  ASSUME NEW G, NEW s \in Seq(G)
  PROVE  s \o <<>> = s
  OBVIOUS

(* What a lock that is granted makes of a transaction: it asks for the others of the same set and *)
(* then for the rest, or a filing goes on to another round.                                       *)
Rest(t, x) == Requests(Head(t.want)[1] \ {x}, Head(t.want)[2]) \o Tail(t.want)

Granting(c, among, mode, x, u) ==
    /\ Head(tx[c].want) = <<among, mode>> /\ x \in among
    /\ \A y \in among \ {x} : x <= y
    /\ \A o \in Clients \ {c} : ~Holds(o, <<x, mode>>)
    /\ tx' = [tx EXCEPT ![c] = u]
    /\ u.op = tx[c].op /\ u.tag = tx[c].tag /\ u.other = tx[c].other
    /\ u.name = tx[c].name /\ u.asset = tx[c].asset /\ u.rows = tx[c].rows
    /\ u.locks = tx[c].locks \cup {<<x, mode>>}
    /\ u.settled \subseteq tx[c].settled \cup (IF mode = "key" /\ Live(x) THEN {x} ELSE {})
    /\ (mode = "key" /\ u.hopped)
         \/ (u.want = Rest(tx[c], x) /\ u.hopped = tx[c].hopped)

LEMMA LockIs ==
  ASSUME Filed, NEW c \in Clients, Lock(c)
  PROVE  /\ tx[c].want # <<>> /\ tx[c].want \in Demands
         /\ \E among \in SUBSET Tags, mode \in Modes, x \in Tags, u \in Transactions :
              Granting(c, among, mode, x, u)
<1> DEFINE old == tx[c]
           G == (SUBSET Tags) \X Modes
<1>1. old \in Transactions /\ old.want # <<>> /\ old.want \in Seq(G)
  BY DEF Filed, Lock, Fits, Transactions
<1>2. Head(old.want) \in G /\ Tail(old.want) \in Seq(G)
  <2> HIDE DEF G
  <2> QED
    BY <1>1
<1> DEFINE among == Head(old.want)[1]
           mode == Head(old.want)[2]
<1>3. among \in SUBSET Tags /\ mode \in Modes /\ Head(old.want) = <<among, mode>>
  BY <1>2
<1>4. PICK x \in among :
        /\ \A y \in among \ {x} : x <= y
        /\ \A o \in Clients \ {c} : ~Holds(o, <<x, mode>>)
        /\ tx' = [tx EXCEPT ![c] = IF mode = "key" THEN Looked(Granted(old, Rest(old, x), x, mode), x)
                                  ELSE Granted(old, Rest(old, x), x, mode)]
  BY DEF Lock, Granted, Rest
<1> DEFINE wants == Rest(old, x)
           t == Granted(old, wants, x, mode)
           u == IF mode = "key" THEN Looked(t, x) ELSE t
<1>5. wants \in Seq(G)
  <2>1. Requests(among \ {x}, mode) \in Seq(G)
    BY <1>3, RequestsTyped
  <2>2. wants = Requests(among \ {x}, mode) \o Tail(old.want)
    BY DEF Rest
  <2> HIDE DEF G, among, mode, wants
  <2> QED
    BY <1>2, <2>1, <2>2
<1> HIDE DEF among, mode
<1>6. x \in Tags
  BY <1>3
<1>7. /\ t \in Transactions
      /\ t.op = old.op /\ t.tag = old.tag /\ t.other = old.other /\ t.name = old.name
      /\ t.asset = old.asset /\ t.rows = old.rows /\ t.settled = old.settled
      /\ t.locks = old.locks \cup {<<x, mode>>} /\ t.want = wants /\ t.hopped = old.hopped
  <2> HIDE DEF wants
  <2>1. t = Granted(old, wants, x, mode)
    OBVIOUS
  <2>2. wants \in Demands
    BY <1>5 DEF Demands
  <2>3. old \in Transactions /\ mode \in Modes
    BY <1>1, <1>3
  <2> HIDE DEF t, old
  <2> QED
    BY <1>6, <2>1, <2>2, <2>3, GrantedIs
<1> HIDE DEF t
<1>8. /\ u \in Transactions
      /\ u.op = old.op /\ u.tag = old.tag /\ u.other = old.other /\ u.name = old.name
      /\ u.asset = old.asset /\ u.rows = old.rows /\ u.locks = old.locks \cup {<<x, mode>>}
      /\ u.settled \subseteq old.settled \cup (IF mode = "key" /\ Live(x) THEN {x} ELSE {})
      /\ (mode = "key" /\ u.hopped) \/ (u.want = wants /\ u.hopped = old.hopped)
  <2> HIDE DEF wants
  <2> QED
    BY <1>6, <1>7, LookedIs
<1>9. tx' = [tx EXCEPT ![c] = u]
  BY <1>4 DEF u, t
<1>10. old.want \in Demands
  BY <1>1 DEF Demands
<1> HIDE DEF u
<1>11. Granting(c, among, mode, x, u)
  BY <1>3, <1>4, <1>8, <1>9 DEF Granting
<1> HIDE DEF old
<1> QED
  BY <1>1, <1>3, <1>6, <1>8, <1>10, <1>11 DEF old

(* A lock is granted: the locks of two clients still agree, and what a filing settles on is held. *)
LEMMA LockStep ==
  ASSUME Filed, NEW c \in Clients, Lock(c)
  PROVE  Filed'
<1> DEFINE old == tx[c]
<1>1. old \in Transactions /\ Fits(c, old) /\ old.want # <<>> /\ old.want \in Demands
  BY LockIs DEF Filed, Fits
<1>2. PICK among \in SUBSET Tags, mode \in Modes, x \in Tags, u \in Transactions :
        Granting(c, among, mode, x, u)
  BY LockIs
<1>3. /\ u.op = old.op /\ u.tag = old.tag /\ u.other = old.other /\ u.name = old.name
      /\ u.asset = old.asset /\ u.rows = old.rows /\ u.locks = old.locks \cup {<<x, mode>>}
      /\ u.settled \subseteq old.settled \cup (IF mode = "key" /\ Live(x) THEN {x} ELSE {})
  BY <1>2 DEF Granting
<1>4. /\ Head(old.want) = <<among, mode>> /\ x \in among
      /\ mode # "key" => u.want = Rest(old, x)
  BY <1>2 DEF Granting
<1> DEFINE left == among \ {x}
<1>5. Formed(u)
  <2>1. ASSUME old.op = "merge"
        PROVE  AsksForBoth(u) /\ (u.want # <<>> => Tail(u.want) = <<>> /\ Head(u.want)[2] = "all")
    <3>1. AsksForBoth(old) /\ Tail(old.want) = <<>> /\ mode = "all"
      BY <1>1, <1>4, <2>1 DEF Fits, Formed
    <3>2. u.want = Requests(left, mode)
      <4>1. Requests(left, mode) \in Seq((SUBSET Tags) \X Modes)
        BY RequestsTyped
      <4>2. u.want = Requests(left, mode) \o <<>>
        <5>1. /\ u.want = Rest(old, x) /\ Tail(old.want) = <<>>
              /\ Head(old.want)[1] \ {x} = left /\ Head(old.want)[2] = mode
          BY <1>4, <3>1
        <5> QED
          BY <5>1 DEF Rest
      <4> QED
        BY <4>1, <4>2, NothingAfter
    <3>3. u.want = IF left = {} THEN <<>> ELSE <<<<left, mode>>>>
      BY <3>2 DEF Requests
    <3>4. u.want # <<>> => Tail(u.want) = <<>> /\ Head(u.want) = <<left, mode>>
      BY <3>3, OnlyOne
    <3>5. left # {} => u.want # <<>>
      BY <3>3, OnlyOne
    <3>6. \A y \in {old.tag, old.other} :
             <<y, "all">> \in old.locks \cup {<<x, mode>>} \/ y \in left
      BY <1>4, <3>1 DEF AsksForBoth
    <3> HIDE DEF left
    <3>7. \A y \in left : u.want # <<>> /\ Head(u.want)[2] = "all" /\ y \in Head(u.want)[1]
      BY <3>1, <3>4, <3>5
    <3>8. AsksForBoth(u)
      BY <1>3, <3>6, <3>7 DEF AsksForBoth
    <3> QED
      BY <3>1, <3>4, <3>8
  <2> HIDE DEF old
  <2> QED
    BY <1>1, <1>3, <2>1 DEF Fits, Formed
<1>6. GoesWithTags(u)
  <2>1. Live(x) => merged[x] = None
    BY DEF Filed, MergedAreGone, Live
  <2> HIDE DEF old
  <2> QED
    BY <1>1, <1>3, <2>1 DEF Fits, GoesWithTags
<1>7. ASSUME NEW o \in Clients \ {c} PROVE Apart(u, tx[o])
  <2>1. \A m \in tx[o].locks : m[1] = x => ~Conflict(mode, m[2])
    BY <1>2 DEF Granting, Holds, Conflict
  <2> QED
    BY <1>1, <1>3, <2>1 DEF Fits, Apart
<1>8. Fits(c, u)
  BY <1>5, <1>6, <1>7 DEF Fits
<1> QED
  BY <1>2, <1>8, QuietStep DEF Granting, Lock

LEMMA DemandsTyped ==
  ASSUME NEW S \in SUBSET Tags, NEW mode \in Modes, NEW q \in Demands
  PROVE  q \o Requests(S, mode) \in Demands /\ Requests(S, mode) \in Demands
<1>1. Requests(S, mode) \in Demands
  BY RequestsTyped DEF Demands
<1> DEFINE G == (SUBSET Tags) \X Modes
<1>2. q \in Seq(G) /\ Requests(S, mode) \in Seq(G)
  BY <1>1 DEF Demands
<1> HIDE DEF G
<1>3. q \o Requests(S, mode) \in Seq(G)
  BY <1>2
<1> QED
  BY <1>1, <1>3 DEF Demands, G

(* With both rows locked and the target live, a merge reads the children.                         *)
LEMMA MergeReadStep ==
  ASSUME Filed, NEW c \in Clients, MergeRead(c)
  PROVE  Filed'
<1> DEFINE old == tx[c]
           children == {g \in LiveTags : parent[g] = old.tag}
           asked == Requests(children, "row")
           t == [old EXCEPT !.op = "merging", !.rows = children, !.want = asked]
<1>1. /\ old \in Transactions /\ Formed(old) /\ GoesWithTags(old)
      /\ \A o \in Clients \ {c} : Apart(old, tx[o])
  BY DEF Filed, Fits
<1>2. old.op = "merge" /\ old.want = <<>> /\ Live(old.other)
  BY DEF MergeRead, Ready
<1>3. children \subseteq Tags /\ asked \in Seq((SUBSET Tags) \X Modes)
  BY RequestsTyped DEF LiveTags, Modes
<1>4. tx' = [tx EXCEPT ![c] = t]
  BY DEF MergeRead, Merging, Filed, TypeOK
<1> HIDE DEF children, asked, old
<1>5. /\ t \in Transactions
      /\ t.op = "merging" /\ t.tag = old.tag /\ t.other = old.other
      /\ t.settled = old.settled /\ t.locks = old.locks
  BY <1>1, <1>3 DEF Transactions, Ops
<1> HIDE DEF t
<1>6. Formed(t)
  <2>1. /\ old.tag \in Tags /\ old.other \in Tags /\ old.tag # old.other
        /\ <<old.tag, "all">> \in old.locks /\ <<old.other, "all">> \in old.locks
    BY <1>1, <1>2 DEF Formed, AsksForBoth
  <2> QED
    BY <1>5, <2>1 DEF Formed
<1>7. GoesWithTags(t)
  <2>1. merged[old.other] = None
    BY <1>1, <1>2 DEF Filed, MergedAreGone, Live, Formed
  <2> QED
    BY <1>1, <1>2, <1>5, <2>1 DEF GoesWithTags, Inserts
<1>8. Fits(c, t)
  BY <1>1, <1>5, <1>6, <1>7 DEF Fits, Apart, Inserts
<1> QED
  BY <1>4, <1>8, QuietStep DEF MergeRead

(* A suggestion uses a tag that is there, is given up, or makes room for a new one: one filing at *)
(* a time, as long as there is room.                                                              *)
LEMMA SuggestStep ==
  ASSUME Filed, NEW c \in Clients, Suggest(c)
  PROVE  Filed'
<1> DEFINE old == tx[c]
<1>1. /\ old \in Transactions /\ Formed(old) /\ GoesWithTags(old)
      /\ \A o \in Clients \ {c} : Apart(old, tx[o])
  BY DEF Filed, Fits
<1>2. old.op = "suggest" /\ \A o \in Clients : ~HasSpace(o)
  BY DEF Suggest
<1>3. /\ old.rows = {} /\ old.name \in Keys /\ old.asset \in Assets
      /\ old.next \subseteq Tags /\ old.other \in Tags \cup {None}
  BY <1>1, <1>2 DEF Formed, Transactions
<1>4. ASSUME NEW S \in SUBSET Tags, NEW first \in Demands
      PROVE  /\ Filing(c, S, first) \in Transactions
             /\ Filing(c, S, first).op = "file" /\ Filing(c, S, first).rows = {}
             /\ Filing(c, S, first).name = old.name /\ Filing(c, S, first).asset = old.asset
             /\ Filing(c, S, first).settled = old.settled
             /\ Filing(c, S, first).locks = old.locks
  <2> DEFINE asked == first \o Requests(S, "key")
  <2>1. asked \in Seq((SUBSET Tags) \X Modes)
    BY DemandsTyped DEF Demands, Modes
  <2>2. Filing(c, S, first) = [old EXCEPT !.op = "file", !.next = {}, !.want = asked]
    BY DEF Filing
  <2> HIDE DEF asked, old
  <2> QED
    BY <1>1, <1>3, <2>1, <2>2 DEF Transactions, Ops
<1>5. ASSUME NEW S \in SUBSET Tags, NEW first \in Demands
      PROVE  Fits(c, Filing(c, S, first))
  <2> DEFINE t == Filing(c, S, first)
  <2> HIDE DEF t, old
  <2>1. /\ t \in Transactions /\ t.op = "file" /\ t.rows = {} /\ t.name = old.name
        /\ t.asset = old.asset /\ t.settled = old.settled /\ t.locks = old.locks
    BY <1>4 DEF t
  <2>2. Formed(t)
    BY <1>3, <2>1 DEF Formed
  <2>3. GoesWithTags(t)
    BY <1>1, <1>2, <2>1 DEF GoesWithTags
  <2>4. \A o \in Clients \ {c} : Apart(t, tx[o])
    BY <1>1, <1>2, <2>1 DEF Apart, HasSpace
  <2> QED
    BY <2>1, <2>2, <2>3, <2>4 DEF Fits, t
<1>6. <<>> \in Demands /\ Reference(old.other) \in Demands
  BY <1>3, ReferenceTyped DEF Demands
<1>7. CASE SuggestFound(c)
  <2>1. PICK x \in Tags : tx' = [tx EXCEPT ![c] = Filing(c, old.next \cup {x}, <<>>)]
    BY <1>7 DEF SuggestFound
  <2>2. Fits(c, Filing(c, old.next \cup {x}, <<>>))
    BY <1>3, <1>5, <1>6
  <2> QED
    BY <2>1, <2>2, QuietStep DEF Suggest
<1>8. CASE SuggestNothing(c)
  <2>1. tx' = [tx EXCEPT ![c] = Filing(c, old.next, <<>>)]
    BY <1>8 DEF SuggestNothing
  <2>2. Fits(c, Filing(c, old.next, <<>>))
    BY <1>3, <1>5, <1>6
  <2> QED
    BY <2>1, <2>2, QuietStep DEF Suggest
<1>9. CASE SuggestInsert(c)
  <2> DEFINE at == Filing(c, old.next, Reference(old.other))
             T(n) == [at EXCEPT !.tag = n, !.rows = {n}, !.settled = {n}]
  <2>1. PICK n \in Unused : tx' = [tx EXCEPT ![c] = T(n)]
    BY <1>9 DEF SuggestInsert
  <2>2. Cardinality(Pending) < MaxPending
    BY <1>9 DEF SuggestInsert, MayInsert
  <2>3. n \in Tags /\ state[n] = "none" /\ merged[n] = None /\ \A o \in Clients : n \notin tx[o].rows
    BY DEF Unused, Filed, MergedAreGone
  <2>4. /\ at \in Transactions /\ at.op = "file" /\ at.name = old.name /\ at.asset = old.asset
        /\ at.locks = old.locks
    BY <1>3, <1>4, <1>6
  <2> DEFINE t == T(n)
  <2> HIDE DEF at, old
  <2>5. /\ t \in Transactions /\ t.op = "file" /\ t.rows = {n} /\ t.name = old.name
        /\ t.asset = old.asset /\ t.settled = {n} /\ t.locks = old.locks
    BY <2>3, <2>4 DEF Transactions
  <2> HIDE DEF t
  <2>6. Formed(t)
    BY <1>3, <2>3, <2>5 DEF Formed
  <2>7. GoesWithTags(t)
    BY <2>2, <2>3, <2>5 DEF GoesWithTags
  <2>8. \A o \in Clients \ {c} : Apart(t, tx[o])
    BY <1>1, <1>2, <2>3, <2>5 DEF Apart, HasSpace
  <2>9. Fits(c, t)
    BY <2>5, <2>6, <2>7, <2>8 DEF Fits
  <2> QED
    BY <2>1, <2>9, QuietStep DEF Suggest, t
<1> QED
  BY <1>7, <1>8, <1>9 DEF Suggest

(* What every commit does with the tags: one that exists never becomes one that does not, a       *)
(* deleted one stays deleted, and a new one is the commit's own.                                  *)
TagsGoOn(t) ==
    /\ \A x \in Tags : state[x] # "none" => state'[x] # "none"
    /\ \A x \in Tags : state[x] = "deleted" => state'[x] = "deleted"
    /\ \A x \in Tags : state[x] = "none" /\ state'[x] # "none" => t.op \in Inserts /\ x \in t.rows
    /\ Pending' \subseteq Pending \/ (t.op = "file" /\ t.rows # {} /\ Pending' \subseteq Pending \cup t.rows)
    /\ \/ t.op # "merging" /\ merged' = merged
       \/ /\ t.op = "merging" /\ merged' = [merged EXCEPT ![t.tag] = t.other]
          /\ state'[t.tag] = "deleted"

(* The other transactions fit the tables that a commit leaves.                                    *)
LEMMA OthersStillFit ==
  ASSUME Filed, NEW c \in Clients, Commit(c), TagsGoOn(tx[c]),
         NEW o \in Clients \ {c}
  PROVE  GoesWithTags(tx[o])'
<1> DEFINE mine == tx[c]
           t == tx[o]
<1>1. /\ mine \in Transactions /\ Formed(mine) /\ GoesWithTags(mine)
      /\ t \in Transactions /\ Formed(t) /\ GoesWithTags(t) /\ Apart(t, mine)
  BY DEF Filed, Fits
<1>2. tx'[o] = t
  BY DEF Commit, Filed, TypeOK
<1>3. \A x \in Tags : merged'[x] # merged[x] =>
          /\ mine.op = "merging" /\ x = mine.tag /\ state[x] # "none" /\ <<x, "all">> \in mine.locks
  BY <1>1 DEF TagsGoOn, Formed, GoesWithTags, Filed, TypeOK
<1>4. ASSUME mine.op = "merging", t.op = "link"
      PROVE  "links" \in crossed'
  <2>1. "links" \in Risks(mine.op, t.op)
    BY <1>4 DEF Risks, Promises
  <2> HIDE DEF mine, t
  <2>2. crossed' = crossed \cup UNION {Risks(mine.op, tx[u].op) : u \in Clients \ {c}}
    BY DEF Commit, mine
  <2>3. Risks(mine.op, t.op) \in {Risks(mine.op, tx[u].op) : u \in Clients \ {c}}
    BY DEF t
  <2> QED
    BY <2>1, <2>2, <2>3
<1>5. crossed \subseteq crossed'
  BY DEF Commit
<1>6. mine.op # "merging" => merged' = merged
  BY DEF TagsGoOn
<1>7. \A x \in Tags, m \in Modes : <<x, "all">> \in mine.locks => <<x, m>> \notin t.locks
  BY <1>1 DEF Apart, Conflict
<1>8. /\ t.tag \in Tags \cup {None} /\ t.other \in Tags \cup {None} /\ t.rows \subseteq Tags
      /\ t.settled \subseteq Tags /\ mine.rows \subseteq Tags
  BY <1>1 DEF Transactions
<1>9. t.op = "file" /\ t.rows # {} => Pending' \subseteq Pending
  BY <1>1, KeysAssumption DEF TagsGoOn, Formed, Apart, None
<1>10. t.op = "file" /\ t.rows # {} => Cardinality(Pending') < MaxPending
  <2>1. Pending \subseteq Tags /\ IsFiniteSet(Pending) /\ Cardinality(Pending) \in Nat
    BY TagsAreFinite DEF Pending
  <2>2. ASSUME Pending' \subseteq Pending
        PROVE  Cardinality(Pending') <= Cardinality(Pending) /\ Cardinality(Pending') \in Nat
    BY <2>1, <2>2, FS_Subset, FS_CardinalityType
  <2> QED
    BY <1>1, <1>9, <2>1, <2>2, LimitAssumption DEF GoesWithTags
<1>11. \A x \in t.settled : merged'[x] = None
  BY <1>1, <1>3, <1>7, <1>8 DEF GoesWithTags, Modes, Inserts
<1>12. t.op = "merging" => merged'[t.other] = None
  BY <1>1, <1>3, <1>7 DEF GoesWithTags, Formed, Modes
<1>13. t.op = "link" /\ "links" \notin crossed' => merged'[t.tag] = None
  BY <1>1, <1>4, <1>5, <1>6 DEF GoesWithTags
<1>14. t.op \in Inserts => \A x \in t.rows : state'[x] = "none"
  BY <1>1, <1>8 DEF GoesWithTags, TagsGoOn, Apart
<1>15. /\ t.op = "delete" => \A x \in t.rows : state'[x] # "none"
       /\ t.op \in {"merge", "merging"} => state'[t.tag] # "none"
  BY <1>1, <1>8 DEF GoesWithTags, TagsGoOn, Formed
<1>16. \A x \in t.settled : (t.op = "file" /\ x \in t.rows) \/ <<x, "key">> \in t.locks
  BY <1>1 DEF GoesWithTags
<1> HIDE DEF mine, t
<1> QED
  BY <1>2, <1>10, <1>11, <1>12, <1>13, <1>14, <1>15, <1>16 DEF GoesWithTags, Pending

(* Two rows that are locked and read again: a merge makes no circle of merges.                    *)
LEMMA MergesStillEnd ==
  ASSUME Filed, NEW c \in Clients, TagsGoOn(tx[c])
  PROVE  MergesEnd'
<1> DEFINE s == tx[c].tag
           t == tx[c].other
<1>1. CASE tx[c].op # "merging"
  BY <1>1 DEF TagsGoOn, Filed, MergesEnd
<1>2. CASE tx[c].op = "merging"
  <2>1. /\ s \in Tags /\ t \in Tags /\ s # t /\ merged[t] = None
        /\ merged' = [merged EXCEPT ![s] = t] /\ merged \in [Tags -> Tags \cup {None}]
    BY <1>2 DEF Filed, Fits, Formed, GoesWithTags, TagsGoOn, TypeOK
  <2> HIDE DEF s, t
  <2> SUFFICES ASSUME NEW S \in SUBSET Tags, S # {}, \A x \in S : merged'[x] \in S
               PROVE  FALSE
    BY DEF MergesEnd
  <2>2. None \notin Tags
    BY DEF None, Tags
  <2>3. t \notin S
    BY <2>1, <2>2
  <2>4. s \notin S
    BY <2>1, <2>3
  <2>5. \A x \in S : merged[x] \in S
    BY <2>1, <2>4
  <2> QED
    BY <2>5 DEF Filed, MergesEnd
<1> QED
  BY <1>1, <1>2

LEMMA PendingStillWithin ==
  ASSUME Filed, NEW c \in Clients, TagsGoOn(tx[c])
  PROVE  PendingWithinLimit'
<1>1. Pending \subseteq Tags /\ IsFiniteSet(Pending) /\ Cardinality(Pending) \in Nat
  BY TagsAreFinite DEF Pending
<1>2. CASE Pending' \subseteq Pending
  <2>1. Cardinality(Pending') <= Cardinality(Pending) /\ Cardinality(Pending') \in Nat
    BY <1>1, <1>2, FS_Subset, FS_CardinalityType
  <2> QED
    BY <1>1, <2>1, LimitAssumption DEF Filed, PendingWithinLimit
<1>3. CASE tx[c].op = "file" /\ tx[c].rows # {} /\ Pending' \subseteq Pending \cup tx[c].rows
  <2>1. PICK n \in Tags : tx[c].rows = {n}
    BY <1>3 DEF Filed, Fits, Formed
  <2>2. Cardinality(Pending) < MaxPending
    BY <1>3 DEF Filed, Fits, GoesWithTags
  <2>3. /\ IsFiniteSet(Pending \cup {n}) /\ Cardinality(Pending \cup {n}) \in Nat
        /\ Cardinality(Pending \cup {n}) <= Cardinality(Pending) + 1
    <3>1. /\ IsFiniteSet(Pending \cup {n})
          /\ Cardinality(Pending \cup {n}) =
               IF n \in Pending THEN Cardinality(Pending) ELSE Cardinality(Pending) + 1
      BY <1>1, FS_AddElement
    <3>2. Cardinality(Pending \cup {n}) \in Nat
      BY <3>1, FS_CardinalityType
    <3> HIDE DEF Pending
    <3> QED
      BY <1>1, <3>1, <3>2
  <2>4. Pending' \subseteq Pending \cup {n}
    BY <1>3, <2>1
  <2>5. Cardinality(Pending') <= Cardinality(Pending \cup {n}) /\ Cardinality(Pending') \in Nat
    BY <2>3, <2>4, FS_Subset, FS_CardinalityType
  <2> QED
    BY <1>1, <2>2, <2>3, <2>5, LimitAssumption DEF PendingWithinLimit
<1> QED
  BY <1>2, <1>3 DEF TagsGoOn

(* A commit that keeps the tables typed, lets the tags go on, and links no document to a tag that *)
(* was merged away.                                                                               *)
LEMMA CommitStep ==
  ASSUME Filed, NEW c \in Clients, Commit(c), TagsGoOn(tx[c]), LinksLeaveMergedTags',
         state' \in [Tags -> {"none", "pending", "active", "deleted"}],
         parent' \in [Tags -> Tags \cup {None}],
         key' \in [Tags -> Keys],
         links' \subseteq Assets \X Tags
  PROVE  Filed'
<1>1. tx' = [tx EXCEPT ![c] = Idle] /\ \A d \in Clients : tx'[d] = IF d = c THEN Idle ELSE tx[d]
  BY DEF Commit, Filed, TypeOK
<1>2. Formed(Idle) /\ \A u : Apart(Idle, u) /\ Apart(u, Idle)
  BY DEF Formed, Apart, Idle, Inserts
<1>3. ASSUME NEW d \in Clients PROVE Fits(d, tx[d])'
  <2>1. tx'[d] \in Transactions /\ Formed(tx'[d])
    BY <1>1, <1>2, IdleTyped DEF Filed, Fits
  <2>2. \A o \in Clients \ {d} : Apart(tx'[d], tx'[o])
    BY <1>1, <1>2 DEF Filed, Fits
  <2>3. GoesWithTags(tx[d])'
    <3>1. CASE d = c
      <4>1. tx'[d] = Idle
        BY <1>1, <3>1
      <4> QED
        BY <4>1 DEF GoesWithTags, Idle, Inserts
    <3>2. CASE d # c
      BY <3>2, OthersStillFit
    <3> QED
      BY <3>1, <3>2
  <2> QED
    BY <2>1, <2>2, <2>3 DEF Fits, Formed, AsksForBoth, Apart, Transactions
<1>4. merged' \in [Tags -> Tags \cup {None}]
  BY DEF TagsGoOn, Filed, TypeOK, Fits, Formed
<1>5. changes' \in Nat /\ crossed' \subseteq Promises
  BY DEF Commit, Filed, TypeOK, Risks
<1>6. TypeOK'
  BY <1>1, <1>4, <1>5, IdleTyped DEF Filed, TypeOK, Transactions
<1>7. MergedAreGone'
  BY DEF TagsGoOn, Filed, TypeOK, MergedAreGone, Fits, Formed
<1> QED
  BY <1>3, <1>6, <1>7, MergesStillEnd, PendingStillWithin DEF Filed

LEMMA CommitsOfRequests ==
  ASSUME Filed, NEW c \in Clients,
         \/ CreateCommit(c) \/ ConfirmCommit(c) \/ RenameCommit(c) \/ MoveCommit(c)
         \/ DeleteCommit(c) \/ LinkCommit(c)
  PROVE  Filed'
<1> DEFINE t == tx[c]
<1>0. /\ t \in Transactions /\ Formed(t) /\ GoesWithTags(t) /\ \A o \in Clients \ {c} : Apart(t, tx[o])
      /\ TypeOK /\ LinksLeaveMergedTags
  BY DEF Filed, Fits
<1>1. CASE CreateCommit(c)
  <2>1. t.op = "create" /\ t.rows = {t.tag} /\ t.tag \in Tags /\ state[t.tag] = "none" /\ t.name \in Keys
    BY <1>0, <1>1 DEF CreateCommit, Ready, Formed, GoesWithTags, Inserts
  <2>2. TagsGoOn(t)
    BY <1>0, <1>1, <2>1 DEF CreateCommit, TagsGoOn, TypeOK, Pending, Inserts
  <2>3. LinksLeaveMergedTags'
    BY <1>0, <1>1 DEF CreateCommit, Commit, LinksLeaveMergedTags
  <2>4. /\ state' \in [Tags -> {"none", "pending", "active", "deleted"}]
        /\ parent' \in [Tags -> Tags \cup {None}] /\ key' \in [Tags -> Keys] /\ links' \subseteq Assets \X Tags
    BY <1>0, <1>1, <2>1 DEF CreateCommit, TypeOK, Transactions
  <2> QED
    BY <1>1, <2>2, <2>3, <2>4, CommitStep DEF CreateCommit
<1>2. CASE ConfirmCommit(c)
  <2>2. TagsGoOn(t)
    BY <1>0, <1>2 DEF ConfirmCommit, Ready, TagsGoOn, TypeOK, Pending
  <2>3. LinksLeaveMergedTags'
    BY <1>0, <1>2 DEF ConfirmCommit, Commit, LinksLeaveMergedTags
  <2>4. /\ state' \in [Tags -> {"none", "pending", "active", "deleted"}]
        /\ parent' \in [Tags -> Tags \cup {None}] /\ key' \in [Tags -> Keys] /\ links' \subseteq Assets \X Tags
    BY <1>0, <1>2 DEF ConfirmCommit, TypeOK
  <2> QED
    BY <1>2, <2>2, <2>3, <2>4, CommitStep DEF ConfirmCommit
<1>3. CASE RenameCommit(c)
  <2>1. t.name \in Keys
    BY <1>0, <1>3 DEF RenameCommit, Ready, Formed
  <2>2. TagsGoOn(t)
    BY <1>0, <1>3 DEF RenameCommit, Ready, TagsGoOn, TypeOK, Pending
  <2>3. LinksLeaveMergedTags'
    BY <1>0, <1>3 DEF RenameCommit, Commit, LinksLeaveMergedTags
  <2>4. /\ state' \in [Tags -> {"none", "pending", "active", "deleted"}]
        /\ parent' \in [Tags -> Tags \cup {None}] /\ key' \in [Tags -> Keys] /\ links' \subseteq Assets \X Tags
    BY <1>0, <1>3, <2>1 DEF RenameCommit, TypeOK
  <2> QED
    BY <1>3, <2>2, <2>3, <2>4, CommitStep DEF RenameCommit
<1>4. CASE MoveCommit(c)
  <2>2. TagsGoOn(t)
    BY <1>0, <1>4 DEF MoveCommit, Ready, TagsGoOn, TypeOK, Pending
  <2>3. LinksLeaveMergedTags'
    BY <1>0, <1>4 DEF MoveCommit, Commit, LinksLeaveMergedTags
  <2>4. /\ state' \in [Tags -> {"none", "pending", "active", "deleted"}]
        /\ parent' \in [Tags -> Tags \cup {None}] /\ key' \in [Tags -> Keys] /\ links' \subseteq Assets \X Tags
    BY <1>0, <1>4 DEF MoveCommit, TypeOK, Transactions
  <2> QED
    BY <1>4, <2>2, <2>3, <2>4, CommitStep DEF MoveCommit
<1>5. CASE DeleteCommit(c)
  <2>1. t.op = "delete" /\ \A x \in t.rows : state[x] # "none"
    BY <1>0, <1>5 DEF DeleteCommit, Ready, GoesWithTags
  <2>2. TagsGoOn(t)
    BY <1>0, <1>5, <2>1 DEF DeleteCommit, TagsGoOn, TypeOK, Pending
  <2>3. LinksLeaveMergedTags'
    BY <1>0, <1>5 DEF DeleteCommit, Commit, LinksLeaveMergedTags
  <2>4. /\ state' \in [Tags -> {"none", "pending", "active", "deleted"}]
        /\ parent' \in [Tags -> Tags \cup {None}] /\ key' \in [Tags -> Keys] /\ links' \subseteq Assets \X Tags
    BY <1>0, <1>5 DEF DeleteCommit, TypeOK
  <2> QED
    BY <1>5, <2>2, <2>3, <2>4, CommitStep DEF DeleteCommit
<1>6. CASE LinkCommit(c)
  <2>1. /\ t.tag \in Tags /\ t.asset \in Assets
        /\ "links" \notin crossed => merged[t.tag] = None
    BY <1>0, <1>6 DEF LinkCommit, Ready, Formed, GoesWithTags
  <2>2. TagsGoOn(t)
    BY <1>0, <1>6 DEF LinkCommit, Ready, TagsGoOn, TypeOK, Pending
  <2>3. LinksLeaveMergedTags'
    BY <1>0, <1>6, <2>1 DEF LinkCommit, Commit, LinksLeaveMergedTags
  <2>4. /\ state' \in [Tags -> {"none", "pending", "active", "deleted"}]
        /\ parent' \in [Tags -> Tags \cup {None}] /\ key' \in [Tags -> Keys] /\ links' \subseteq Assets \X Tags
    BY <1>0, <1>6, <2>1 DEF LinkCommit, TypeOK
  <2> QED
    BY <1>6, <2>2, <2>3, <2>4, CommitStep DEF LinkCommit
<1> QED
  BY <1>1, <1>2, <1>3, <1>4, <1>5, <1>6

(* A merge takes the links along to a tag that is still there: it has it locked.                  *)
LEMMA MergeCommitStep ==
  ASSUME Filed, NEW c \in Clients, MergeCommit(c)
  PROVE  Filed'
<1> DEFINE t == tx[c]
           moved == {l \in links : l[2] = t.tag}
<1>1. /\ t.op = "merging" /\ t.tag \in Tags /\ t.other \in Tags /\ t.tag # t.other
      /\ merged[t.other] = None /\ state[t.tag] # "none" /\ TypeOK /\ LinksLeaveMergedTags
  BY DEF MergeCommit, Ready, Filed, Fits, Formed, GoesWithTags
<1>2. /\ links' = {l \in links : l[2] # t.tag} \cup {<<l[1], t.other>> : l \in moved}
      /\ parent' = [g \in Tags |-> IF g \in t.rows THEN t.other ELSE parent[g]]
      /\ merged' = [merged EXCEPT ![t.tag] = t.other]
      /\ state' = [state EXCEPT ![t.tag] = "deleted"]
      /\ key' = key /\ Commit(c) /\ crossed \subseteq crossed'
  BY DEF MergeCommit, Commit
<1>3. links \subseteq Assets \X Tags
  BY <1>1 DEF TypeOK
<1>4. \A l \in links' : \/ l \in links /\ l[2] # t.tag
                        \/ l[2] = t.other /\ l[1] \in Assets /\ l = <<l[1], l[2]>>
  BY <1>2, <1>3
<1>5. TagsGoOn(t)
  BY <1>1, <1>2 DEF TagsGoOn, TypeOK, Pending
<1> HIDE DEF t, moved
<1>6. LinksLeaveMergedTags'
  BY <1>1, <1>2, <1>3, <1>4 DEF LinksLeaveMergedTags, TypeOK
<1>7. /\ state' \in [Tags -> {"none", "pending", "active", "deleted"}]
      /\ parent' \in [Tags -> Tags \cup {None}] /\ key' \in [Tags -> Keys]
  BY <1>1, <1>2 DEF TypeOK
<1>8. links' \subseteq Assets \X Tags
  BY <1>1, <1>3, <1>4
<1> QED
  BY <1>2, <1>5, <1>6, <1>7, <1>8, CommitStep DEF t

(* A filing links its document to what it has locked, and adds the tag it has made room for.      *)
LEMMA FileCommitStep ==
  ASSUME Filed, NEW c \in Clients, FileCommit(c)
  PROVE  Filed'
<1> DEFINE t == tx[c]
<1>1. /\ t.op = "file" /\ t \in Transactions /\ Formed(t) /\ GoesWithTags(t) /\ TypeOK /\ LinksLeaveMergedTags
  BY DEF FileCommit, Ready, Filed, Fits
<1>2. /\ links' = links \cup {<<t.asset, x>> : x \in t.settled}
      /\ state' = [x \in Tags |-> IF x \in t.rows THEN "pending" ELSE state[x]]
      /\ key' = [x \in Tags |-> IF x \in t.rows THEN t.name ELSE key[x]]
      /\ parent' = [x \in Tags |-> IF x \in t.rows THEN t.other ELSE parent[x]]
      /\ merged' = merged /\ Commit(c) /\ crossed \subseteq crossed'
  BY DEF FileCommit, Commit
<1> HIDE DEF t
<1>3. /\ t.asset \in Assets /\ t.settled \subseteq Tags /\ t.other \in Tags \cup {None} /\ t.rows \subseteq Tags
      /\ t.rows # {} => t.name \in Keys
      /\ \A x \in t.rows : state[x] = "none"
      /\ \A x \in t.settled : merged[x] = None
  BY <1>1 DEF Formed, Transactions, GoesWithTags, Inserts
<1>4. TagsGoOn(t)
  BY <1>1, <1>2, <1>3 DEF TagsGoOn, TypeOK, Pending, Inserts
<1>5. LinksLeaveMergedTags'
  BY <1>1, <1>2, <1>3 DEF LinksLeaveMergedTags
<1>6. /\ state' \in [Tags -> {"none", "pending", "active", "deleted"}]
      /\ parent' \in [Tags -> Tags \cup {None}] /\ key' \in [Tags -> Keys]
  BY <1>1, <1>2, <1>3 DEF TypeOK
<1>7. links' \subseteq Assets \X Tags
  BY <1>1, <1>2, <1>3 DEF TypeOK
<1> QED
  BY <1>2, <1>4, <1>5, <1>6, <1>7, CommitStep DEF t

LEMMA InitFiled == Init => Filed
<1> SUFFICES ASSUME Init PROVE Filed
  OBVIOUS
<1> USE DEF Init
<1>1. Existing \subseteq Tags
  BY CountAssumption DEF Tags
<1>2. key \in [Tags -> Keys]
  OBVIOUS
<1>3. parent \in [Tags -> Tags \cup {None}]
  BY <1>1
<1>4. TypeOK
  BY <1>1, <1>2, <1>3, IdleTyped DEF TypeOK, None, Promises
<1>5. \A c \in Clients : Fits(c, tx[c])
  BY IdleFits
<1>6. MergesEnd
  <2>1. ASSUME NEW S \in SUBSET Tags, NEW t \in S PROVE merged[t] \notin S
    BY <2>1 DEF None, Tags
  <2> QED
    BY <2>1 DEF MergesEnd
<1>7. MergedAreGone /\ LinksLeaveMergedTags /\ PendingWithinLimit
  BY <1>1 DEF MergedAreGone, LinksLeaveMergedTags, PendingWithinLimit
<1> QED
  BY <1>4, <1>5, <1>6, <1>7 DEF Filed

LEMMA StepFiled == Filed /\ [Next]_vars => Filed'
<1> SUFFICES ASSUME Filed, [Next]_vars PROVE Filed'
  OBVIOUS
<1>1. CASE UNCHANGED vars
  <2> USE <1>1 DEF vars
  <2>1. ASSUME NEW c \in Clients PROVE Fits(c, tx[c])'
    <3>1. GoesWithTags(tx[c])'
      BY DEF Filed, Fits, GoesWithTags, Pending
    <3>2. tx'[c] \in Transactions /\ Formed(tx'[c]) /\ \A o \in Clients \ {c} : Apart(tx'[c], tx'[o])
      BY DEF Filed, Fits
    <3> QED
      BY <3>1, <3>2 DEF Fits, Formed, AsksForBoth, Apart, Transactions
  <2>2. TypeOK'
    BY DEF Filed, TypeOK, Transactions
  <2>3. MergedAreGone' /\ MergesEnd' /\ LinksLeaveMergedTags' /\ PendingWithinLimit'
    BY DEF Filed, MergedAreGone, MergesEnd, LinksLeaveMergedTags, PendingWithinLimit, Pending
  <2> QED
    BY <2>1, <2>2, <2>3 DEF Filed
<1>2. ASSUME NEW c \in Clients, Request(c) PROVE Filed'
  BY <1>2, OnTagsStep, OnDocumentsStep DEF Request
<1>3. ASSUME NEW c \in Clients, Step(c) PROVE Filed'
  BY <1>3, LockStep, SuggestStep, MergeReadStep, CommitsOfRequests, MergeCommitStep, FileCommitStep
     DEF Step
<1>4. ASSUME NEW c \in Clients, Rollback(c) PROVE Filed'
  BY <1>4, IdleFits, QuietStep DEF Rollback
<1> QED
  BY <1>1, <1>2, <1>3, <1>4 DEF Next

(* Every table and every transaction is of its type, however requests and filings run side by side. *)
THEOREM KnowledgeBasesTypeCorrect == Spec => []TypeOK
<1>1. Filed => TypeOK
  BY DEF Filed
<1> QED
  BY <1>1, InitFiled, StepFiled, PTL DEF Spec

(* Following merged_into ends from every tag: no two merges, however they overlap, close a circle, *)
(* which resolve_live_tags and the descriptions that follow merges count on.                      *)
THEOREM ChainsOfMergesEnd == Spec => []MergesEnd
<1>1. Filed => MergesEnd
  BY DEF Filed
<1> QED
  BY <1>1, InitFiled, StepFiled, PTL DEF Spec

(* Unless somebody links by hand beside a merge, no document is left on a tag that was merged away, *)
(* as the filing locks the tags it has settled on and the merge locks both of its own.             *)
THEOREM LinksFollowMerges == Spec => []LinksLeaveMergedTags
<1>1. Filed => LinksLeaveMergedTags
  BY DEF Filed
<1> QED
  BY <1>1, InitFiled, StepFiled, PTL DEF Spec

(* Filings side by side never bring the pending tags of a space above their limit.                *)
THEOREM SuggestionsStayWithinLimit == Spec => []PendingWithinLimit
<1>1. Filed => PendingWithinLimit
  BY DEF Filed
<1> QED
  BY <1>1, InitFiled, StepFiled, PTL DEF Spec

-----------------------------------------------------------------------------
(* The tree, and the order of locks. *)

ClosedUnder(D) == \A g \in LiveTags : parent[g] \in D => g \in D
LiveTree == \A S \in SUBSET LiveTags : S # {} => \E t \in S : parent[t] \notin S

(* What a transaction points at exists. *)
Aims(t) == t.other # None => state[t.other] # "none"

(* What a move or a merge has read still holds: there is a set of tags, closed under children that *)
(* are not deleted, that holds the tags it gives another parent and not that parent.              *)
Safe(t) ==
    \E D \in SUBSET Tags : t.tag \in D /\ t.rows \subseteq D /\ t.other \notin D /\ ClosedUnder(D)

Planted ==
    /\ \A x \in LiveTags : parent[x] # None => state[parent[x]] # "none"
    /\ \A c \in Clients : Aims(tx[c])
    /\ "tree" \notin crossed =>
         /\ LiveTree
         /\ \A c \in Clients : tx[c].op \in {"move", "merging"} => Safe(tx[c])

(* What a transaction holds comes before what it asks for, except in a filing that has followed a  *)
(* merge or has inserted below a tag, and in a merge that asks for the children.                  *)
Below(t) == t.want # <<>> => \A l \in t.locks, y \in Head(t.want)[1] : l[1] < y
InOrder(t) ==
    /\ t.op = "suggest" => t.locks = {} /\ t.want = <<>>
    /\ t.op = "file" /\ ~t.hopped /\ (\A l \in t.locks : l[2] # "fk") =>
         /\ \A l \in t.locks : l[2] = "key"
         /\ t.want # <<>> =>
              \/ Head(t.want)[2] = "fk" /\ t.locks = {}
              \/ Head(t.want)[2] = "key" /\ Tail(t.want) = <<>> /\ Below(t)
    /\ t.op = "merge" => Below(t)
    /\ t.op = "merging" /\ t.want # <<>> => Head(t.want)[2] = "row" /\ Tail(t.want) = <<>>

Ordered == \A c \in Clients : InOrder(tx[c])

(* What may take the place of a transaction while the tables stay as they are. *)
GoesOn(t) ==
    /\ Aims(t)
    /\ "tree" \notin crossed /\ t.op \in {"move", "merging"} => Safe(t)
    /\ InOrder(t)

LEMMA QuietTree ==
  ASSUME Filed, Planted, Ordered, NEW c \in Clients, NEW t, GoesOn(t),
         tx' = [tx EXCEPT ![c] = t],
         UNCHANGED <<state, parent, merged, key, links, changes, crossed>>
  PROVE  Planted' /\ Ordered'
<1>1. \A d \in Clients : tx'[d] = IF d = c THEN t ELSE tx[d]
  BY DEF Filed, TypeOK
<1>2. LiveTags' = LiveTags
  BY DEF LiveTags, Live
<1>3. \A d \in Clients : Aims(tx[d])'
  BY <1>1 DEF GoesOn, Planted, Aims
<1>4. ASSUME "tree" \notin crossed, NEW d \in Clients, tx'[d].op \in {"move", "merging"}
      PROVE  Safe(tx[d])'
  <2>1. CASE d = c
    <3>1. tx'[d] = t /\ Safe(t)
      BY <1>1, <1>4, <2>1 DEF GoesOn
    <3> QED
      BY <1>2, <3>1 DEF Safe, ClosedUnder
  <2>2. CASE d # c
    <3>1. tx'[d] = tx[d] /\ Safe(tx[d])
      BY <1>1, <1>4, <2>2 DEF Planted
    <3> QED
      BY <1>2, <3>1 DEF Safe, ClosedUnder
  <2> QED
    BY <2>1, <2>2
<1>5. LiveTree' = LiveTree
  BY <1>2 DEF LiveTree
<1>6. Planted'
  BY <1>2, <1>3, <1>4, <1>5 DEF Planted
<1>7. \A d \in Clients : InOrder(tx'[d])
  BY <1>1 DEF GoesOn, Ordered
<1> QED
  BY <1>6, <1>7 DEF Ordered, InOrder, Below

(* A request that begins: what it points at is there, it holds no lock and asks for one set. *)
LEMMA FreshGoesOn ==
  ASSUME NEW t, t.locks = {}, t.other = None \/ t.other \in LiveTags,
         t.op # "merging", t.op = "move" => Safe(t),
         t.op = "suggest" => t.want = <<>>,
         t.op = "file" => \E S : t.want = <<<<S, "key">>>>
  PROVE  GoesOn(t)
<1>1. Aims(t)
  BY DEF Aims, LiveTags, Live
<1>2. Below(t)
  BY DEF Below
<1>3. ASSUME t.op = "file" PROVE Head(t.want)[2] = "key" /\ Tail(t.want) = <<>>
  <2>1. PICK S : t.want = <<<<S, "key">>>>
    BY <1>3
  <2>2. Head(t.want) = <<S, "key">> /\ Tail(t.want) = <<>>
    BY <2>1, OnlyOne
  <2> QED
    BY <2>2
<1> QED
  BY <1>1, <1>2, <1>3 DEF GoesOn, InOrder

LEMMA RequestGoesOn ==
  ASSUME Filed, NEW c \in Clients, OnTags(c) \/ OnDocuments(c)
  PROVE  /\ \E t : GoesOn(t) /\ tx' = [tx EXCEPT ![c] = t]
         /\ UNCHANGED <<state, parent, merged, key, links, changes, crossed>>
<1> USE DEF Begin
<1>0. LiveTags \subseteq Tags /\ Places = LiveTags \cup {None} /\ None \notin Tags
  BY DEF LiveTags, Places, None, Tags
<1>1. ASSUME NEW n \in Unused, NEW k \in Keys, NEW p \in Places, Create(c, n, k, p)
      PROVE  \E t : GoesOn(t) /\ tx' = [tx EXCEPT ![c] = t]
  <2> DEFINE t == [Idle EXCEPT !.op = "create", !.rows = {n}, !.tag = n, !.name = k, !.other = p,
                               !.want = Reference(p)]
  <2>1. t.op = "create" /\ t.other = p /\ t.locks = {}
    BY DEF Idle
  <2> HIDE DEF t
  <2>2. GoesOn(t)
    BY <1>0, <2>1, FreshGoesOn
  <2> QED
    BY <1>1, <2>2 DEF Create, t
<1>2. ASSUME NEW s \in LiveTags, Confirm(c, s)
      PROVE  \E t : GoesOn(t) /\ tx' = [tx EXCEPT ![c] = t]
  <2> DEFINE t == [Idle EXCEPT !.op = "confirm", !.tag = s, !.want = Requests({s}, "row")]
  <2>1. t.op = "confirm" /\ t.other = None /\ t.locks = {}
    BY DEF Idle
  <2> HIDE DEF t
  <2>2. GoesOn(t)
    BY <2>1, FreshGoesOn
  <2> QED
    BY <1>2, <2>2 DEF Confirm, t
<1>3. ASSUME NEW s \in LiveTags, Delete(c, s)
      PROVE  \E t : GoesOn(t) /\ tx' = [tx EXCEPT ![c] = t]
  <2> DEFINE t == [Idle EXCEPT !.op = "delete", !.rows = Descendants(s),
                               !.want = Requests(Descendants(s), "row")]
  <2>1. t.op = "delete" /\ t.other = None /\ t.locks = {}
    BY DEF Idle
  <2> HIDE DEF t
  <2>2. GoesOn(t)
    BY <2>1, FreshGoesOn
  <2> QED
    BY <1>3, <2>2 DEF Delete, t
<1>4. ASSUME NEW s \in LiveTags, NEW k \in Keys, Rename(c, s, k)
      PROVE  \E t : GoesOn(t) /\ tx' = [tx EXCEPT ![c] = t]
  <2> DEFINE t == [Idle EXCEPT !.op = "rename", !.tag = s, !.name = k, !.want = Requests({s}, "all")]
  <2>1. t.op = "rename" /\ t.other = None /\ t.locks = {}
    BY DEF Idle
  <2> HIDE DEF t
  <2>2. GoesOn(t)
    BY <2>1, FreshGoesOn
  <2> QED
    BY <1>4, <2>2 DEF Rename, t
<1>5. ASSUME NEW s \in LiveTags, NEW p \in Places, Move(c, s, p)
      PROVE  \E t : GoesOn(t) /\ tx' = [tx EXCEPT ![c] = t]
  <2> DEFINE t == [Idle EXCEPT !.op = "move", !.tag = s, !.other = p,
                               !.want = Requests({s}, "row") \o Reference(p)]
  <2>1. t.op = "move" /\ t.tag = s /\ t.other = p /\ t.locks = {} /\ t.rows = {}
    BY DEF Idle
  <2> HIDE DEF t
  <2>2. \E D \in SUBSET Tags : s \in D /\ p \notin D /\ ClosedUnder(D)
    <3>1. CASE p = None
      BY <1>0, <3>1 DEF ClosedUnder
    <3>2. CASE p # None
      <4>1. p \in Tags /\ p \notin Descendants(s)
        BY <1>0, <1>5, <3>2 DEF Move
      <4> QED
        BY <1>0, <4>1 DEF Descendants, ClosedUnder
    <3> QED
      BY <3>1, <3>2
  <2>3. Safe(t)
    BY <2>1, <2>2 DEF Safe
  <2>4. GoesOn(t)
    BY <1>0, <2>1, <2>3, FreshGoesOn
  <2> QED
    BY <1>5, <2>4 DEF Move, t
<1>6. ASSUME NEW s \in LiveTags, NEW u \in LiveTags, Merge(c, s, u)
      PROVE  \E t : GoesOn(t) /\ tx' = [tx EXCEPT ![c] = t]
  <2> DEFINE t == [Idle EXCEPT !.op = "merge", !.tag = s, !.other = u,
                               !.want = Requests({s, u}, "all")]
  <2>1. t.op = "merge" /\ t.other = u /\ t.locks = {}
    BY DEF Idle
  <2> HIDE DEF t
  <2>2. GoesOn(t)
    BY <2>1, FreshGoesOn
  <2> QED
    BY <1>6, <2>2 DEF Merge, t
<1>7. ASSUME NEW a \in Assets, NEW s \in LiveTags, Link(c, a, s)
      PROVE  \E t : GoesOn(t) /\ tx' = [tx EXCEPT ![c] = t]
  <2> DEFINE t == [Idle EXCEPT !.op = "link", !.tag = s, !.asset = a, !.want = Reference(s)]
  <2>1. t.op = "link" /\ t.other = None /\ t.locks = {}
    BY DEF Idle
  <2> HIDE DEF t
  <2>2. GoesOn(t)
    BY <2>1, FreshGoesOn
  <2> QED
    BY <1>7, <2>2 DEF Link, t
<1>8. ASSUME NEW a \in Assets, NEW S \in SUBSET LiveTags, File(c, a, S)
      PROVE  \E t : GoesOn(t) /\ tx' = [tx EXCEPT ![c] = t]
  <2> DEFINE t == [Idle EXCEPT !.op = "file", !.asset = a, !.want = Requests(S, "key")]
  <2>1. t.op = "file" /\ t.other = None /\ t.locks = {} /\ t.want = Requests(S, "key")
    BY DEF Idle
  <2>2. t.want = <<<<S, "key">>>>
    BY <1>8, <2>1 DEF File, Requests
  <2> HIDE DEF t
  <2>3. GoesOn(t)
    BY <2>1, <2>2, FreshGoesOn
  <2> QED
    BY <1>8, <2>3 DEF File, t
<1>9. ASSUME NEW a \in Assets, NEW S \in SUBSET LiveTags, NEW k \in Keys, NEW p \in Places,
             FileSuggesting(c, a, S, k, p)
      PROVE  \E t : GoesOn(t) /\ tx' = [tx EXCEPT ![c] = t]
  <2> DEFINE t == [Idle EXCEPT !.op = "suggest", !.asset = a, !.next = S, !.name = k, !.other = p]
  <2>1. t.op = "suggest" /\ t.other = p /\ t.locks = {} /\ t.want = <<>>
    BY DEF Idle
  <2> HIDE DEF t
  <2>2. GoesOn(t)
    BY <1>0, <2>1, FreshGoesOn
  <2> QED
    BY <1>9, <2>2 DEF FileSuggesting, t
<1>10. \E t : GoesOn(t) /\ tx' = [tx EXCEPT ![c] = t]
  BY <1>1, <1>2, <1>3, <1>4, <1>5, <1>6, <1>7, <1>8, <1>9 DEF OnTags, OnDocuments
<1>11. UNCHANGED <<state, parent, merged, key, links, changes, crossed>>
  BY DEF OnTags, OnDocuments, Create, Confirm, Delete, Rename, Move, Merge, Link, File, FileSuggesting
<1> QED
  BY <1>10, <1>11

(* A lock that is granted is the first of those asked for: what is held stays before what is left. *)
LEMMA LockGoesOn ==
  ASSUME Filed, Planted, Ordered, NEW c \in Clients, Lock(c)
  PROVE  Planted' /\ Ordered'
<1> DEFINE old == tx[c]
<1>1. old \in Transactions /\ old.want # <<>> /\ old.want \in Demands /\ InOrder(old) /\ Formed(old)
  BY LockIs DEF Filed, Fits, Ordered
<1>2. PICK among \in SUBSET Tags, mode \in Modes, x \in Tags, u \in Transactions :
        Granting(c, among, mode, x, u)
  BY LockIs
<1> DEFINE left == among \ {x}
<1>3. /\ u.op = old.op /\ u.tag = old.tag /\ u.other = old.other /\ u.rows = old.rows
      /\ u.locks = old.locks \cup {<<x, mode>>}
      /\ Head(old.want) = <<among, mode>> /\ x \in among /\ \A y \in left : x <= y
      /\ (mode = "key" /\ u.hopped) \/ (u.want = Rest(old, x) /\ u.hopped = old.hopped)
  BY <1>2 DEF Granting
<1>4. Aims(u) /\ ("tree" \notin crossed /\ u.op \in {"move", "merging"} => Safe(u))
  BY <1>3 DEF Planted, Aims, Safe
<1>5. ASSUME Tail(old.want) = <<>>, u.want = Rest(old, x)
      PROVE  u.want # <<>> => /\ Tail(u.want) = <<>> /\ Head(u.want) = <<left, mode>>
                              /\ Below(old) => Below(u)
  <2>1. u.want = Requests(left, mode)
    <3>1. Requests(left, mode) \in Seq((SUBSET Tags) \X Modes)
      BY RequestsTyped
    <3>2. u.want = Requests(left, mode) \o <<>>
      <4>1. Head(old.want)[1] \ {x} = left /\ Head(old.want)[2] = mode
        BY <1>3
      <4> QED
        BY <1>5, <4>1 DEF Rest
    <3> QED
      BY <3>1, <3>2, NothingAfter
  <2>2. u.want = IF left = {} THEN <<>> ELSE <<<<left, mode>>>>
    BY <2>1 DEF Requests
  <2>3. u.want # <<>> => Tail(u.want) = <<>> /\ Head(u.want) = <<left, mode>>
    BY <2>2, OnlyOne
  <2>4. ASSUME u.want # <<>>, Below(old) PROVE Below(u)
    <3>1. Head(u.want)[1] = left /\ Head(old.want)[1] = among
      BY <1>3, <2>3, <2>4
    <3>2. ASSUME NEW l \in u.locks, NEW y \in left PROVE l[1] < y
      <4>1. CASE l \in old.locks
        BY <1>1, <2>4, <3>1, <3>2, <4>1 DEF Below
      <4>2. CASE l = <<x, mode>>
        <5>1. x <= y /\ y # x /\ x \in Int /\ y \in Int
          BY <1>3, <3>2 DEF Tags
        <5> QED
          BY <4>2, <5>1
      <4> QED
        BY <1>3, <3>2, <4>1, <4>2
    <3> HIDE DEF left
    <3> QED
      BY <3>1, <3>2 DEF Below
  <2> QED
    BY <2>3, <2>4
<1> HIDE DEF old, left
<1>6. InOrder(u)
  <2>1. CASE old.op = "suggest"
    BY <1>1, <2>1 DEF InOrder
  <2>2. CASE old.op = "file"
    <3>1. SUFFICES ASSUME ~u.hopped, \A l \in u.locks : l[2] # "fk"
                   PROVE  /\ \A l \in u.locks : l[2] = "key"
                          /\ u.want # <<>> =>
                               \/ Head(u.want)[2] = "fk" /\ u.locks = {}
                               \/ Head(u.want)[2] = "key" /\ Tail(u.want) = <<>> /\ Below(u)
      BY <1>3, <2>2 DEF InOrder
    <3>2. ~old.hopped /\ u.want = Rest(old, x) /\ mode # "fk" /\ \A l \in old.locks : l[2] # "fk"
      <4>1. u.want = Rest(old, x) /\ u.hopped = old.hopped
        BY <1>3, <3>1
      <4>2. ~old.hopped
        BY <3>1, <4>1, Zenon
      <4>3. <<x, mode>> \in u.locks /\ old.locks \subseteq u.locks
        BY <1>3
      <4>4. <<x, mode>>[2] # "fk" /\ \A l \in old.locks : l[2] # "fk"
        BY <3>1, <4>3
      <4> QED
        BY <4>1, <4>2, <4>4
    <3>3. Head(old.want)[2] = mode
      BY <1>3
    <3>4. /\ \A l \in old.locks : l[2] = "key"
          /\ mode = "key" /\ Tail(old.want) = <<>> /\ Below(old)
      BY <1>1, <2>2, <3>2, <3>3 DEF InOrder
    <3>5. u.want # <<>> => Tail(u.want) = <<>> /\ Head(u.want)[2] = mode /\ Below(u)
      BY <1>5, <3>2, <3>4
    <3> QED
      BY <1>3, <3>4, <3>5
  <2>3. CASE old.op = "merge"
    <3>1. Tail(old.want) = <<>> /\ Head(old.want)[2] = "all" /\ Below(old)
      BY <1>1, <2>3 DEF Formed, InOrder
    <3>2. u.want = Rest(old, x)
      <4>1. mode = Head(old.want)[2]
        BY <1>3
      <4>2. mode # "key"
        BY <3>1, <4>1
      <4> QED
        BY <1>3, <4>2
    <3>3. Below(u)
      BY <1>5, <3>1, <3>2 DEF Below
    <3> QED
      BY <1>3, <2>3, <3>3 DEF InOrder
  <2>4. CASE old.op = "merging"
    <3>1. Tail(old.want) = <<>> /\ Head(old.want)[2] = "row"
      BY <1>1, <2>4 DEF InOrder
    <3>2. u.want = Rest(old, x) /\ mode = "row"
      <4>1. mode = Head(old.want)[2]
        BY <1>3
      <4>2. mode = "row"
        BY <3>1, <4>1
      <4> QED
        BY <1>3, <4>2
    <3>3. u.want # <<>> => Tail(u.want) = <<>> /\ Head(u.want)[2] = "row"
      BY <1>5, <3>1, <3>2
    <3> QED
      BY <1>3, <2>4, <3>3 DEF InOrder
  <2> QED
    BY <1>3, <2>1, <2>2, <2>3, <2>4 DEF InOrder
<1> QED
  BY <1>2, <1>4, <1>6, QuietTree DEF GoesOn, Granting, Lock

LEMMA MergeReadGoesOn ==
  ASSUME Filed, Planted, Ordered, NEW c \in Clients, MergeRead(c)
  PROVE  Planted' /\ Ordered'
<1> DEFINE old == tx[c]
           children == {g \in LiveTags : parent[g] = old.tag}
           asked == Requests(children, "row")
           t == [old EXCEPT !.op = "merging", !.rows = children, !.want = asked]
<1>1. old \in Transactions /\ Formed(old) /\ Aims(old) /\ old.op = "merge"
  BY DEF MergeRead, Ready, Filed, Fits, Planted
<1>2. /\ old.tag \in Tags /\ old.other \in Tags /\ old.other \notin Descendants(old.tag)
      /\ children \subseteq LiveTags /\ LiveTags \subseteq Tags
  BY <1>1 DEF MergeRead, Formed, LiveTags
<1>3. PICK D \in SUBSET Tags : old.tag \in D /\ old.other \notin D /\ ClosedUnder(D)
  BY <1>2 DEF Descendants, ClosedUnder
<1>4. children \subseteq D
  BY <1>3 DEF ClosedUnder
<1>5. tx' = [tx EXCEPT ![c] = t]
  BY DEF MergeRead, Merging, Filed, TypeOK
<1>6. asked # <<>> => Head(asked)[2] = "row" /\ Tail(asked) = <<>>
  <2>1. asked # <<>> => asked = <<<<children, "row">>>>
    BY DEF Requests
  <2> HIDE DEF asked, children
  <2>2. asked # <<>> => Head(asked) = <<children, "row">> /\ Tail(asked) = <<>>
    BY <2>1, OnlyOne
  <2> QED
    BY <2>2
<1> HIDE DEF children, asked, old
<1>7. t.op = "merging" /\ t.tag = old.tag /\ t.other = old.other /\ t.rows = children /\ t.want = asked
  BY <1>1 DEF Transactions
<1> HIDE DEF t
<1>8. Aims(t) /\ Safe(t) /\ InOrder(t)
  BY <1>1, <1>3, <1>4, <1>6, <1>7 DEF Aims, Safe, InOrder
<1> QED
  BY <1>5, <1>8, QuietTree DEF GoesOn, MergeRead

LEMMA ReferenceIs ==
  ASSUME NEW p \in Tags \cup {None}, NEW S \in SUBSET Tags
  PROVE  LET w == Reference(p) \o Requests(S, "key")
         IN  w # <<>> => Head(w)[2] = "fk" \/ (Head(w)[2] = "key" /\ Tail(w) = <<>>)
<1> DEFINE w == Reference(p) \o Requests(S, "key")
           G == (SUBSET Tags) \X Modes
<1>1. Requests(S, "key") \in Seq(G)
  BY RequestsTyped DEF Modes
<1>2. CASE p = None
  <2>1. w = Requests(S, "key")
    <3> HIDE DEF G
    <3> QED
      BY <1>1, <1>2 DEF Reference
  <2>2. w # <<>> => w = <<<<S, "key">>>>
    BY <2>1 DEF Requests
  <2> HIDE DEF w
  <2>3. w # <<>> => Head(w) = <<S, "key">> /\ Tail(w) = <<>>
    BY <2>2, OnlyOne
  <2> QED
    BY <2>3 DEF w
<1>3. CASE p # None
  <2> DEFINE e == <<{p}, "fk">>
  <2>1. w = <<e>> \o Requests(S, "key") /\ e \in G
    BY <1>3 DEF Reference, Modes
  <2> HIDE DEF G, e
  <2>2. Head(w) = e
    BY <1>1, <2>1
  <2>3. e[2] = "fk"
    BY DEF e
  <2> QED
    BY <2>2, <2>3
<1> QED
  BY <1>2, <1>3

LEMMA SuggestGoesOn ==
  ASSUME Filed, Planted, Ordered, NEW c \in Clients, Suggest(c)
  PROVE  Planted' /\ Ordered'
<1> DEFINE old == tx[c]
<1>1. /\ old \in Transactions /\ old.op = "suggest" /\ old.locks = {} /\ Aims(old)
      /\ old.next \subseteq Tags /\ old.other \in Tags \cup {None}
  BY DEF Suggest, Filed, Fits, Transactions, Planted, Ordered, InOrder
<1>2. ASSUME NEW S \in SUBSET Tags, NEW q \in Tags \cup {None}, NEW first, NEW t,
             first = <<>> \/ first = Reference(q),
             t.op = "file", t.other = old.other, t.locks = {}, t.want = first \o Requests(S, "key")
      PROVE  GoesOn(t)
  <2>1. Aims(t)
    BY <1>1, <1>2 DEF Aims
  <2>2. t.want # <<>> => Head(t.want)[2] = "fk" \/ (Head(t.want)[2] = "key" /\ Tail(t.want) = <<>>)
    <3>1. CASE first = Reference(q)
      BY <1>2, <3>1, ReferenceIs
    <3>2. CASE first = <<>>
      <4>1. first = Reference(None)
        BY <3>2 DEF Reference
      <4> QED
        BY <1>2, <4>1, ReferenceIs
    <3> QED
      BY <1>2, <3>1, <3>2
  <2>3. InOrder(t)
    BY <1>2, <2>2 DEF InOrder, Below
  <2> QED
    BY <1>2, <2>1, <2>3 DEF GoesOn
<1>3. ASSUME NEW S, NEW first
      PROVE  /\ Filing(c, S, first).op = "file" /\ Filing(c, S, first).other = old.other
             /\ Filing(c, S, first).locks = {}
             /\ Filing(c, S, first).want = first \o Requests(S, "key")
             /\ DOMAIN Filing(c, S, first) = DOMAIN old
  <2> DEFINE asked == first \o Requests(S, "key")
  <2>1. Filing(c, S, first) = [old EXCEPT !.op = "file", !.next = {}, !.want = asked]
    BY DEF Filing
  <2> HIDE DEF asked, old
  <2>2. /\ Filing(c, S, first).op = "file" /\ Filing(c, S, first).other = old.other
        /\ Filing(c, S, first).locks = {} /\ Filing(c, S, first).want = asked
        /\ DOMAIN Filing(c, S, first) = DOMAIN old
    BY <1>1, <2>1 DEF Transactions
  <2> QED
    BY <2>2 DEF asked
<1>4. CASE SuggestFound(c)
  <2>1. PICK x \in Tags : tx' = [tx EXCEPT ![c] = Filing(c, old.next \cup {x}, <<>>)]
    BY <1>4 DEF SuggestFound
  <2> DEFINE S == old.next \cup {x}
             t == Filing(c, S, <<>>)
  <2>2. S \in SUBSET Tags
    BY <1>1
  <2> HIDE DEF S, old
  <2>3. t.op = "file" /\ t.other = old.other /\ t.locks = {} /\ t.want = <<>> \o Requests(S, "key")
    BY <1>3
  <2> HIDE DEF t
  <2>4. GoesOn(t)
    BY <1>1, <1>2, <2>2, <2>3
  <2> QED
    BY <2>1, <2>4, QuietTree DEF Suggest, S, t, old
<1>5. CASE SuggestNothing(c)
  <2> DEFINE t == Filing(c, old.next, <<>>)
  <2>1. tx' = [tx EXCEPT ![c] = t]
    BY <1>5 DEF SuggestNothing
  <2> HIDE DEF old
  <2>2. /\ t.op = "file" /\ t.other = old.other /\ t.locks = {}
        /\ t.want = <<>> \o Requests(old.next, "key")
    BY <1>3
  <2> HIDE DEF t
  <2>3. GoesOn(t)
    BY <1>1, <1>2, <2>2
  <2> QED
    BY <2>1, <2>3, QuietTree DEF Suggest
<1>6. CASE SuggestInsert(c)
  <2> DEFINE at == Filing(c, old.next, Reference(old.other))
             T(n) == [at EXCEPT !.tag = n, !.rows = {n}, !.settled = {n}]
  <2>1. PICK n \in Unused : tx' = [tx EXCEPT ![c] = T(n)]
    BY <1>6 DEF SuggestInsert
  <2> DEFINE t == T(n)
  <2> HIDE DEF old
  <2>2. /\ at.op = "file" /\ at.other = old.other /\ at.locks = {}
        /\ at.want = Reference(old.other) \o Requests(old.next, "key")
        /\ DOMAIN at = DOMAIN old
    BY <1>3
  <2> HIDE DEF at
  <2>3. t.op = at.op /\ t.other = at.other /\ t.locks = at.locks /\ t.want = at.want
    BY <1>1, <2>2 DEF Transactions
  <2> HIDE DEF t
  <2>4. GoesOn(t)
    BY <1>1, <1>2, <2>2, <2>3
  <2> QED
    BY <2>1, <2>4, QuietTree DEF Suggest, t
<1> QED
  BY <1>4, <1>5, <1>6 DEF Suggest

LEMMA RollbackGoesOn ==
  ASSUME Filed, Planted, Ordered, NEW c \in Clients, Rollback(c)
  PROVE  Planted' /\ Ordered'
<1>1. Idle.op = "idle" /\ Idle.other = None /\ Idle.locks = {}
  BY DEF Idle
<1>2. GoesOn(Idle)
  BY <1>1, FreshGoesOn
<1> QED
  BY <1>2, QuietTree DEF Rollback

(* The row a commit inserts, with the parent its transaction points at. *)
Born(t) == IF t.op \in {"create", "file"} THEN t.rows ELSE {}
Grows(t) ==
    /\ t.op \notin {"move", "merging"}
    /\ LiveTags' \subseteq LiveTags \cup Born(t)
    /\ \A x \in Tags : parent'[x] = IF x \in Born(t) THEN t.other ELSE parent[x]
    /\ \A x \in Tags : state[x] # "none" => state'[x] # "none"

LEMMA CommitIs ==
  ASSUME Filed, Planted, Ordered, NEW c \in Clients, Commit(c),
         \A x \in Tags : state[x] # "none" => state'[x] # "none"
  PROVE  /\ crossed \subseteq crossed'
         /\ \A o \in Clients : tx'[o] = IF o = c THEN Idle ELSE tx[o]
         /\ Ordered'
         /\ \A o \in Clients : Aims(tx[o])'
         /\ \A o \in Clients \ {c} : /\ tx[c].op \in {"move", "merging"}
                                     /\ tx[o].op \in {"move", "merging"}
                                     => "tree" \in crossed'
<1>1. \A o \in Clients : tx'[o] = IF o = c THEN Idle ELSE tx[o]
  BY DEF Commit, Filed, TypeOK
<1>2. Idle.op = "idle" /\ Idle.other = None /\ Idle.locks = {} /\ InOrder(Idle)
  BY FreshGoesOn DEF Idle, GoesOn
<1>3. \A o \in Clients : InOrder(tx'[o])
  BY <1>1, <1>2 DEF Ordered
<1>4. Ordered'
  BY <1>3 DEF Ordered, InOrder, Below
<1>5. ASSUME NEW o \in Clients PROVE Aims(tx[o])'
  <2>1. Aims(tx[o]) /\ tx[o].other \in Tags \cup {None}
    BY DEF Planted, Filed, Fits, Transactions
  <2> QED
    BY <1>1, <1>2, <2>1 DEF Aims
<1>6. ASSUME NEW o \in Clients \ {c}, tx[c].op \in {"move", "merging"}, tx[o].op \in {"move", "merging"}
      PROVE  "tree" \in crossed'
  <2>1. "tree" \in Risks(tx[c].op, tx[o].op)
    BY <1>6 DEF Risks, Promises
  <2>2. Risks(tx[c].op, tx[o].op) \subseteq crossed'
    BY DEF Commit
  <2> QED
    BY <2>1, <2>2
<1>7. crossed \subseteq crossed'
  BY DEF Commit
<1> QED
  BY <1>1, <1>4, <1>5, <1>6, <1>7

(* A tag that is inserted has no children yet, and its parent is there.                           *)
LEMMA GrowsTree ==
  ASSUME Filed, Planted, Ordered, NEW c \in Clients, Commit(c), Grows(tx[c])
  PROVE  Planted' /\ Ordered'
<1> DEFINE t == tx[c]
<1>1. /\ crossed \subseteq crossed' /\ Ordered' /\ \A o \in Clients : Aims(tx[o])'
      /\ \A o \in Clients : tx'[o] = IF o = c THEN Idle ELSE tx[o]
  BY CommitIs DEF Grows
<1>2. /\ t.other \in Tags \cup {None} /\ Aims(t) /\ None \notin Tags /\ LiveTags \subseteq Tags
      /\ \A x \in Tags : parent[x] \in Tags \cup {None}
  BY DEF Filed, TypeOK, Fits, Transactions, Planted, None, Tags, LiveTags
<1>3. Born(t) \subseteq Tags /\ \A x \in Born(t) : state[x] = "none"
  BY DEF Born, Filed, Fits, Transactions, GoesWithTags, Inserts
<1>4. /\ LiveTags' \subseteq LiveTags \cup Born(t)
      /\ \A x \in Tags : parent'[x] = IF x \in Born(t) THEN t.other ELSE parent[x]
      /\ \A x \in Tags : state[x] # "none" => state'[x] # "none"
  BY DEF Grows
<1>5. /\ \A x \in LiveTags : parent[x] # None => state[parent[x]] # "none"
      /\ \A x \in LiveTags : x \notin Born(t)
  BY <1>3 DEF Planted, LiveTags, Live
<1>6. /\ t.other \notin Born(t)
      /\ \A x \in LiveTags : parent[x] \notin Born(t)
  BY <1>2, <1>3, <1>5 DEF Aims
<1> HIDE DEF t
<1>7. \A x \in LiveTags' : parent'[x] # None => state'[parent'[x]] # "none"
  <2>1. TAKE x \in LiveTags'
  <2>2. CASE x \in Born(t)
    <3>1. parent'[x] = t.other
      BY <1>3, <1>4, <2>2
    <3> QED
      BY <1>2, <1>4, <3>1 DEF Aims
  <2>3. CASE x \notin Born(t)
    <3>1. x \in LiveTags /\ parent'[x] = parent[x]
      BY <1>2, <1>4, <2>3
    <3> QED
      BY <1>2, <1>4, <1>5, <3>1
  <2> QED
    BY <2>2, <2>3
<1>8. ASSUME LiveTree PROVE LiveTree'
  <2> SUFFICES ASSUME NEW S \in SUBSET LiveTags', S # {} PROVE \E x \in S : parent'[x] \notin S
    BY DEF LiveTree
  <2>1. CASE S \cap Born(t) = {}
    <3>1. S \in SUBSET LiveTags
      BY <1>4, <2>1
    <3> QED
      BY <1>2, <1>4, <1>8, <2>1, <3>1 DEF LiveTree
  <2>2. CASE S \subseteq Born(t)
    BY <1>3, <1>4, <1>6, <2>2
  <2>3. CASE S \ Born(t) # {}
    <3>1. S \ Born(t) \in SUBSET LiveTags
      BY <1>4
    <3>2. PICK x \in S \ Born(t) : parent[x] \notin S \ Born(t)
      BY <1>8, <2>3, <3>1 DEF LiveTree
    <3> QED
      BY <1>2, <1>4, <1>6, <3>1, <3>2
  <2> QED
    BY <2>2, <2>3
<1>9. ASSUME "tree" \notin crossed, NEW o \in Clients, tx'[o].op \in {"move", "merging"}
      PROVE  Safe(tx[o])'
  <2>1. o # c /\ tx'[o] = tx[o]
    BY <1>1, <1>9 DEF Idle
  <2>2. PICK D \in SUBSET Tags :
          tx[o].tag \in D /\ tx[o].rows \subseteq D /\ tx[o].other \notin D /\ ClosedUnder(D)
    BY <1>9, <2>1 DEF Planted, Safe
  <2> DEFINE E == IF t.other \in D THEN D \cup Born(t) ELSE D
  <2>3. E \in SUBSET Tags /\ D \subseteq E
    BY <1>3
  <2>4. tx[o].other \notin Born(t)
    BY <1>2, <1>3 DEF Planted, Aims
  <2>5. tx[o].other \notin E
    BY <2>2, <2>4
  <2>6. \A g \in LiveTags' : parent'[g] \in E => g \in E
    <3>1. TAKE g \in LiveTags'
    <3>2. CASE g \in Born(t)
      <4>1. parent'[g] = t.other
        BY <1>3, <1>4, <3>2
      <4> QED
        BY <1>6, <3>2, <4>1
    <3>3. CASE g \notin Born(t)
      <4>1. g \in LiveTags /\ parent'[g] = parent[g] /\ parent[g] \notin Born(t)
        BY <1>2, <1>4, <1>6, <3>3
      <4> QED
        BY <2>2, <4>1 DEF ClosedUnder
    <3> QED
      BY <3>2, <3>3
  <2> HIDE DEF E
  <2>7. tx'[o].tag \in E /\ tx'[o].rows \subseteq E /\ tx'[o].other \notin E
    BY <2>1, <2>2, <2>3, <2>5
  <2> QED
    BY <2>3, <2>6, <2>7 DEF Safe, ClosedUnder
<1>10. Planted'
  BY <1>1, <1>7, <1>8, <1>9 DEF Planted
<1> QED
  BY <1>1, <1>10

(* A commit that gives the tags of a safe transaction its parent, with no other such at work.     *)
LEMMA MovesTree ==
  ASSUME Filed, Planted, Ordered, NEW c \in Clients, Commit(c),
         tx[c].op \in {"move", "merging"},
         NEW M \in SUBSET Tags, M \subseteq {tx[c].tag} \cup tx[c].rows,
         LiveTags' \subseteq LiveTags,
         \A x \in Tags : parent'[x] = IF x \in M THEN tx[c].other ELSE parent[x],
         \A x \in Tags : state[x] # "none" => state'[x] # "none"
  PROVE  Planted' /\ Ordered'
<1> DEFINE t == tx[c]
<1>1. /\ crossed \subseteq crossed' /\ Ordered' /\ \A o \in Clients : Aims(tx[o])'
      /\ \A o \in Clients : tx'[o] = IF o = c THEN Idle ELSE tx[o]
      /\ \A o \in Clients \ {c} : tx[o].op \in {"move", "merging"} => "tree" \in crossed'
  BY CommitIs
<1>2. /\ t.other \in Tags \cup {None} /\ Aims(t) /\ LiveTags \subseteq Tags
      /\ \A x \in Tags : parent[x] \in Tags \cup {None}
      /\ \A x \in LiveTags : parent[x] # None => state[parent[x]] # "none"
  BY DEF Filed, TypeOK, Fits, Transactions, Planted, LiveTags
<1>3. \A x \in LiveTags' : parent'[x] # None => state'[parent'[x]] # "none"
  BY <1>2 DEF Aims
<1>4. ASSUME "tree" \notin crossed PROVE LiveTree'
  <2> SUFFICES ASSUME NEW S \in SUBSET LiveTags', S # {} PROVE \E x \in S : parent'[x] \notin S
    BY DEF LiveTree
  <2>1. S \in SUBSET LiveTags /\ LiveTree
    BY <1>4 DEF Planted
  <2>2. PICK D \in SUBSET Tags : t.tag \in D /\ t.rows \subseteq D /\ t.other \notin D /\ ClosedUnder(D)
    BY <1>4 DEF Planted, Safe
  <2>3. M \subseteq D
    BY <2>2
  <2> HIDE DEF t
  <2>4. CASE S \cap M = {}
    <3>1. PICK x \in S : parent[x] \notin S
      BY <2>1 DEF LiveTree
    <3> QED
      BY <1>2, <2>1, <2>4, <3>1
  <2>5. CASE t.other \notin S /\ S \cap M # {}
    <3>1. PICK x \in S : x \in M
      BY <2>5
    <3>2. parent'[x] = t.other
      BY <3>1 DEF t
    <3> QED
      BY <2>5, <3>2
  <2>6. CASE t.other \in S
    <3>1. S \ D # {} /\ S \ D \in SUBSET LiveTags
      BY <2>1, <2>2, <2>6
    <3>2. PICK x \in S \ D : parent[x] \notin S \ D
      BY <2>1, <3>1 DEF LiveTree
    <3>3. parent[x] \notin D /\ parent'[x] = parent[x]
      BY <1>2, <2>2, <2>3, <3>1, <3>2 DEF ClosedUnder
    <3> QED
      BY <3>2, <3>3
  <2> QED
    BY <2>4, <2>5, <2>6
<1>5. ASSUME "tree" \notin crossed', NEW o \in Clients, tx'[o].op \in {"move", "merging"}
      PROVE  FALSE
  BY <1>1, <1>5 DEF Idle
<1>6. Planted'
  BY <1>1, <1>3, <1>4, <1>5 DEF Planted
<1> QED
  BY <1>1, <1>6

LEMMA CommitsGoOn ==
  ASSUME Filed, Planted, Ordered, NEW c \in Clients,
         \/ CreateCommit(c) \/ ConfirmCommit(c) \/ RenameCommit(c) \/ MoveCommit(c)
         \/ DeleteCommit(c) \/ MergeCommit(c) \/ LinkCommit(c) \/ FileCommit(c)
  PROVE  Planted' /\ Ordered'
<1> DEFINE t == tx[c]
<1>1. /\ TypeOK /\ t \in Transactions /\ Formed(t) /\ GoesWithTags(t)
      /\ LiveTags \subseteq Tags
  BY DEF Filed, Fits, LiveTags
<1>2. CASE CreateCommit(c)
  <2>1. t.op = "create" /\ t.rows = {t.tag} /\ t.tag \in Tags /\ Born(t) = {t.tag}
    BY <1>1, <1>2 DEF CreateCommit, Ready, Formed, Born
  <2>2. Grows(t)
    BY <1>1, <1>2, <2>1 DEF CreateCommit, Grows, TypeOK, LiveTags, Live
  <2> QED
    BY <1>2, <2>2, GrowsTree DEF CreateCommit
<1>3. CASE ConfirmCommit(c)
  <2>1. t.op = "confirm" /\ Born(t) = {}
    BY <1>3 DEF ConfirmCommit, Ready, Born
  <2>2. Grows(t)
    BY <1>1, <1>3, <2>1 DEF ConfirmCommit, Grows, TypeOK, LiveTags, Live
  <2> QED
    BY <1>3, <2>2, GrowsTree DEF ConfirmCommit
<1>4. CASE RenameCommit(c)
  <2>1. t.op = "rename" /\ Born(t) = {}
    BY <1>4 DEF RenameCommit, Ready, Born
  <2>2. Grows(t)
    BY <1>1, <1>4, <2>1 DEF RenameCommit, Grows, TypeOK, LiveTags, Live
  <2> QED
    BY <1>4, <2>2, GrowsTree DEF RenameCommit
<1>5. CASE MoveCommit(c)
  <2>1. t.op = "move" /\ t.tag \in Tags \cup {None}
    BY <1>1, <1>5 DEF MoveCommit, Ready, Transactions
  <2>2. /\ LiveTags' \subseteq LiveTags
        /\ \A x \in Tags : parent'[x] = IF x \in {t.tag} \cap Tags THEN t.other ELSE parent[x]
        /\ \A x \in Tags : state[x] # "none" => state'[x] # "none"
    BY <1>1, <1>5, <2>1 DEF MoveCommit, TypeOK, LiveTags, Live
  <2> DEFINE M == {t.tag} \cap Tags
  <2>3. M \in SUBSET Tags /\ M \subseteq {t.tag} \cup t.rows
    OBVIOUS
  <2>4. Commit(c)
    BY <1>5 DEF MoveCommit
  <2>5. \A x \in Tags : parent'[x] = IF x \in M THEN t.other ELSE parent[x]
    BY <2>2
  <2> HIDE DEF M
  <2> QED
    BY <2>1, <2>2, <2>3, <2>4, <2>5, MovesTree
<1>6. CASE DeleteCommit(c)
  <2>1. t.op = "delete" /\ Born(t) = {}
    BY <1>6 DEF DeleteCommit, Ready, Born
  <2>2. Grows(t)
    BY <1>1, <1>6, <2>1 DEF DeleteCommit, Grows, TypeOK, LiveTags, Live
  <2> QED
    BY <1>6, <2>2, GrowsTree DEF DeleteCommit
<1>7. CASE MergeCommit(c)
  <2>1. t.op = "merging" /\ t.tag \in Tags /\ t.rows \subseteq Tags
    BY <1>1, <1>7 DEF MergeCommit, Ready, Formed, Transactions
  <2>2. /\ LiveTags' \subseteq LiveTags
        /\ \A x \in Tags : parent'[x] = IF x \in t.rows THEN t.other ELSE parent[x]
        /\ \A x \in Tags : state[x] # "none" => state'[x] # "none"
    BY <1>1, <1>7, <2>1 DEF MergeCommit, TypeOK, LiveTags, Live
  <2>3. Commit(c) /\ t.rows \subseteq {t.tag} \cup t.rows
    BY <1>7 DEF MergeCommit
  <2> QED
    BY <2>1, <2>2, <2>3, MovesTree
<1>8. CASE LinkCommit(c)
  <2>1. t.op = "link" /\ Born(t) = {}
    BY <1>8 DEF LinkCommit, Ready, Born
  <2>2. Grows(t)
    BY <1>1, <1>8, <2>1 DEF LinkCommit, Grows, TypeOK, LiveTags, Live
  <2> QED
    BY <1>8, <2>2, GrowsTree DEF LinkCommit
<1>9. CASE FileCommit(c)
  <2>1. t.op = "file" /\ Born(t) = t.rows /\ t.rows \subseteq Tags
    BY <1>1, <1>9 DEF FileCommit, Ready, Born, Transactions
  <2>2. Grows(t)
    BY <1>1, <1>9, <2>1 DEF FileCommit, Grows, TypeOK, LiveTags, Live
  <2> QED
    BY <1>9, <2>2, GrowsTree DEF FileCommit
<1> QED
  BY <1>2, <1>3, <1>4, <1>5, <1>6, <1>7, <1>8, <1>9

LEMMA InitPlanted == Init => Planted /\ Ordered
<1> SUFFICES ASSUME Init PROVE Planted /\ Ordered
  OBVIOUS
<1> USE DEF Init
<1>1. /\ Existing \subseteq Tags /\ None \notin Tags /\ LiveTags \subseteq Existing
      /\ \A c \in Clients : tx[c] = Idle
  BY CountAssumption DEF Tags, None, LiveTags, Live
<1>2. Idle.op = "idle" /\ Idle.other = None /\ Idle.locks = {} /\ InOrder(Idle)
  BY FreshGoesOn DEF Idle, GoesOn
<1>3. LiveTree
  BY <1>1 DEF LiveTree
<1>4. \A x \in LiveTags : parent[x] # None => state[parent[x]] # "none"
  BY <1>1
<1>5. \A c \in Clients : Aims(tx[c]) /\ tx[c].op \notin {"move", "merging"}
  BY <1>1, <1>2 DEF Aims
<1>6. Planted
  BY <1>3, <1>4, <1>5 DEF Planted
<1> QED
  BY <1>1, <1>2, <1>6 DEF Ordered

LEMMA StepPlanted == Filed /\ Planted /\ Ordered /\ [Next]_vars => Planted' /\ Ordered'
<1> SUFFICES ASSUME Filed, Planted, Ordered, [Next]_vars PROVE Planted' /\ Ordered'
  OBVIOUS
<1>1. CASE UNCHANGED vars
  BY <1>1 DEF vars, Planted, Ordered, LiveTags, Live, LiveTree, Aims, Safe, ClosedUnder, InOrder, Below
<1>2. ASSUME NEW c \in Clients, Request(c) PROVE Planted' /\ Ordered'
  <2>1. PICK t : GoesOn(t) /\ tx' = [tx EXCEPT ![c] = t]
    BY <1>2, RequestGoesOn DEF Request
  <2>2. UNCHANGED <<state, parent, merged, key, links, changes, crossed>>
    BY <1>2, RequestGoesOn DEF Request
  <2> QED
    BY <2>1, <2>2, QuietTree
<1>3. ASSUME NEW c \in Clients, Step(c) PROVE Planted' /\ Ordered'
  BY <1>3, LockGoesOn, SuggestGoesOn, MergeReadGoesOn, CommitsGoOn DEF Step
<1> QED
  BY <1>1, <1>2, <1>3, RollbackGoesOn DEF Next

(* The tags that are not deleted are a tree as long as no two moves or merges have overlapped: a   *)
(* tag that is deleted, confirmed or inserted beside a move never makes what it has read untrue.  *)
THEOREM TagsStayATree == Spec => []TreeUnlessMovesCross
<1>1. Planted => TreeUnlessMovesCross
  BY DEF Planted, LiveTree, TreeUnlessMovesCross
<1> QED
  BY <1>1, InitFiled, StepFiled, InitPlanted, StepPlanted, PTL DEF Spec

(* The last of a set of tags. *)
LEMMA LastTag ==
  ASSUME NEW X \in SUBSET Tags, X # {}
  PROVE  \E x \in X : \A y \in X : y <= x
<1> DEFINE R == StrictSubsetOrdering(Tags)
           Above(x) == {y \in Tags : x < y}
           T == {Above(x) : x \in X}
<1>1. IsWellFoundedOn(R, SUBSET Tags)
  BY TagsAreFinite, FS_StrictSubsetOrderingWellFounded, FS_FiniteSubsetsOfFinite
<1>2. T \subseteq SUBSET Tags /\ T # {}
  OBVIOUS
<1> HIDE DEF R, T
<1>3. PICK m \in T : \A y \in T : <<y, m>> \notin R
  BY <1>1, <1>2, WFMin
<1>4. PICK x \in X : m = Above(x)
  BY <1>3 DEF T
<1>5. ASSUME NEW y \in X, x < y PROVE FALSE
  <2>1. x \in Int /\ y \in Int /\ Tags \subseteq Int
    BY DEF Tags
  <2>2. Above(y) \subseteq Above(x) /\ y \in Above(x) /\ y \notin Above(y)
    <3>1. y \in Tags
      OBVIOUS
    <3>2. ASSUME NEW z \in Tags, y < z PROVE x < z
      BY <1>5, <2>1, <3>2
    <3>3. ~(y < y)
      BY <2>1
    <3> QED
      BY <1>5, <3>1, <3>2, <3>3
  <2>3. Above(y) \in T
    BY DEF T
  <2>4. <<Above(y), Above(x)>> \in R
    BY <2>2 DEF R, StrictSubsetOrdering
  <2> QED
    BY <1>3, <1>4, <2>3, <2>4
<1> QED
  BY <1>5 DEF Tags

LEMMA CirclesHaveACause ==
  ASSUME Filed, Ordered
  PROVE  WaitCirclesHaveACause
<1> SUFFICES ASSUME NEW S \in SUBSET Clients, S # {},
                    \A c \in S : tx[c].op \in {"file", "merge", "merging"},
                    \A c \in S : \E o \in S \ {c} : Waits(c, o),
                    \A c \in S : ~tx[c].hopped,
                    \A c \in S : \A l \in tx[c].locks : l[2] # "fk",
                    \A c \in S : tx[c].op = "merging" =>
                       \A o \in S \ {c} : tx[o].op = "file" \/ ~Waits(c, o)
             PROVE  FALSE
  BY DEF WaitCirclesHaveACause
<1>1. ASSUME NEW c \in S
      PROVE  /\ tx[c].op = "file" => \A l \in tx[c].locks : l[2] = "key"
             /\ tx[c].op = "file" \/ tx[c].op = "merge" => Below(tx[c])
             /\ tx[c].op = "merging" /\ tx[c].want # <<>> => Head(tx[c].want)[2] = "row"
             /\ tx[c].want # <<>> => Head(tx[c].want)[1] \in SUBSET Tags
  <2>1. InOrder(tx[c]) /\ ~tx[c].hopped /\ \A l \in tx[c].locks : l[2] # "fk"
    BY DEF Ordered
  <2>2. tx[c].want \in Demands
    BY DEF Filed, Fits, Transactions, Demands
  <2>3. tx[c].want # <<>> => Head(tx[c].want)[1] \in SUBSET Tags
    <3> DEFINE G == (SUBSET Tags) \X Modes
    <3>1. tx[c].want # <<>> => Head(tx[c].want) \in G
      <4>1. tx[c].want \in Seq(G)
        BY <2>2 DEF Demands
      <4> HIDE DEF G
      <4> QED
        BY <4>1
    <3> QED
      BY <3>1
  <2>4. tx[c].op = "file" => Below(tx[c]) /\ \A l \in tx[c].locks : l[2] = "key"
    BY <2>1 DEF InOrder, Below
  <2> QED
    BY <2>1, <2>3, <2>4 DEF InOrder
<1>2. ASSUME NEW c \in S PROVE tx[c].op # "merging"
  <2>1. SUFFICES ASSUME tx[c].op = "merging" PROVE FALSE
    OBVIOUS
  <2>2. PICK o \in S \ {c} : Waits(c, o)
    OBVIOUS
  <2>3. tx[o].op = "file" /\ \A l \in tx[o].locks : l[2] = "key"
    BY <1>1, <2>1, <2>2
  <2>4. Head(tx[c].want)[2] = "row" /\ \E l \in tx[o].locks : Conflict(l[2], "row")
    <3>1. tx[c].want # <<>> /\ \E x : Holds(o, <<x, Head(tx[c].want)[2]>>)
      BY <2>2 DEF Waits
    <3>2. Head(tx[c].want)[2] = "row"
      BY <1>1, <2>1, <3>1
    <3> QED
      BY <3>1, <3>2 DEF Holds
  <2> QED
    BY <2>3, <2>4 DEF Conflict
<1> DEFINE First(c, x) == tx[c].want # <<>> /\ x \in Head(tx[c].want)[1]
                            /\ \A y \in Head(tx[c].want)[1] : x <= y
           X == {x \in Tags : \E c \in S : First(c, x)}
<1>3. ASSUME NEW c \in S
      PROVE  \E x \in Tags, o \in S : First(c, x) /\ \E l \in tx[o].locks : l[1] = x
  <2>1. PICK o \in S \ {c} : Waits(c, o)
    OBVIOUS
  <2>2. PICK x \in Head(tx[c].want)[1] :
          (\A y \in Head(tx[c].want)[1] : x <= y) /\ Holds(o, <<x, Head(tx[c].want)[2]>>)
    BY <2>1 DEF Waits
  <2>3. tx[c].want # <<>> /\ x \in Tags
    BY <1>1, <2>1, <2>2 DEF Waits
  <2>4. PICK l \in tx[o].locks : l[1] = x
    BY <2>2 DEF Holds
  <2> QED
    BY <2>2, <2>3, <2>4
<1>4. X \in SUBSET Tags /\ X # {}
  <2> HIDE DEF First
  <2>1. PICK c \in S : TRUE
    OBVIOUS
  <2>2. PICK z \in Tags, o \in S : First(c, z) /\ \E l \in tx[o].locks : l[1] = z
    BY <1>3
  <2> QED
    BY <2>2
<1>5. PICK x \in X : \A y \in X : y <= x
  <2> HIDE DEF X
  <2> QED
    BY <1>4, LastTag
<1>6. PICK c \in S : First(c, x)
  OBVIOUS
<1>7. PICK z \in Tags, o \in S : First(c, z) /\ \E l \in tx[o].locks : l[1] = z
  BY <1>3
<1>8. z = x
  BY <1>6, <1>7 DEF Tags
<1>9. PICK w \in Tags, p \in S : First(o, w) /\ \E l \in tx[p].locks : l[1] = w
  BY <1>3
<1>10. x < w
  BY <1>1, <1>2, <1>7, <1>8, <1>9 DEF Below
<1>11. w \in X
  BY <1>9
<1> QED
  BY <1>5, <1>10, <1>11 DEF Tags

(* Filings and merges wait in a circle for one of three reasons only, whatever their number: both  *)
(* lock in the order of the ids, so without those reasons the one that waits for the last of the  *)
(* tags asked for first waits for one that asks for a later tag still.                            *)
THEOREM OrderedLocksDoNotCircle == Spec => []WaitCirclesHaveACause
<1>1. Filed /\ Ordered => WaitCirclesHaveACause
  BY CirclesHaveACause
<1> QED
  BY <1>1, InitFiled, StepFiled, InitPlanted, StepPlanted, PTL DEF Spec
=============================================================================
