--------------------------- MODULE IngestWatchProofs ---------------------------
(***************************************************************************)
(* What holds of the watch for any number of scanners, files, writes and   *)
(* faults: the types, and, while no scan outlives its lock, what the       *)
(* ledger and the assets say of each other.                                *)
(***************************************************************************)
EXTENDS IngestWatch, FiniteSetTheorems, TLAPS

Before == {"reopen", "observe"}
Handling == {"read", "compare", "register", "commit"}
Sending == {"enqueue", "mark"}
Working == Handling \cup Sending

(* Writes are numbered as they come. *)
WritesKnown ==
    /\ Len(written) <= MaxWrites
    /\ \A f \in Files : disk[f] <= Len(written) /\ ledger[f].seen <= Len(written)
    /\ \A a \in Assets : asset[a].write <= Len(written)
    /\ \A s \in Scanners : /\ \A f \in Files : scan[s].todo[f] <= Len(written)
                           /\ scan[s].write <= Len(written)

(* A scanner at work has a file and a write of it, and the file is no longer among those to do. *)
ScansFormed ==
    \A s \in Scanners :
        /\ scan[s].at = "idle" => scan[s] = Idle
        /\ scan[s].at \in Working =>
              /\ scan[s].file \in Files /\ scan[s].todo[scan[s].file] = 0
              /\ scan[s].write # 0 /\ scan[s].read < MaxIngest
        /\ scan[s].at \notin Working => scan[s].write = 0
        /\ scan[s].at \in Sending => scan[s].asset \in Assets

(* A row that names an asset has its checksum. *)
RowsNameAssets ==
    \A f \in Files : ledger[f].asset # None =>
        /\ asset[ledger[f].asset].status # "none"
        /\ ledger[f].checksum = asset[ledger[f].asset].content
FreeAreEmpty == \A a \in Free : asset[a].write = 0

Typed == TypeOK /\ WritesKnown /\ ScansFormed /\ RowsNameAssets /\ FreeAreEmpty

-----------------------------------------------------------------------------
(* Every nonempty set of assets has a first. *)
LEMMA FirstAsset ==
  ASSUME NEW S \in SUBSET Assets, S # {}
  PROVE  \E a \in S : \A b \in S : a <= b
<1> DEFINE R == StrictSubsetOrdering(Assets)
           up == {1..a : a \in S}
<1>1. MaxAssets \in Nat
  BY BoundsAssumption
<1>2. IsFiniteSet(Assets)
  BY <1>1, FS_Interval DEF Assets
<1>3. IsWellFoundedOn(R, SUBSET Assets)
  BY <1>2, FS_StrictSubsetOrderingWellFounded, FS_FiniteSubsetsOfFinite
<1>4. up \subseteq SUBSET Assets /\ up # {}
  <2>1. \A a \in S : 1..a \subseteq Assets
    BY <1>1 DEF Assets
  <2> QED
    BY <2>1
<1> HIDE DEF R, up
<1>5. PICK X \in up : \A Y \in up : <<Y, X>> \notin R
  BY <1>3, <1>4, WFMin
<1>6. PICK a \in S : X = 1..a
  BY <1>5 DEF up
<1>7. ASSUME NEW b \in S, ~ (a <= b) PROVE FALSE
  <2>1. a \in Nat /\ b \in Nat /\ a \in 1..a /\ a \notin 1..b /\ 1..b \subseteq 1..a
        /\ 1..a \subseteq Assets /\ 1..b \subseteq Assets
    BY <1>1, <1>7 DEF Assets
  <2>2. 1..b # 1..a
    BY <2>1
  <2>3. 1..b \in up
    BY DEF up
  <2>4. <<1..b, 1..a>> \in R
    BY <2>1, <2>2 DEF R, StrictSubsetOrdering
  <2> QED
    BY <1>5, <1>6, <2>3, <2>4
<1> QED
  BY <1>7

LEMMA NewIsFree ==
  ASSUME Free # {}
  PROVE  NewAsset \in Free
  BY FirstAsset DEF NewAsset, Free

-----------------------------------------------------------------------------
(* What a step makes of a scan, field by field. *)
Becomes(s, at, todo, read, file, write, a, rows) ==
    /\ scan' \in [Scanners -> Scans]
    /\ \A t \in Scanners : t # s => scan'[t] = scan[t]
    /\ scan'[s].at = at /\ scan'[s].todo = todo /\ scan'[s].read = read
    /\ scan'[s].file = file /\ scan'[s].write = write
    /\ scan'[s].asset = a /\ scan'[s].rows = rows

ToPlace(s, at) ==
    Becomes(s, at, scan[s].todo, scan[s].read, scan[s].file, scan[s].write, scan[s].asset,
            scan[s].rows)
ToIdle(s) == Becomes(s, "idle", [f \in Files |-> 0], 0, None, 0, None, {})
Finished(s, n) == Becomes(s, "renew", scan[s].todo, n, None, 0, None, scan[s].rows)

LEMMA ScanFields ==
  ASSUME NEW r \in Scans
  PROVE  /\ r.at \in Places /\ r.todo \in [Files -> 0 .. MaxWrites] /\ r.read \in 0 .. MaxIngest
         /\ r.file \in Files \cup {None} /\ r.write \in 0 .. MaxWrites
         /\ r.asset \in Assets \cup {None} /\ r.rows \in SUBSET Files
  BY DEF Scans

LEMMA SetPlace ==
  ASSUME scan \in [Scanners -> Scans], NEW s \in Scanners, NEW at \in Places,
         scan' = [scan EXCEPT ![s].at = at]
  PROVE  ToPlace(s, at)
<1>1. [scan[s] EXCEPT !.at = at] \in Scans
  BY DEF Scans
<1> QED
  BY <1>1 DEF ToPlace, Becomes, Scans

LEMMA SetTodo ==
  ASSUME scan \in [Scanners -> Scans], NEW s \in Scanners, NEW at \in Places,
         NEW todo \in [Files -> 0 .. MaxWrites],
         scan' = [scan EXCEPT ![s].at = at, ![s].todo = todo]
  PROVE  Becomes(s, at, todo, scan[s].read, scan[s].file, scan[s].write, scan[s].asset,
                 scan[s].rows)
<1>1. [scan[s] EXCEPT !.at = at, !.todo = todo] \in Scans
  BY DEF Scans
<1> QED
  BY <1>1 DEF Becomes, Scans

LEMMA SetRows ==
  ASSUME scan \in [Scanners -> Scans], NEW s \in Scanners, NEW at \in Places,
         NEW rows \in SUBSET Files,
         scan' = [scan EXCEPT ![s].at = at, ![s].rows = rows]
  PROVE  Becomes(s, at, scan[s].todo, scan[s].read, scan[s].file, scan[s].write, scan[s].asset,
                 rows)
<1>1. [scan[s] EXCEPT !.at = at, !.rows = rows] \in Scans
  BY DEF Scans
<1> QED
  BY <1>1 DEF Becomes, Scans

LEMMA SetWrite ==
  ASSUME scan \in [Scanners -> Scans], NEW s \in Scanners, NEW at \in Places,
         NEW w \in 0 .. MaxWrites,
         scan' = [scan EXCEPT ![s].at = at, ![s].write = w]
  PROVE  Becomes(s, at, scan[s].todo, scan[s].read, scan[s].file, w, scan[s].asset,
                 scan[s].rows)
<1>1. [scan[s] EXCEPT !.at = at, !.write = w] \in Scans
  BY DEF Scans
<1> QED
  BY <1>1 DEF Becomes, Scans

LEMMA SetAsset ==
  ASSUME scan \in [Scanners -> Scans], NEW s \in Scanners, NEW at \in Places,
         NEW a \in Assets,
         scan' = [scan EXCEPT ![s].at = at, ![s].asset = a]
  PROVE  Becomes(s, at, scan[s].todo, scan[s].read, scan[s].file, scan[s].write, a,
                 scan[s].rows)
<1>1. [scan[s] EXCEPT !.at = at, !.asset = a] \in Scans
  BY DEF Scans
<1> QED
  BY <1>1 DEF Becomes, Scans

LEMMA SetIdle ==
  ASSUME scan \in [Scanners -> Scans], NEW s \in Scanners, scan' = [scan EXCEPT ![s] = Idle]
  PROVE  ToIdle(s) /\ scan'[s] = Idle
<1>1. Idle \in Scans
  BY BoundsAssumption DEF Idle, Scans, Places
<1> QED
  BY <1>1 DEF ToIdle, Becomes, Idle

LEMMA SetFinish ==
  ASSUME scan \in [Scanners -> Scans], NEW s \in Scanners, NEW n \in {0, 1},
         scan[s].read < MaxIngest, Finish(s, n)
  PROVE  Finished(s, scan[s].read + n)
<1> DEFINE m == scan[s].read + n
<1>1. m \in 0 .. MaxIngest /\ 0 \in 0 .. MaxWrites /\ "renew" \in Places
  BY BoundsAssumption, ScanFields DEF Places
<1>2. scan' = [scan EXCEPT ![s].at = "renew", ![s].file = None, ![s].write = 0,
                           ![s].asset = None, ![s].read = m]
  BY DEF Finish, Scans
<1> HIDE DEF m
<1>3. [scan[s] EXCEPT !.at = "renew", !.file = None, !.write = 0,
                      !.asset = None, !.read = m] \in Scans
  BY <1>1 DEF Scans
<1>4. Becomes(s, "renew", scan[s].todo, m, None, 0, None, scan[s].rows)
  BY <1>2, <1>3 DEF Becomes, Scans
<1> QED
  BY <1>4 DEF Finished, m

LEMMA SetTaken ==
  ASSUME scan \in [Scanners -> Scans], NEW s \in Scanners, NEW f \in Files,
         scan' = [[scan EXCEPT ![s].todo[f] = 0] EXCEPT ![s].at = "renew"]
  PROVE  Becomes(s, "renew", [scan[s].todo EXCEPT ![f] = 0], scan[s].read, scan[s].file,
                 scan[s].write, scan[s].asset, scan[s].rows)
<1> DEFINE todo == [scan[s].todo EXCEPT ![f] = 0]
<1>1. todo \in [Files -> 0 .. MaxWrites] /\ "renew" \in Places
  BY BoundsAssumption, ScanFields DEF Places
<1>2. scan' = [scan EXCEPT ![s].at = "renew", ![s].todo = todo]
  BY DEF Scans
<1> HIDE DEF todo
<1>3. Becomes(s, "renew", todo, scan[s].read, scan[s].file, scan[s].write, scan[s].asset,
              scan[s].rows)
  BY <1>1, <1>2, SetTodo
<1> QED
  BY <1>3 DEF todo

LEMMA SetFileAtHand ==
  ASSUME scan \in [Scanners -> Scans], NEW s \in Scanners, NEW f \in Files, NEW at \in Places,
         NEW w \in 0 .. MaxWrites, NEW todo \in [Files -> 0 .. MaxWrites],
         scan' = [scan EXCEPT ![s].at = at, ![s].file = f, ![s].write = w, ![s].todo = todo]
  PROVE  Becomes(s, at, todo, scan[s].read, f, w, scan[s].asset, scan[s].rows)
<1> DEFINE r == [scan[s] EXCEPT !.at = at, !.file = f, !.write = w, !.todo = todo]
<1>1. r \in Scans
  BY DEF Scans
<1>2. /\ r.at = at /\ r.todo = todo /\ r.read = scan[s].read /\ r.file = f /\ r.write = w
      /\ r.asset = scan[s].asset /\ r.rows = scan[s].rows
  BY DEF Scans
<1>3. scan' = [scan EXCEPT ![s] = r]
  BY DEF Scans
<1> HIDE DEF r
<1>4. scan' \in [Scanners -> Scans] /\ scan'[s] = r /\ \A t \in Scanners : t # s => scan'[t] = scan[t]
  BY <1>1, <1>3
<1> QED
  BY <1>2, <1>4 DEF Becomes

LEMMA SetAtHand ==
  ASSUME scan \in [Scanners -> Scans], NEW s \in Scanners, NEW f \in Files,
         scan' = [[scan EXCEPT ![s].todo[f] = 0] EXCEPT ![s].at = "read", ![s].file = f,
                                                        ![s].write = scan[s].todo[f]]
  PROVE  Becomes(s, "read", [scan[s].todo EXCEPT ![f] = 0], scan[s].read, f, scan[s].todo[f],
                 scan[s].asset, scan[s].rows)
<1> DEFINE todo == [scan[s].todo EXCEPT ![f] = 0]
           w == scan[s].todo[f]
<1>1. todo \in [Files -> 0 .. MaxWrites] /\ "read" \in Places /\ w \in 0 .. MaxWrites
  BY BoundsAssumption, ScanFields DEF Places
<1>2. scan' = [scan EXCEPT ![s].at = "read", ![s].file = f, ![s].write = w, ![s].todo = todo]
  BY DEF Scans
<1> HIDE DEF todo, w
<1>3. Becomes(s, "read", todo, scan[s].read, f, w, scan[s].asset, scan[s].rows)
  BY <1>1, <1>2, SetFileAtHand
<1> QED
  BY <1>3 DEF todo, w

-----------------------------------------------------------------------------
(* What each step does to the ledger, the assets and its scan. *)
WorldStays == written' = written /\ disk' = disk
LedgerStays == ledger' = ledger
AssetsStay == asset' = asset
RowStays(f) == ledger'[f] = ledger[f]
RowNamesTheSame(f) ==
    ledger'[f].checksum = ledger[f].checksum /\ ledger'[f].asset = ledger[f].asset
OtherRowsStay(f) == \A g \in Files : g # f => RowStays(g)
AssetIsTheSame(a) ==
    /\ asset'[a].status = asset[a].status /\ asset'[a].content = asset[a].content
    /\ asset'[a].write = asset[a].write /\ asset'[a].object = asset[a].object

LEMMA RowFields ==
  ASSUME NEW row \in Rows
  PROVE  /\ row.status \in Statuses /\ row.seen \in 0 .. MaxWrites /\ row.stable \in BOOLEAN
         /\ row.checksum \in Contents \cup {None} /\ row.asset \in Assets \cup {None}
  BY DEF Rows

LEMMA AssetFields ==
  ASSUME NEW r \in AssetRows
  PROVE  /\ r.status \in {"none", "pending", "ready", "gone"}
         /\ r.content \in Contents \cup {None} /\ r.write \in 0 .. MaxWrites
         /\ r.object \in BOOLEAN /\ r.sent \in BOOLEAN
  BY DEF AssetRows

LEMMA RowWithStatus ==
  ASSUME NEW row \in Rows, NEW status \in Statuses
  PROVE  /\ [row EXCEPT !.status = status] \in Rows
         /\ [row EXCEPT !.status = status].status = status
         /\ [row EXCEPT !.status = status].seen = row.seen
         /\ [row EXCEPT !.status = status].checksum = row.checksum
         /\ [row EXCEPT !.status = status].asset = row.asset
  BY DEF Rows

LEMMA RowUnstable ==
  ASSUME NEW row \in Rows,
         NEW new, new = [row EXCEPT !.status = "pending_stable", !.stable = FALSE]
  PROVE  /\ new \in Rows /\ new.status = "pending_stable" /\ new.seen = row.seen
         /\ new.checksum = row.checksum /\ new.asset = row.asset
  BY DEF Rows, Statuses

LEMMA NoRowIsARow == NoRow \in Rows
  BY BoundsAssumption DEF NoRow, Rows, Statuses

LEMMA ReopenDoes ==
  ASSUME TypeOK, NEW s \in Scanners, Reopen(s)
  PROVE  /\ ToPlace(s, "observe") /\ scan[s].at = "reopen" /\ ledger' \in [Files -> Rows]
         /\ \A f \in Files :
              \/ RowStays(f)
              \/ /\ ledger[f].status = "duplicate" /\ ledger'[f].status = "pending_stable"
                 /\ ledger'[f].seen = ledger[f].seen /\ RowNamesTheSame(f)
<1>1. ToPlace(s, "observe") /\ scan[s].at = "reopen"
  BY SetPlace DEF Reopen, Move, TypeOK, Places
<1>2. ASSUME NEW f \in Files
      PROVE  /\ ledger'[f] \in Rows
             /\ \/ RowStays(f)
                \/ /\ ledger[f].status = "duplicate" /\ ledger'[f].status = "pending_stable"
                   /\ ledger'[f].seen = ledger[f].seen /\ RowNamesTheSame(f)
  BY RowUnstable DEF Reopen, TypeOK, RowStays, RowNamesTheSame
<1>3. ledger' \in [Files -> Rows]
  BY <1>2 DEF Reopen
<1> QED
  BY <1>1, <1>2, <1>3

(* What the listing makes of a row. *)
Lists(s, f) ==
    \/ RowStays(f)
    \/ ledger[f].status # "uploaded" /\ scan[s].todo[f] = 0 /\ ledger'[f] = NoRow
    \/ /\ ledger[f].status # "uploaded"
       /\ scan[s].todo[f] # 0 /\ ledger[f].seen # scan[s].todo[f]
       /\ ledger'[f].status = "pending_stable" /\ ledger'[f].seen = scan[s].todo[f]
       /\ RowNamesTheSame(f)

LEMMA ObserveDoes ==
  ASSUME TypeOK, NEW s \in Scanners, Observe(s)
  PROVE  /\ scan[s].at = "observe" /\ ledger' \in [Files -> Rows]
         /\ \A f \in Files : Lists(s, f)
         /\ \E todo \in [Files -> 0 .. MaxWrites] :
              /\ Becomes(s, "resume", todo, scan[s].read, scan[s].file, scan[s].write,
                         scan[s].asset, scan[s].rows)
              /\ \A f \in Files : todo[f] # 0 =>
                    todo[f] = scan[s].todo[f] /\ ledger[f].seen = todo[f] /\ RowStays(f)
<1> DEFINE listed == scan[s].todo
           todo == [f \in Files |->
                      IF /\ ledger[f].status = "pending_stable"
                         /\ ledger[f].stable /\ ledger[f].seen = listed[f]
                        THEN listed[f] ELSE 0]
<1>1. listed \in [Files -> 0 .. MaxWrites] /\ scan[s].at = "observe" /\ "resume" \in Places
  BY ScanFields DEF TypeOK, Observe, Places
<1>2. todo \in [Files -> 0 .. MaxWrites]
  BY <1>1, BoundsAssumption
<1>3. scan' = [scan EXCEPT ![s].at = "resume", ![s].todo = todo]
  BY DEF Observe
<1>4. PICK gone \in SUBSET {f \in Files : listed[f] = 0 /\ ledger[f].status # "uploaded"} :
        ledger' = [f \in Files |->
            IF f \in gone THEN NoRow
            ELSE IF listed[f] = 0 THEN ledger[f] ELSE Observed(ledger[f], listed[f])]
  BY DEF Observe
<1>5. ASSUME NEW f \in Files PROVE ledger'[f] \in Rows /\ Lists(s, f)
  <2>1. ledger[f] \in Rows /\ listed[f] \in 0 .. MaxWrites
    BY <1>1 DEF TypeOK
  <2>2. CASE f \in gone
    BY <1>4, <2>2, NoRowIsARow DEF Lists
  <2>3. CASE f \notin gone /\ listed[f] = 0
    BY <1>4, <2>1, <2>3 DEF Lists, RowStays
  <2>4. CASE f \notin gone /\ listed[f] # 0
    <3>1. ledger'[f] = Observed(ledger[f], listed[f])
      BY <1>4, <2>4
    <3>2. CASE ledger[f].status = "uploaded" \/ ledger[f].seen = listed[f]
      BY <2>1, <3>1, <3>2 DEF Lists, RowStays, Observed
    <3>3. CASE ~ (ledger[f].status = "uploaded" \/ ledger[f].seen = listed[f])
      <4>1. ledger'[f] = [ledger[f] EXCEPT !.status = "pending_stable", !.seen = listed[f],
                                           !.stable = FALSE]
        BY <3>1, <3>3 DEF Observed
      <4>2. /\ ledger'[f] \in Rows /\ ledger'[f].status = "pending_stable"
            /\ ledger'[f].seen = listed[f] /\ RowNamesTheSame(f)
        BY <2>1, <4>1 DEF RowNamesTheSame, Rows, Statuses
      <4> QED
        BY <2>4, <3>3, <4>2 DEF Lists
    <3> QED
      BY <3>2, <3>3
  <2> QED
    BY <2>2, <2>3, <2>4
<1>6. ledger' \in [Files -> Rows]
  BY <1>4, <1>5
<1>7. ASSUME NEW f \in Files, todo[f] # 0
      PROVE  todo[f] = listed[f] /\ ledger[f].seen = todo[f] /\ RowStays(f)
  <2>1. todo[f] = listed[f] /\ ledger[f].seen = todo[f]
    BY <1>7
  <2>2. ledger'[f] = Observed(ledger[f], listed[f])
    BY <1>4, <1>7, <2>1
  <2> QED
    BY <2>1, <2>2 DEF Observed, RowStays
<1> HIDE DEF todo
<1>8. Becomes(s, "resume", todo, scan[s].read, scan[s].file, scan[s].write, scan[s].asset,
              scan[s].rows)
  BY <1>1, <1>2, <1>3, SetTodo DEF TypeOK
<1> QED
  BY <1>1, <1>2, <1>5, <1>6, <1>7, <1>8

(* What is due to be sent has been sent, except for the rows whose send failed. *)
LEMMA ResumeDoes ==
  ASSUME TypeOK, NEW s \in Scanners, Resume(s)
  PROVE  /\ scan[s].at = "resume" /\ asset' \in [Assets -> AssetRows]
         /\ faults' \in 0 .. MaxFaults
         /\ \A a \in Assets : AssetIsTheSame(a) /\ (asset[a].sent => asset'[a].sent)
         /\ \E rows \in SUBSET Files :
              /\ Becomes(s, "resumed", scan[s].todo, scan[s].read, scan[s].file, scan[s].write,
                         scan[s].asset, rows)
              /\ \A f \in rows :
                   /\ ledger[f].status = "uploaded"
                   /\ (ledger[f].asset \in Assets /\ asset[ledger[f].asset].status = "pending")
                        => asset'[ledger[f].asset].sent
<1> DEFINE left == {f \in Files : ledger[f].status = "uploaded"}
           due == {f \in left : asset[ledger[f].asset].status = "pending"}
<1>1. PICK lost \in SUBSET due :
         /\ faults + Cardinality(lost) <= MaxFaults
         /\ faults' = faults + Cardinality(lost)
         /\ asset' = [a \in Assets |->
              IF \E f \in due \ lost : ledger[f].asset = a
                THEN [asset[a] EXCEPT !.sent = TRUE] ELSE asset[a]]
         /\ scan' = [scan EXCEPT ![s].at = "resumed", ![s].rows = left \ lost]
  BY DEF Resume
<1>2. Cardinality(lost) \in Nat
  <2>1. lost \subseteq Files
    OBVIOUS
  <2> QED
    BY <2>1, FilesAssumption, FS_Subset, FS_CardinalityType
<1>3. faults' \in 0 .. MaxFaults
  BY <1>1, <1>2, BoundsAssumption DEF TypeOK
<1>4. left \ lost \in SUBSET Files /\ "resumed" \in Places /\ scan[s].at = "resume"
  BY DEF Places, Resume
<1>5. ASSUME NEW a \in Assets
      PROVE  /\ asset'[a] \in AssetRows
             /\ AssetIsTheSame(a) /\ (asset[a].sent => asset'[a].sent)
             /\ (\E f \in due \ lost : ledger[f].asset = a) => asset'[a].sent
  <2>1. asset[a] \in AssetRows
    BY DEF TypeOK
  <2>2. asset'[a] = asset[a] \/ asset'[a] = [asset[a] EXCEPT !.sent = TRUE]
    BY <1>1
  <2>3. (\E f \in due \ lost : ledger[f].asset = a)
          => asset'[a] = [asset[a] EXCEPT !.sent = TRUE]
    BY <1>1
  <2> HIDE DEF left, due
  <2> QED
    BY <2>1, <2>2, <2>3 DEF AssetRows, AssetIsTheSame
<1>6. asset' \in [Assets -> AssetRows]
  BY <1>1, <1>5
<1>7. ASSUME NEW f \in left \ lost
      PROVE  /\ ledger[f].status = "uploaded"
             /\ (ledger[f].asset \in Assets /\ asset[ledger[f].asset].status = "pending")
                  => asset'[ledger[f].asset].sent
  BY <1>5
<1>8. Becomes(s, "resumed", scan[s].todo, scan[s].read, scan[s].file, scan[s].write,
              scan[s].asset, left \ lost)
  <2> HIDE DEF left, due
  <2> QED
    BY <1>1, <1>4, SetRows DEF TypeOK
<1> QED
  BY <1>3, <1>4, <1>5, <1>6, <1>7, <1>8

LEMMA ResumedDoes ==
  ASSUME TypeOK, NEW s \in Scanners, Resumed(s)
  PROVE  /\ scan[s].at = "resumed" /\ ledger' \in [Files -> Rows]
         /\ Becomes(s, "files", scan[s].todo, scan[s].read, scan[s].file, scan[s].write,
                    scan[s].asset, {})
         /\ \A f \in Files :
              \/ f \notin scan[s].rows /\ RowStays(f)
              \/ /\ f \in scan[s].rows /\ ledger'[f].status = "done"
                 /\ ledger'[f].seen = ledger[f].seen /\ RowNamesTheSame(f)
<1>1. "files" \in Places /\ "done" \in Statuses
  BY DEF Places, Statuses
<1>2. Becomes(s, "files", scan[s].todo, scan[s].read, scan[s].file, scan[s].write,
              scan[s].asset, {})
  BY <1>1, SetRows DEF Resumed, TypeOK
<1>3. ASSUME NEW f \in Files
      PROVE  /\ ledger'[f] \in Rows
             /\ \/ f \notin scan[s].rows /\ RowStays(f)
                \/ /\ f \in scan[s].rows /\ ledger'[f].status = "done"
                   /\ ledger'[f].seen = ledger[f].seen /\ RowNamesTheSame(f)
  BY <1>1, RowWithStatus DEF Resumed, TypeOK, RowStays, RowNamesTheSame
<1>4. ledger' \in [Files -> Rows]
  BY <1>3 DEF Resumed
<1> QED
  BY <1>2, <1>3, <1>4 DEF Resumed

LEMMA Numbers ==
  ASSUME TypeOK
  PROVE  /\ Len(written) \in Nat
         /\ \A f \in Files : disk[f] \in Nat /\ ledger[f].seen \in Nat
         /\ \A a \in Assets : asset[a].write \in Nat
         /\ \A s \in Scanners : /\ scan[s].todo \in [Files -> Nat] /\ scan[s].write \in Nat
                                /\ \A f \in Files : scan[s].todo[f] \in Nat
<1>1. 0 .. MaxWrites \subseteq Nat
  BY BoundsAssumption
<1>2. \A f \in Files : ledger[f] \in Rows
  BY DEF TypeOK
<1>3. \A a \in Assets : asset[a] \in AssetRows
  BY DEF TypeOK
<1>4. \A s \in Scanners : scan[s] \in Scans
  BY DEF TypeOK
<1>5. \A f \in Files : disk[f] \in Nat /\ ledger[f].seen \in Nat
  BY <1>1, <1>2, RowFields DEF TypeOK
<1>6. \A a \in Assets : asset[a].write \in Nat
  BY <1>1, <1>3, AssetFields
<1>7. \A s \in Scanners : /\ scan[s].todo \in [Files -> Nat] /\ scan[s].write \in Nat
                          /\ \A f \in Files : scan[s].todo[f] \in Nat
  BY <1>1, <1>4, ScanFields
<1> QED
  BY <1>5, <1>6, <1>7 DEF TypeOK

LEMMA CheckDoes ==
  ASSUME TypeOK, NEW s \in Scanners, Check(s)
  PROVE  /\ scan[s].at = "files" /\ scan[s].read < MaxIngest
         /\ risks' \subseteq {"lock", "late", "answer"} /\ risks \subseteq risks'
         /\ \E f \in Files, todo \in [Files -> Nat] :
              /\ scan[s].todo[f] # 0
              /\ todo[f] = 0 /\ \A g \in Files : g # f => todo[g] = scan[s].todo[g]
              /\ \/ Becomes(s, "renew", todo, scan[s].read, scan[s].file, scan[s].write,
                            scan[s].asset, scan[s].rows)
                 \/ /\ ledger[f].status = "pending_stable"
                    /\ Becomes(s, "read", todo, scan[s].read, f, scan[s].todo[f],
                               scan[s].asset, scan[s].rows)
                    /\ "late" \notin risks' =>
                         \A a \in Assets :
                            (asset[a].status = "pending"
                              /\ asset[a].content = Content(scan[s].todo[f])) => InLedger(a)
<1>1. PICK f \in Todo(s) :
         LET inflight == {a \in Assets : asset[a].status = "pending" /\ ~InLedger(a)}
             same == {a \in inflight : asset[a].content = Content(scan[s].todo[f])}
             taken == [scan EXCEPT ![s].todo[f] = 0]
         IN
         \/ /\ ledger[f].status # "pending_stable" \/ inflight # {}
            /\ scan' = [taken EXCEPT ![s].at = "renew"]
            /\ UNCHANGED risks
         \/ /\ ledger[f].status = "pending_stable"
            /\ scan' = [taken EXCEPT ![s].at = "read", ![s].file = f,
                                       ![s].write = scan[s].todo[f]]
            /\ risks' = risks \cup IF same = {} THEN {} ELSE {"late"}
  BY DEF Check
<1> DEFINE todo == [scan[s].todo EXCEPT ![f] = 0]
<1>2. /\ f \in Files /\ scan[s].todo[f] # 0 /\ scan[s].at = "files" /\ scan[s].read < MaxIngest
      /\ todo \in [Files -> Nat]
      /\ todo[f] = 0 /\ \A g \in Files : g # f => todo[g] = scan[s].todo[g]
  BY Numbers DEF Todo, Check
<1>3. CASE /\ scan' = [[scan EXCEPT ![s].todo[f] = 0] EXCEPT ![s].at = "renew"]
           /\ UNCHANGED risks
  <2>1. Becomes(s, "renew", todo, scan[s].read, scan[s].file, scan[s].write, scan[s].asset,
                scan[s].rows)
    BY <1>2, <1>3, SetTaken DEF TypeOK
  <2>2. risks' \subseteq {"lock", "late", "answer"} /\ risks \subseteq risks'
    BY <1>3 DEF TypeOK
  <2> HIDE DEF todo
  <2> QED
    BY <1>2, <2>1, <2>2
<1>4. CASE /\ ledger[f].status = "pending_stable"
           /\ scan' = [[scan EXCEPT ![s].todo[f] = 0] EXCEPT ![s].at = "read", ![s].file = f,
                                       ![s].write = scan[s].todo[f]]
           /\ risks' = risks \cup
                IF {a \in {b \in Assets : asset[b].status = "pending" /\ ~InLedger(b)} :
                      asset[a].content = Content(scan[s].todo[f])} = {} THEN {} ELSE {"late"}
  <2>1. Becomes(s, "read", todo, scan[s].read, f, scan[s].todo[f], scan[s].asset,
                scan[s].rows)
    BY <1>2, <1>4, SetAtHand DEF TypeOK
  <2>2. "late" \notin risks' =>
           \A a \in Assets :
              (asset[a].status = "pending" /\ asset[a].content = Content(scan[s].todo[f]))
                 => InLedger(a)
    BY <1>4
  <2>3. risks' \subseteq {"lock", "late", "answer"} /\ risks \subseteq risks'
    BY <1>4 DEF TypeOK
  <2> HIDE DEF todo
  <2> QED
    BY <1>2, <1>4, <2>1, <2>2, <2>3
<1> QED
  BY <1>1, <1>3, <1>4

-----------------------------------------------------------------------------
(* The steps on the file at hand. *)
LEMMA AtWork ==
  ASSUME TypeOK, ScansFormed, NEW s \in Scanners, scan[s].at \in Working
  PROVE  /\ scan[s].file \in Files /\ scan[s].todo[scan[s].file] = 0 /\ scan[s].read < MaxIngest
         /\ scan[s].write \in 0 .. MaxWrites /\ scan[s].write # 0
         /\ scan[s].read + 1 \in 0 .. MaxIngest /\ scan[s].read \in 0 .. MaxIngest
         /\ scan[s] \in Scans /\ ledger[scan[s].file] \in Rows
<1>1. scan[s] \in Scans
  BY DEF TypeOK
<1>2. scan[s].read \in 0 .. MaxIngest /\ scan[s].write \in 0 .. MaxWrites
  BY <1>1, ScanFields
<1> QED
  BY <1>1, <1>2, BoundsAssumption DEF TypeOK, ScansFormed

LEMMA ContentsWritten ==
  ASSUME TypeOK, WritesKnown, NEW w \in 0 .. MaxWrites, w # 0, w <= Len(written)
  PROVE  Content(w) \in Contents /\ w \in 1 .. Len(written)
<1>1. w \in 1 .. Len(written)
  BY BoundsAssumption DEF TypeOK
<1> QED
  BY <1>1 DEF TypeOK, Content

LEMMA ReadDoes ==
  ASSUME TypeOK, ScansFormed, NEW s \in Scanners, Read(s)
  PROVE  /\ scan[s].at = "read" /\ ledger' \in [Files -> Rows]
         /\ \/ ToPlace(s, "compare") /\ ledger' = ledger
            \/ /\ Finished(s, scan[s].read + 1) /\ OtherRowsStay(scan[s].file)
               /\ \/ RowStays(scan[s].file)
                  \/ /\ ledger'[scan[s].file].status = ledger[scan[s].file].status
                     /\ ledger'[scan[s].file].seen = disk[scan[s].file]
                     /\ RowNamesTheSame(scan[s].file)
<1> DEFINE file == scan[s].file
           now == disk[file]
<1>1. scan[s].at = "read" /\ scan[s].at \in Working /\ "compare" \in Places
  BY DEF Read, Working, Handling, Places
<1>2. file \in Files /\ now \in 0 .. MaxWrites /\ ledger[file] \in Rows
  BY <1>1, AtWork DEF TypeOK
<1>3. CASE now = Listed(s)
  <2>1. scan' = [scan EXCEPT ![s].at = "compare", ![s].write = scan[s].write]
        /\ ledger' = ledger
    BY <1>3 DEF Read, Listed
  <2>2. scan[s].write \in 0 .. MaxWrites
    BY <1>1, AtWork
  <2>3. ToPlace(s, "compare")
    BY <1>1, <2>1, <2>2, SetWrite DEF ToPlace, TypeOK
  <2> QED
    BY <1>1, <2>1, <2>3 DEF TypeOK
<1>4. CASE now # Listed(s)
  <2>1. /\ ledger' = [f \in Files |->
                   IF f = file /\ ledger[f].status # "none"
                     THEN [ledger[f] EXCEPT !.seen = now, !.stable = FALSE] ELSE ledger[f]]
        /\ Finish(s, 1)
    BY <1>4 DEF Read
  <2>2. Finished(s, scan[s].read + 1)
    BY <1>1, <2>1, AtWork, SetFinish DEF TypeOK
  <2>3. OtherRowsStay(file)
    BY <2>1 DEF OtherRowsStay, RowStays
  <2>4. /\ ledger'[file] \in Rows
        /\ \/ RowStays(file)
           \/ /\ ledger'[file].status = ledger[file].status
              /\ ledger'[file].seen = now /\ RowNamesTheSame(file)
    <3> HIDE DEF now, file
    <3>1. \/ RowStays(file)
          \/ ledger'[file] = [ledger[file] EXCEPT !.seen = now, !.stable = FALSE]
      BY <1>2, <2>1 DEF RowStays
    <3> QED
      BY <1>2, <3>1 DEF RowNamesTheSame, RowStays, Rows
  <2>5. ledger' \in [Files -> Rows]
    BY <2>1, <2>3, <2>4 DEF TypeOK, OtherRowsStay, RowStays
  <2> QED
    BY <1>1, <2>2, <2>3, <2>4, <2>5
<1> QED
  BY <1>3, <1>4

LEMMA CompareDoes ==
  ASSUME Typed, NEW s \in Scanners, Compare(s)
  PROVE  /\ scan[s].at = "compare" /\ ledger' \in [Files -> Rows]
         /\ \/ ledger[scan[s].file].status # "pending_stable" /\ Finished(s, scan[s].read)
               /\ ledger' = ledger
            \/ /\ Finished(s, scan[s].read + 1) /\ OtherRowsStay(scan[s].file)
               /\ ledger'[scan[s].file].status = "duplicate"
               /\ ledger'[scan[s].file].seen = ledger[scan[s].file].seen
               /\ ledger'[scan[s].file].checksum = Content(scan[s].write)
               /\ ledger'[scan[s].file].asset \in Duplicates(Content(scan[s].write))
            \/ /\ Duplicates(Content(scan[s].write)) = {}
               /\ ToPlace(s, "register") /\ ledger' = ledger
<1> DEFINE file == scan[s].file
           content == Content(scan[s].write)
<1>1. scan[s].at = "compare" /\ scan[s].at \in Working /\ "register" \in Places
  BY DEF Compare, Working, Handling, Places
<1>2. /\ file \in Files /\ ledger[file] \in Rows /\ scan[s].read < MaxIngest
      /\ scan \in [Scanners -> Scans] /\ ledger \in [Files -> Rows]
  BY <1>1, AtWork DEF Typed, TypeOK
<1>3. content \in Contents
  BY <1>1, AtWork, ContentsWritten DEF Typed, WritesKnown
<1>4. CASE Row(s).status # "pending_stable"
  <2>1. Finish(s, 0) /\ ledger' = ledger
    BY <1>4 DEF Compare
  <2>2. Finished(s, scan[s].read + 0) /\ scan[s].read + 0 = scan[s].read
    BY <1>1, <1>2, <2>1, AtWork, SetFinish DEF Typed
  <2> QED
    BY <1>1, <1>2, <1>4, <2>1, <2>2 DEF Row
<1>5. CASE \E a \in Duplicates(content) :
                   /\ SetRow(s, [Row(s) EXCEPT !.status = "duplicate", !.checksum = content,
                                              !.asset = a])
                   /\ Finish(s, 1)
  <2>1. PICK a \in Duplicates(content) :
             /\ ledger' = [ledger EXCEPT ![file] = [ledger[file] EXCEPT !.status = "duplicate",
                                !.checksum = content, !.asset = a]]
             /\ Finish(s, 1)
    BY <1>5 DEF SetRow, Row
  <2>2. a \in Assets /\ "duplicate" \in Statuses
    BY DEF Duplicates, Statuses
  <2> HIDE DEF content, file
  <2>3. Finished(s, scan[s].read + 1)
    BY <1>2, <2>1, SetFinish
  <2>4. /\ ledger' \in [Files -> Rows] /\ OtherRowsStay(file)
        /\ ledger'[file] = [ledger[file] EXCEPT !.status = "duplicate",
                                !.checksum = content, !.asset = a]
    <3>1. [ledger[file] EXCEPT !.status = "duplicate", !.checksum = content, !.asset = a] \in Rows
      BY <1>2, <1>3, <2>2 DEF Rows
    <3> QED
      BY <1>2, <2>1, <3>1 DEF OtherRowsStay, RowStays
  <2>5. /\ ledger'[file].status = "duplicate" /\ ledger'[file].seen = ledger[file].seen
        /\ ledger'[file].checksum = content /\ ledger'[file].asset = a
    BY <1>2, <1>3, <2>2, <2>4 DEF Rows
  <2> QED
    BY <1>1, <2>1, <2>3, <2>4, <2>5 DEF content, file
<1>6. CASE Duplicates(content) = {} /\ scan' = [scan EXCEPT ![s].at = "register"]
           /\ ledger' = ledger
  BY <1>1, <1>2, <1>6, SetPlace
<1> QED
  BY <1>4, <1>5, <1>6 DEF Compare, Listed

(* A new asset and the row of its file. *)
NewRow(s, a) ==
    /\ OtherRowsStay(scan[s].file)
    /\ ledger'[scan[s].file].status = "uploaded"
    /\ ledger'[scan[s].file].seen = ledger[scan[s].file].seen
    /\ ledger'[scan[s].file].checksum = Content(scan[s].write)
    /\ ledger'[scan[s].file].asset = a
NewAssetIs(a, content, write) ==
    /\ \A b \in Assets : b # a => asset'[b] = asset[b]
    /\ asset'[a].status = "pending" /\ asset'[a].content = content /\ asset'[a].write = write

LEMMA RegisteredDoes ==
  ASSUME Typed, NEW s \in Scanners, scan[s].at \in Working, NEW a \in Assets,
         NEW object \in BOOLEAN, Registered(s, a, object)
  PROVE  /\ ledger' \in [Files -> Rows] /\ asset' \in [Assets -> AssetRows]
         /\ NewRow(s, a) /\ NewAssetIs(a, Content(scan[s].write), scan[s].write)
         /\ asset'[a].object = object /\ asset'[a].sent = FALSE
<1> DEFINE file == scan[s].file
           w == scan[s].write
           content == Content(w)
           row == [ledger[file] EXCEPT !.status = "uploaded", !.asset = a, !.checksum = content]
           new == [status |-> "pending", content |-> content, write |-> w, object |-> object,
                   sent |-> FALSE]
<1>1. /\ file \in Files /\ ledger[file] \in Rows /\ w \in 0 .. MaxWrites
      /\ ledger \in [Files -> Rows] /\ asset \in [Assets -> AssetRows]
  BY AtWork DEF Typed, TypeOK
<1>2. content \in Contents /\ "uploaded" \in Statuses
  BY AtWork, ContentsWritten DEF Typed, WritesKnown, Statuses
<1>3. ledger' = [ledger EXCEPT ![file] = row] /\ asset' = [asset EXCEPT ![a] = new]
  BY DEF Registered, SetRow, Row, Listed
<1> HIDE DEF file, w, content
<1>4. /\ row \in Rows /\ row.status = "uploaded" /\ row.seen = ledger[file].seen
      /\ row.checksum = content /\ row.asset = a
  BY <1>1, <1>2 DEF Rows
<1>5. /\ new \in AssetRows /\ new.status = "pending" /\ new.content = content /\ new.write = w
      /\ new.object = object /\ new.sent = FALSE
  BY <1>1, <1>2 DEF AssetRows
<1> HIDE DEF row, new
<1>6. ledger' \in [Files -> Rows] /\ OtherRowsStay(file) /\ ledger'[file] = row
  BY <1>1, <1>3, <1>4 DEF OtherRowsStay, RowStays
<1>7. /\ asset' \in [Assets -> AssetRows] /\ asset'[a] = new
      /\ \A b \in Assets : b # a => asset'[b] = asset[b]
  BY <1>1, <1>3, <1>5
<1> QED
  BY <1>4, <1>5, <1>6, <1>7 DEF NewRow, NewAssetIs, file, w, content

LEMMA CommitDoes ==
  ASSUME Typed, NEW s \in Scanners, Commit(s)
  PROVE  /\ scan[s].at = "commit" /\ ledger' \in [Files -> Rows]
         /\ asset' \in [Assets -> AssetRows]
         /\ faults' \in 0 .. MaxFaults
         /\ risks' \subseteq {"lock", "late", "answer"} /\ risks \subseteq risks'
         /\ \E a \in Free :
              /\ NewRow(s, a) /\ NewAssetIs(a, Content(scan[s].write), scan[s].write)
              /\ asset'[a].object \/ "answer" \in risks'
              /\ \/ Finished(s, scan[s].read + 1)
                 \/ Becomes(s, "enqueue", scan[s].todo, scan[s].read, scan[s].file,
                            scan[s].write, a, scan[s].rows)
<1>1. scan[s].at = "commit" /\ scan[s].at \in Working /\ "enqueue" \in Places
  BY DEF Commit, Working, Handling, Places
<1>2. NewAsset \in Free /\ NewAsset \in Assets
  BY NewIsFree DEF Commit, Free
<1>3. scan \in [Scanners -> Scans] /\ scan[s].read < MaxIngest
  BY <1>1, AtWork DEF Typed, TypeOK
<1>4. CASE /\ Registered(s, NewAsset, TRUE)
           /\ scan' = [scan EXCEPT ![s].at = "enqueue", ![s].asset = NewAsset]
           /\ UNCHANGED <<faults, risks>>
  <2>1. /\ ledger' \in [Files -> Rows] /\ asset' \in [Assets -> AssetRows]
        /\ NewRow(s, NewAsset) /\ NewAssetIs(NewAsset, Content(scan[s].write), scan[s].write)
        /\ asset'[NewAsset].object
    BY <1>1, <1>2, <1>4, RegisteredDoes
  <2>2. Becomes(s, "enqueue", scan[s].todo, scan[s].read, scan[s].file,
                            scan[s].write, NewAsset, scan[s].rows)
    BY <1>1, <1>2, <1>3, <1>4, SetAsset
  <2> QED
    BY <1>1, <1>2, <1>4, <2>1, <2>2 DEF Typed, TypeOK
<1>5. CASE /\ faults < MaxFaults /\ faults' = faults + 1
           /\ Registered(s, NewAsset, FALSE)
           /\ Finish(s, 1)
           /\ risks' = risks \cup {"answer"}
  <2>1. /\ ledger' \in [Files -> Rows] /\ asset' \in [Assets -> AssetRows]
        /\ NewRow(s, NewAsset) /\ NewAssetIs(NewAsset, Content(scan[s].write), scan[s].write)
    BY <1>1, <1>2, <1>5, RegisteredDoes
  <2>2. Finished(s, scan[s].read + 1)
    BY <1>3, <1>5, SetFinish
  <2>3. faults' \in 0 .. MaxFaults /\ "answer" \in risks' /\ risks \subseteq risks'
        /\ risks' \subseteq {"lock", "late", "answer"}
    BY <1>5, BoundsAssumption DEF Typed, TypeOK
  <2> QED
    BY <1>1, <1>2, <2>1, <2>2, <2>3
<1> QED
  BY <1>4, <1>5 DEF Commit

LEMMA AssetSent ==
  ASSUME asset \in [Assets -> AssetRows], NEW a \in Assets, NEW sent \in BOOLEAN,
         asset' = [asset EXCEPT ![a].sent = sent]
  PROVE  /\ asset' \in [Assets -> AssetRows] /\ asset'[a].sent = sent /\ AssetIsTheSame(a)
         /\ \A b \in Assets : b # a => asset'[b] = asset[b]
<1> DEFINE new == [asset[a] EXCEPT !.sent = sent]
<1>1. /\ new \in AssetRows /\ new.sent = sent
      /\ new.status = asset[a].status /\ new.content = asset[a].content
      /\ new.write = asset[a].write /\ new.object = asset[a].object
  BY DEF AssetRows
<1>2. asset' = [asset EXCEPT ![a] = new]
  OBVIOUS
<1> HIDE DEF new
<1> QED
  BY <1>1, <1>2 DEF AssetIsTheSame

LEMMA EnqueueDoes ==
  ASSUME Typed, NEW s \in Scanners, Enqueue(s)
  PROVE  /\ scan[s].at = "enqueue" /\ asset' \in [Assets -> AssetRows]
         /\ faults' \in 0 .. MaxFaults
         /\ \A a \in Assets : AssetIsTheSame(a) /\ (asset[a].sent => asset'[a].sent)
         /\ \/ ToPlace(s, "mark") /\ asset'[scan[s].asset].sent
            \/ Finished(s, scan[s].read + 1)
<1>1. /\ scan[s].at = "enqueue" /\ scan[s].at \in Working /\ scan[s].at \in Sending
      /\ "mark" \in Places
  BY DEF Enqueue, Working, Sending, Places
<1>2. /\ scan[s].asset \in Assets /\ scan \in [Scanners -> Scans] /\ scan[s].read < MaxIngest
      /\ asset \in [Assets -> AssetRows] /\ asset[scan[s].asset].sent \in BOOLEAN
  <2>1. scan[s].asset \in Assets /\ asset \in [Assets -> AssetRows]
    BY <1>1 DEF Typed, TypeOK, ScansFormed
  <2> QED
    BY <1>1, <2>1, AtWork, AssetFields DEF Typed, TypeOK
<1>3. ASSUME NEW sent \in BOOLEAN, asset[scan[s].asset].sent => sent,
             asset' = [asset EXCEPT ![scan[s].asset].sent = sent]
      PROVE  /\ asset' \in [Assets -> AssetRows] /\ asset'[scan[s].asset].sent = sent
             /\ \A a \in Assets : AssetIsTheSame(a) /\ (asset[a].sent => asset'[a].sent)
  BY <1>2, <1>3, AssetSent DEF AssetIsTheSame
<1>4. CASE /\ asset' = [asset EXCEPT ![scan[s].asset].sent = TRUE]
           /\ scan' = [scan EXCEPT ![s].at = "mark"]
           /\ UNCHANGED faults
  BY <1>1, <1>2, <1>3, <1>4, SetPlace DEF Typed, TypeOK
<1>5. CASE /\ faults < MaxFaults /\ faults' = faults + 1
           /\ \E arrived \in BOOLEAN :
               asset' = [asset EXCEPT ![scan[s].asset].sent = @ \/ arrived]
           /\ Finish(s, 1)
  <2>1. PICK arrived \in BOOLEAN :
               asset' = [asset EXCEPT ![scan[s].asset].sent = asset[scan[s].asset].sent \/ arrived]
    BY <1>5
  <2>2. faults' \in 0 .. MaxFaults
    BY <1>5, BoundsAssumption DEF Typed, TypeOK
  <2>3. Finished(s, scan[s].read + 1)
    BY <1>2, <1>5, SetFinish
  <2> QED
    BY <1>1, <1>2, <1>3, <2>1, <2>2, <2>3
<1> QED
  BY <1>4, <1>5 DEF Enqueue

LEMMA MarkDoes ==
  ASSUME Typed, NEW s \in Scanners, Mark(s)
  PROVE  /\ scan[s].at = "mark" /\ ledger' \in [Files -> Rows]
         /\ Finished(s, scan[s].read + 1) /\ OtherRowsStay(scan[s].file)
         /\ \/ RowStays(scan[s].file) /\ ledger[scan[s].file].status # "uploaded"
            \/ /\ ledger[scan[s].file].status = "uploaded"
               /\ ledger'[scan[s].file].status = "done"
               /\ ledger'[scan[s].file].seen = ledger[scan[s].file].seen
               /\ RowNamesTheSame(scan[s].file)
<1> DEFINE file == scan[s].file
<1>1. scan[s].at = "mark" /\ scan[s].at \in Working /\ "done" \in Statuses
  BY DEF Mark, Working, Sending, Statuses
<1>2. Finished(s, scan[s].read + 1)
  BY <1>1, AtWork, SetFinish DEF Typed, TypeOK, Mark
<1>3. file \in Files /\ ledger \in [Files -> Rows]
  BY <1>1, AtWork DEF Typed, TypeOK
<1>4. ledger' = [f \in Files |->
         IF f = file /\ ledger[f].status = "uploaded"
           THEN [ledger[f] EXCEPT !.status = "done"] ELSE ledger[f]]
  BY DEF Mark
<1> HIDE DEF file
<1>5. OtherRowsStay(file)
  BY <1>4 DEF OtherRowsStay, RowStays
<1>6. /\ ledger'[file] \in Rows
      /\ \/ RowStays(file) /\ ledger[file].status # "uploaded"
         \/ /\ ledger[file].status = "uploaded" /\ ledger'[file].status = "done"
            /\ ledger'[file].seen = ledger[file].seen /\ RowNamesTheSame(file)
  BY <1>1, <1>3, <1>4, RowWithStatus DEF RowStays, RowNamesTheSame
<1>7. ledger' \in [Files -> Rows]
  BY <1>3, <1>4, <1>5, <1>6 DEF OtherRowsStay, RowStays
<1> QED
  BY <1>1, <1>2, <1>5, <1>6, <1>7 DEF file

LEMMA RaiseDoes ==
  ASSUME Typed, NEW s \in Scanners, Raise(s)
  PROVE  /\ scan[s].at \in Handling /\ ledger' \in [Files -> Rows]
         /\ faults' \in 0 .. MaxFaults
         /\ Finished(s, scan[s].read + 1) /\ OtherRowsStay(scan[s].file)
         /\ \/ RowStays(scan[s].file)
            \/ /\ ledger[scan[s].file].status \notin {"none", "uploaded"}
               /\ ledger'[scan[s].file].status = "error"
               /\ ledger'[scan[s].file].seen = ledger[scan[s].file].seen
               /\ RowNamesTheSame(scan[s].file)
<1> DEFINE file == scan[s].file
<1>1. scan[s].at \in Handling /\ scan[s].at \in Working /\ "error" \in Statuses
  BY DEF Raise, Working, Handling, Statuses
<1>2. Finished(s, scan[s].read + 1)
  BY <1>1, AtWork, SetFinish DEF Typed, TypeOK, Raise
<1>3. file \in Files /\ ledger \in [Files -> Rows]
  BY <1>1, AtWork DEF Typed, TypeOK
<1>4. PICK cost \in {0, 1}, recorded \in BOOLEAN :
         /\ faults' = faults + cost + (IF recorded THEN 0 ELSE 1)
         /\ faults' <= MaxFaults
         /\ ledger' = [f \in Files |->
              IF recorded /\ f = file /\ ledger[f].status \notin {"none", "uploaded"}
                THEN [ledger[f] EXCEPT !.status = "error"] ELSE ledger[f]]
  <2>1. \A b \in BOOLEAN : (IF b THEN 0 ELSE 1) \in {0, 1}
    OBVIOUS
  <2> QED
    BY <2>1 DEF Raise
<1>5. faults' \in 0 .. MaxFaults
  BY <1>4, BoundsAssumption DEF Typed, TypeOK
<1> HIDE DEF file
<1>6. OtherRowsStay(file)
  BY <1>4 DEF OtherRowsStay, RowStays
<1>7. /\ ledger'[file] \in Rows
      /\ \/ RowStays(file)
         \/ /\ ledger[file].status \notin {"none", "uploaded"} /\ ledger'[file].status = "error"
            /\ ledger'[file].seen = ledger[file].seen /\ RowNamesTheSame(file)
  BY <1>1, <1>3, <1>4, RowWithStatus DEF RowStays, RowNamesTheSame
<1>8. ledger' \in [Files -> Rows]
  BY <1>3, <1>4, <1>6, <1>7 DEF OtherRowsStay, RowStays
<1> QED
  BY <1>1, <1>2, <1>5, <1>6, <1>7, <1>8 DEF file

-----------------------------------------------------------------------------
(* The steps that move a scan and change nothing else but the lock. *)
LEMMA AcquireDoes ==
  ASSUME TypeOK, NEW s \in Scanners, Acquire(s)
  PROVE  /\ scan[s].at = "idle" /\ lock = None /\ lock' = s
         /\ Becomes(s, "reopen", disk, scan[s].read, scan[s].file, scan[s].write, scan[s].asset,
                    scan[s].rows)
<1>1. "reopen" \in Places
  BY DEF Places
<1> QED
  BY <1>1, SetTodo DEF Acquire, TypeOK

LEMMA RegisterDoes ==
  ASSUME Typed, NEW s \in Scanners, Register(s)
  PROVE  /\ scan[s].at = "register"
         /\ \/ ToPlace(s, "commit")
            \/ Finished(s, scan[s].read)
<1>1. scan[s].at = "register" /\ scan[s].at \in Working /\ "commit" \in Places
  BY DEF Register, Working, Handling, Places
<1>2. /\ scan \in [Scanners -> Scans] /\ scan[s].read < MaxIngest
      /\ scan[s].read + 0 = scan[s].read
  BY <1>1, AtWork DEF Typed, TypeOK
<1>3. CASE Finish(s, 0)
  <2>1. Finished(s, scan[s].read + 0)
    BY <1>2, <1>3, SetFinish
  <2> QED
    BY <1>1, <1>2, <2>1
<1>4. CASE scan' = [scan EXCEPT ![s].at = "commit"]
  BY <1>1, <1>2, <1>4, SetPlace
<1> QED
  BY <1>3, <1>4 DEF Register

LEMMA RenewDoes ==
  ASSUME TypeOK, NEW s \in Scanners, Renew(s)
  PROVE  /\ scan[s].at = "renew"
         /\ \/ lock = s /\ ToPlace(s, "files")
            \/ ToIdle(s) /\ scan'[s] = Idle
<1>1. "files" \in Places
  BY DEF Places
<1> QED
  BY <1>1, SetPlace, SetIdle DEF Renew, TypeOK

Stop(s) == End(s) \/ Abort(s) \/ Crash(s)

LEMMA StopDoes ==
  ASSUME TypeOK, NEW s \in Scanners, Stop(s)
  PROVE  /\ scan[s].at # "idle" /\ ToIdle(s) /\ scan'[s] = Idle
         /\ lock' = lock \/ (lock = s /\ lock' = None)
         /\ faults' \in 0 .. MaxFaults
         /\ UNCHANGED <<World, ledger, asset, risks>>
<1>1. ToIdle(s) /\ scan'[s] = Idle
  BY SetIdle DEF Stop, End, Abort, Crash, TypeOK
<1>2. faults' \in 0 .. MaxFaults
  BY BoundsAssumption DEF Stop, End, Abort, Crash, TypeOK
<1> QED
  BY <1>1, <1>2 DEF Stop, End, Abort, Crash, Released

(* The steps of people and of the pipeline. *)
LEMMA UploadDoes ==
  ASSUME Typed, NEW c \in Contents, Upload(c)
  PROVE  /\ asset' \in [Assets -> AssetRows]
         /\ \E a \in Free : NewAssetIs(a, c, 0) /\ asset'[a].object /\ asset'[a].sent
<1> DEFINE new == [status |-> "pending", content |-> c, write |-> 0, object |-> TRUE,
                   sent |-> TRUE]
<1>1. Free # {}
  <2>1. CASE Free = {}
    BY <2>1, FS_EmptySet, BoundsAssumption DEF Upload
  <2> QED
    BY <2>1
<1>2. NewAsset \in Free /\ NewAsset \in Assets
  BY <1>1, NewIsFree DEF Free
<1>3. /\ new \in AssetRows /\ new.status = "pending" /\ new.content = c /\ new.write = 0
      /\ new.object = TRUE /\ new.sent = TRUE
  BY BoundsAssumption DEF AssetRows
<1>4. asset' = [asset EXCEPT ![NewAsset] = new] /\ asset \in [Assets -> AssetRows]
  BY DEF Upload, Typed, TypeOK
<1> HIDE DEF new
<1> QED
  BY <1>2, <1>3, <1>4 DEF NewAssetIs

(* An asset that is ready, failed or deleted from now on. *)
LEMMA SettleDoes ==
  ASSUME Typed, NEW a \in Assets, Parse(a) \/ Delete(a)
  PROVE  /\ asset' \in [Assets -> AssetRows]
         /\ \A b \in Assets : b # a => asset'[b] = asset[b]
         /\ Usable(a) /\ asset'[a].status \in {"ready", "gone"}
         /\ asset'[a].content = asset[a].content /\ asset'[a].write = asset[a].write
         /\ asset'[a].object = asset[a].object /\ asset'[a].sent = asset[a].sent
<1>1. PICK status \in {"ready", "gone"} : asset' = [asset EXCEPT ![a].status = status]
  BY DEF Parse, Delete
<1>2. Usable(a)
  BY DEF Parse, Delete, Usable
<1>3. asset \in [Assets -> AssetRows] /\ asset[a] \in AssetRows
  BY DEF Typed, TypeOK
<1> DEFINE new == [asset[a] EXCEPT !.status = status]
<1>4. /\ new \in AssetRows /\ new.status = status
      /\ new.sent = asset[a].sent /\ new.content = asset[a].content
      /\ new.write = asset[a].write /\ new.object = asset[a].object
  BY <1>3 DEF AssetRows
<1>5. asset' = [asset EXCEPT ![a] = new]
  BY <1>1
<1> HIDE DEF new
<1> QED
  BY <1>2, <1>3, <1>4, <1>5

LEMMA AgeDoes ==
  ASSUME TypeOK, NEW f \in Files, Age(f)
  PROVE  /\ ledger' \in [Files -> Rows]
         /\ \A g \in Files : /\ ledger'[g].status = ledger[g].status
                             /\ ledger'[g].seen = ledger[g].seen /\ RowNamesTheSame(g)
<1> DEFINE new == [ledger[f] EXCEPT !.stable = TRUE]
<1>1. ledger \in [Files -> Rows] /\ ledger[f] \in Rows
  BY DEF TypeOK
<1>2. /\ new \in Rows /\ new.status = ledger[f].status /\ new.seen = ledger[f].seen
      /\ new.checksum = ledger[f].checksum /\ new.asset = ledger[f].asset
  BY <1>1 DEF Rows
<1>3. ledger' = [ledger EXCEPT ![f] = new]
  BY DEF Age
<1> HIDE DEF new
<1>4. ledger'[f] = new /\ \A g \in Files : g # f => ledger'[g] = ledger[g]
  BY <1>1, <1>3
<1>5. ledger' \in [Files -> Rows]
  BY <1>1, <1>2, <1>3
<1>6. ASSUME NEW g \in Files
      PROVE  /\ ledger'[g].status = ledger[g].status
             /\ ledger'[g].seen = ledger[g].seen /\ RowNamesTheSame(g)
  BY <1>2, <1>4 DEF RowNamesTheSame
<1> QED
  BY <1>5, <1>6

LEMMA WriteDoes ==
  ASSUME Typed, NEW f \in Files, NEW c \in Contents, Write(f, c)
  PROVE  /\ written' \in Seq(Contents) /\ Len(written') = Len(written) + 1
         /\ Len(written) \in Nat /\ Len(written') <= MaxWrites
         /\ \A w \in 1 .. Len(written) : written'[w] = written[w]
         /\ disk' \in [Files -> 0 .. MaxWrites] /\ disk'[f] = Len(written) + 1
         /\ \A g \in Files : g # f => disk'[g] = disk[g]
<1>1. /\ written \in Seq(Contents) /\ Len(written) < MaxWrites
      /\ written' = Append(written, c) /\ disk' = [disk EXCEPT ![f] = Len(written')]
      /\ disk \in [Files -> 0 .. MaxWrites]
  BY DEF Write, Typed, TypeOK
<1>2. /\ written' \in Seq(Contents) /\ Len(written') = Len(written) + 1 /\ Len(written) \in Nat
      /\ \A w \in 1 .. Len(written) : written'[w] = written[w]
  BY <1>1
<1>3. Len(written') \in 0 .. MaxWrites
  BY <1>1, <1>2, BoundsAssumption
<1> QED
  BY <1>1, <1>2, <1>3

-----------------------------------------------------------------------------
(* A step that leaves the contents, the ledger and the assets alone, and the others. *)
Quiet == written' = written /\ ledger' = ledger /\ asset' = asset

LEMMA StepKinds ==
  ASSUME [Next]_vars
  PROVE  \/ Quiet
         \/ \E s \in Scanners : \/ Reopen(s) \/ Observe(s) \/ Resume(s) \/ Resumed(s) \/ Read(s)
                                \/ Compare(s) \/ Commit(s) \/ Enqueue(s) \/ Mark(s) \/ Raise(s)
         \/ \E f \in Files : Age(f) \/ \E c \in Contents : Write(f, c)
         \/ \E c \in Contents : Upload(c)
         \/ \E a \in Assets : Parse(a) \/ Delete(a)
<1>1. ASSUME NEW s \in Scanners,
             \/ Acquire(s) \/ Check(s) \/ Register(s) \/ Renew(s) \/ End(s)
             \/ Abort(s) \/ Crash(s) \/ Expire(s) \/ Outlive(s)
      PROVE  Quiet
  BY <1>1 DEF Quiet, Acquire, Check, Register, Renew, End, Abort, Crash, Expire, Outlive, World
<1>2. ASSUME NEW f \in Files, Remove(f) PROVE Quiet
  BY <1>2 DEF Quiet, Remove
<1>3. ASSUME UNCHANGED vars PROVE Quiet
  BY <1>3 DEF Quiet, vars
<1> QED
  BY <1>1, <1>2, <1>3 DEF Next, Step

(* What the steps leave alone. *)
OnlyLedger == written' = written /\ disk' = disk /\ asset' = asset /\ lock' = lock /\ risks' = risks
OnlyAssets == written' = written /\ disk' = disk /\ ledger' = ledger /\ lock' = lock /\ risks' = risks
OnlyScan == written' = written /\ disk' = disk /\ ledger' = ledger /\ asset' = asset

LEMMA LeavesAlone ==
  ASSUME NEW s \in Scanners
  PROVE  /\ Reopen(s) \/ Observe(s) \/ Resumed(s) \/ Read(s) \/ Compare(s) \/ Mark(s) \/ Raise(s)
              => OnlyLedger
         /\ Resume(s) \/ Enqueue(s) => OnlyAssets
         /\ Check(s) \/ Register(s) \/ Renew(s) => OnlyScan /\ lock' = lock
         /\ Register(s) \/ Renew(s) => risks' = risks
         /\ Acquire(s) \/ Stop(s) => OnlyScan /\ risks' = risks
         /\ Expire(s) \/ Outlive(s) => OnlyScan /\ scan' = scan /\ lock = s /\ lock' = None
         /\ Expire(s) => scan[s].at = "idle" /\ risks' = risks
         /\ Outlive(s) => risks' = risks \cup {"lock"}
         /\ Commit(s) => written' = written /\ disk' = disk /\ lock' = lock
<1>1. Reopen(s) \/ Observe(s) \/ Resumed(s) \/ Read(s) \/ Compare(s) \/ Mark(s) \/ Raise(s)
        => OnlyLedger
  BY DEF OnlyLedger, Reopen, Observe, Resumed, Read, Compare, Mark, Raise, World
<1>2. Resume(s) \/ Enqueue(s) => OnlyAssets
  BY DEF OnlyAssets, Resume, Enqueue, World
<1>3. Check(s) \/ Register(s) \/ Renew(s) => OnlyScan /\ lock' = lock
  BY DEF OnlyScan, Check, Register, Renew, World
<1>4. Register(s) \/ Renew(s) => risks' = risks
  BY DEF Register, Renew
<1>5. Acquire(s) \/ Stop(s) => OnlyScan /\ risks' = risks
  BY DEF OnlyScan, Acquire, Stop, End, Abort, Crash, World
<1>6. Expire(s) \/ Outlive(s) => OnlyScan /\ scan' = scan /\ lock = s /\ lock' = None
  BY DEF OnlyScan, Expire, Outlive, World
<1>7. (Expire(s) => scan[s].at = "idle" /\ risks' = risks)
      /\ (Outlive(s) => risks' = risks \cup {"lock"})
  BY DEF Expire, Outlive
<1>8. Commit(s) => written' = written /\ disk' = disk /\ lock' = lock
  BY DEF Commit, World
<1> QED
  BY <1>1, <1>2, <1>3, <1>4, <1>5, <1>6, <1>7, <1>8

OnlyWorld == ledger' = ledger /\ asset' = asset /\ lock' = lock /\ scan' = scan /\ risks' = risks

LEMMA RemoveDoes ==
  ASSUME TypeOK, NEW f \in Files, Remove(f)
  PROVE  /\ OnlyWorld /\ written' = written /\ disk'[f] = 0
         /\ \A g \in Files : g # f => disk'[g] = disk[g]
  BY DEF Remove, OnlyWorld, TypeOK

LEMMA PeopleLeaveAlone ==
  /\ \A f \in Files, c \in Contents : Write(f, c) => OnlyWorld
  /\ \A f \in Files : Age(f) => OnlyLedger /\ scan' = scan
  /\ \A c \in Contents : Upload(c) => OnlyAssets /\ scan' = scan
  /\ \A a \in Assets : Parse(a) \/ Delete(a) => OnlyAssets /\ scan' = scan
<1>1. \A f \in Files, c \in Contents : Write(f, c) => OnlyWorld
  BY DEF Write, OnlyWorld
<1>2. \A f \in Files : Age(f) => OnlyLedger /\ scan' = scan
  BY DEF Age, OnlyLedger, World
<1>3. \A c \in Contents : Upload(c) => OnlyAssets /\ scan' = scan
  BY DEF Upload, OnlyAssets, World
<1>4. \A a \in Assets : Parse(a) \/ Delete(a) => OnlyAssets /\ scan' = scan
  BY DEF Parse, Delete, OnlyAssets, World
<1> QED
  BY <1>1, <1>2, <1>3, <1>4

LEMMA TypesKept ==
  ASSUME Typed, [Next]_vars
  PROVE  TypeOK'
<1>1. ASSUME NEW s \in Scanners, Acquire(s)
      PROVE  TypeOK'
  BY <1>1, AcquireDoes DEF Acquire, World, Typed, TypeOK, Becomes
<1>2. ASSUME NEW s \in Scanners, Reopen(s)
      PROVE  TypeOK'
  BY <1>2, ReopenDoes DEF Reopen, World, Typed, TypeOK, Becomes, ToPlace
<1>3. ASSUME NEW s \in Scanners, Observe(s)
      PROVE  TypeOK'
  BY <1>3, ObserveDoes DEF Observe, World, Typed, TypeOK, Becomes
<1>4. ASSUME NEW s \in Scanners, Resume(s)
      PROVE  TypeOK'
  BY <1>4, ResumeDoes DEF Resume, World, Typed, TypeOK, Becomes
<1>5. ASSUME NEW s \in Scanners, Resumed(s)
      PROVE  TypeOK'
  BY <1>5, ResumedDoes DEF Resumed, World, Typed, TypeOK, Becomes
<1>6. ASSUME NEW s \in Scanners, Check(s)
      PROVE  TypeOK'
  BY <1>6, CheckDoes DEF Check, World, Typed, TypeOK, Becomes
<1>7. ASSUME NEW s \in Scanners, Read(s)
      PROVE  TypeOK'
  BY <1>7, ReadDoes DEF Read, World, Typed, TypeOK, Becomes, Finished, ToPlace
<1>8. ASSUME NEW s \in Scanners, Compare(s)
      PROVE  TypeOK'
  BY <1>8, CompareDoes DEF Compare, World, Typed, TypeOK, Becomes, Finished, ToPlace
<1>9. ASSUME NEW s \in Scanners, Register(s)
      PROVE  TypeOK'
  BY <1>9, RegisterDoes DEF Register, World, Typed, TypeOK, Becomes, Finished, ToPlace
<1>10. ASSUME NEW s \in Scanners, Commit(s)
      PROVE  TypeOK'
  BY <1>10, CommitDoes DEF Commit, World, Typed, TypeOK, Becomes, Finished, ToPlace
<1>11. ASSUME NEW s \in Scanners, Enqueue(s)
      PROVE  TypeOK'
  BY <1>11, EnqueueDoes DEF Enqueue, World, Typed, TypeOK, Becomes, Finished, ToPlace
<1>12. ASSUME NEW s \in Scanners, Mark(s)
      PROVE  TypeOK'
  BY <1>12, MarkDoes DEF Mark, World, Typed, TypeOK, Becomes, Finished, ToPlace
<1>13. ASSUME NEW s \in Scanners, Raise(s)
      PROVE  TypeOK'
  BY <1>13, RaiseDoes DEF Raise, World, Typed, TypeOK, Becomes, Finished, ToPlace
<1>14. ASSUME NEW s \in Scanners, Renew(s)
      PROVE  TypeOK'
  BY <1>14, RenewDoes DEF Renew, World, Typed, TypeOK, Becomes, ToPlace, ToIdle
<1>15. ASSUME NEW s \in Scanners, Stop(s)
      PROVE  TypeOK'
  BY <1>15, StopDoes DEF World, Typed, TypeOK, Becomes, ToIdle
<1>16. ASSUME NEW s \in Scanners, Expire(s)
      PROVE  TypeOK'
  BY <1>16 DEF Expire, World, Typed, TypeOK
<1>17. ASSUME NEW s \in Scanners, Outlive(s)
      PROVE  TypeOK'
  BY <1>17, BoundsAssumption DEF Outlive, World, Typed, TypeOK
<1>18. ASSUME NEW f \in Files, Remove(f)
      PROVE  TypeOK'
  BY <1>18, BoundsAssumption DEF Remove, Typed, TypeOK
<1>19. ASSUME NEW f \in Files, Age(f)
      PROVE  TypeOK'
  BY <1>19, AgeDoes DEF Age, World, Typed, TypeOK
<1>20. ASSUME NEW f \in Files, NEW c \in Contents, Write(f, c)
      PROVE  TypeOK'
  BY <1>20, WriteDoes DEF Write, Typed, TypeOK
<1>21. ASSUME NEW c \in Contents, Upload(c)
      PROVE  TypeOK'
  BY <1>21, UploadDoes DEF Upload, World, Typed, TypeOK
<1>22. ASSUME NEW a \in Assets, Parse(a) \/ Delete(a)
      PROVE  TypeOK'
  BY <1>22, SettleDoes DEF Parse, Delete, World, Typed, TypeOK
<1>23. ASSUME UNCHANGED vars PROVE TypeOK'
  BY <1>23 DEF vars, Typed, TypeOK
<1> QED
  BY <1>1, <1>2, <1>3, <1>4, <1>5, <1>6, <1>7, <1>8, <1>9, <1>10, <1>11, <1>12, <1>13, <1>14,
       <1>15, <1>16, <1>17, <1>18, <1>19, <1>20, <1>21, <1>22, <1>23 DEF Next, Step, Stop

LEMMA WritesStayKnown ==
  ASSUME Typed, [Next]_vars
  PROVE  WritesKnown'
<1>0. Len(written) \in Nat /\ TypeOK /\ ScansFormed /\ WritesKnown
  BY Numbers DEF Typed
<1>1. ASSUME NEW s \in Scanners, Acquire(s)
      PROVE  WritesKnown'
  BY <1>1, AcquireDoes, LeavesAlone, <1>0 DEF OnlyScan, Becomes, WritesKnown
<1>2. ASSUME NEW s \in Scanners, Reopen(s)
      PROVE  WritesKnown'
  BY <1>2, ReopenDoes, LeavesAlone, <1>0
     DEF OnlyLedger, Becomes, ToPlace, RowStays, RowNamesTheSame, WritesKnown
<1>3. ASSUME NEW s \in Scanners, Observe(s)
      PROVE  WritesKnown'
  BY <1>3, ObserveDoes, LeavesAlone, <1>0
     DEF OnlyLedger, Becomes, Lists, RowStays, RowNamesTheSame, WritesKnown, NoRow
<1>4. ASSUME NEW s \in Scanners, Resume(s)
      PROVE  WritesKnown'
  BY <1>4, ResumeDoes, LeavesAlone, <1>0 DEF OnlyAssets, Becomes, AssetIsTheSame, WritesKnown
<1>5. ASSUME NEW s \in Scanners, Resumed(s)
      PROVE  WritesKnown'
  BY <1>5, ResumedDoes, LeavesAlone, <1>0
     DEF OnlyLedger, Becomes, RowStays, RowNamesTheSame, WritesKnown
<1>6. ASSUME NEW s \in Scanners, Check(s)
      PROVE  WritesKnown'
  BY <1>6, CheckDoes, LeavesAlone, <1>0 DEF OnlyScan, Becomes, WritesKnown
<1>7. ASSUME NEW s \in Scanners, Read(s)
      PROVE  WritesKnown'
  BY <1>7, ReadDoes, LeavesAlone, <1>0
     DEF OnlyLedger, Becomes, Finished, ToPlace, OtherRowsStay, RowStays, RowNamesTheSame,
          WritesKnown
<1>8. ASSUME NEW s \in Scanners, Compare(s)
      PROVE  WritesKnown'
  BY <1>8, CompareDoes, LeavesAlone, <1>0
     DEF OnlyLedger, Becomes, Finished, ToPlace, OtherRowsStay, RowStays, WritesKnown
<1>9. ASSUME NEW s \in Scanners, Register(s)
      PROVE  WritesKnown'
  BY <1>9, RegisterDoes, LeavesAlone, <1>0 DEF OnlyScan, Becomes, Finished, ToPlace, WritesKnown
<1>10. ASSUME NEW s \in Scanners, Commit(s)
      PROVE  WritesKnown'
  BY <1>10, CommitDoes, LeavesAlone, <1>0
     DEF Becomes, Finished, NewRow, NewAssetIs, OtherRowsStay, RowStays, WritesKnown
<1>11. ASSUME NEW s \in Scanners, Enqueue(s)
      PROVE  WritesKnown'
  BY <1>11, EnqueueDoes, LeavesAlone, <1>0
     DEF OnlyAssets, Becomes, Finished, ToPlace, AssetIsTheSame, WritesKnown
<1>12. ASSUME NEW s \in Scanners, Mark(s)
      PROVE  WritesKnown'
  BY <1>12, MarkDoes, LeavesAlone, <1>0
     DEF OnlyLedger, Becomes, Finished, OtherRowsStay, RowStays, RowNamesTheSame, WritesKnown
<1>13. ASSUME NEW s \in Scanners, Raise(s)
      PROVE  WritesKnown'
  BY <1>13, RaiseDoes, LeavesAlone, <1>0
     DEF OnlyLedger, Becomes, Finished, OtherRowsStay, RowStays, RowNamesTheSame, WritesKnown
<1>14. ASSUME NEW s \in Scanners, Renew(s)
      PROVE  WritesKnown'
  BY <1>14, RenewDoes, LeavesAlone, <1>0 DEF OnlyScan, Becomes, ToPlace, ToIdle, WritesKnown
<1>15. ASSUME NEW s \in Scanners, Stop(s)
      PROVE  WritesKnown'
  BY <1>15, StopDoes, LeavesAlone, <1>0 DEF OnlyScan, Becomes, ToIdle, WritesKnown
<1>16. ASSUME NEW s \in Scanners, Expire(s)
      PROVE  WritesKnown'
  BY <1>16, LeavesAlone, <1>0 DEF OnlyScan, WritesKnown
<1>17. ASSUME NEW s \in Scanners, Outlive(s)
      PROVE  WritesKnown'
  BY <1>17, LeavesAlone, <1>0 DEF OnlyScan, WritesKnown
<1>18. ASSUME NEW f \in Files, Remove(f)
      PROVE  WritesKnown'
  BY <1>18, RemoveDoes, <1>0 DEF OnlyWorld, WritesKnown
<1>19. ASSUME NEW f \in Files, Age(f)
      PROVE  WritesKnown'
  BY <1>19, AgeDoes, PeopleLeaveAlone, <1>0 DEF OnlyLedger, RowNamesTheSame, WritesKnown
<1>20. ASSUME NEW f \in Files, NEW c \in Contents, Write(f, c)
      PROVE  WritesKnown'
  BY <1>20, WriteDoes, PeopleLeaveAlone, <1>0, Numbers DEF OnlyWorld, WritesKnown
<1>21. ASSUME NEW c \in Contents, Upload(c)
      PROVE  WritesKnown'
  BY <1>21, UploadDoes, PeopleLeaveAlone, <1>0 DEF OnlyAssets, NewAssetIs, WritesKnown
<1>22. ASSUME NEW a \in Assets, Parse(a) \/ Delete(a)
      PROVE  WritesKnown'
  BY <1>22, SettleDoes, PeopleLeaveAlone, <1>0 DEF OnlyAssets, WritesKnown
<1>23. ASSUME UNCHANGED vars PROVE WritesKnown'
  BY <1>23 DEF vars, WritesKnown, Typed
<1> QED
  BY <1>1, <1>2, <1>3, <1>4, <1>5, <1>6, <1>7, <1>8, <1>9, <1>10, <1>11, <1>12, <1>13, <1>14,
       <1>15, <1>16, <1>17, <1>18, <1>19, <1>20, <1>21, <1>22, <1>23 DEF Next, Step, Stop

LEMMA ScansStayFormed ==
  ASSUME Typed, [Next]_vars
  PROVE  ScansFormed'
<1>0. TypeOK /\ ScansFormed
  BY DEF Typed
<1>1. ASSUME NEW s \in Scanners, Acquire(s)
      PROVE  ScansFormed'
  BY <1>1, AcquireDoes, LeavesAlone, <1>0
     DEF OnlyScan, Becomes, ScansFormed, Working, Handling, Sending
<1>2. ASSUME NEW s \in Scanners, Reopen(s)
      PROVE  ScansFormed'
  BY <1>2, ReopenDoes, LeavesAlone, <1>0
     DEF OnlyLedger, Becomes, ToPlace, ScansFormed, Working, Handling, Sending
<1>3. ASSUME NEW s \in Scanners, Observe(s)
      PROVE  ScansFormed'
  BY <1>3, ObserveDoes, LeavesAlone, <1>0
     DEF OnlyLedger, Becomes, ScansFormed, Working, Handling, Sending
<1>4. ASSUME NEW s \in Scanners, Resume(s)
      PROVE  ScansFormed'
  BY <1>4, ResumeDoes, LeavesAlone, <1>0
     DEF OnlyAssets, Becomes, ScansFormed, Working, Handling, Sending
<1>5. ASSUME NEW s \in Scanners, Resumed(s)
      PROVE  ScansFormed'
  BY <1>5, ResumedDoes, LeavesAlone, <1>0
     DEF OnlyLedger, Becomes, ScansFormed, Working, Handling, Sending
<1>6. ASSUME NEW s \in Scanners, Check(s)
      PROVE  ScansFormed'
  BY <1>6, CheckDoes, LeavesAlone, <1>0
     DEF OnlyScan, Becomes, ScansFormed, Working, Handling, Sending
<1>7. ASSUME NEW s \in Scanners, Read(s)
      PROVE  ScansFormed'
  BY <1>7, ReadDoes, LeavesAlone, <1>0
     DEF OnlyLedger, Becomes, Finished, ToPlace, ScansFormed, Working, Handling, Sending
<1>8. ASSUME NEW s \in Scanners, Compare(s)
      PROVE  ScansFormed'
  BY <1>8, CompareDoes, LeavesAlone, <1>0
     DEF OnlyLedger, Becomes, Finished, ToPlace, ScansFormed, Working, Handling, Sending
<1>9. ASSUME NEW s \in Scanners, Register(s)
      PROVE  ScansFormed'
  BY <1>9, RegisterDoes, LeavesAlone, <1>0
     DEF OnlyScan, Becomes, Finished, ToPlace, ScansFormed, Working, Handling, Sending
<1>10. ASSUME NEW s \in Scanners, Commit(s)
      PROVE  ScansFormed'
  BY <1>10, CommitDoes, LeavesAlone, <1>0
     DEF Becomes, Finished, ScansFormed, Working, Handling, Sending, Free
<1>11. ASSUME NEW s \in Scanners, Enqueue(s)
      PROVE  ScansFormed'
  BY <1>11, EnqueueDoes, LeavesAlone, <1>0
     DEF OnlyAssets, Becomes, Finished, ToPlace, ScansFormed, Working, Handling, Sending
<1>12. ASSUME NEW s \in Scanners, Mark(s)
      PROVE  ScansFormed'
  BY <1>12, MarkDoes, LeavesAlone, <1>0
     DEF OnlyLedger, Becomes, Finished, ScansFormed, Working, Handling, Sending
<1>13. ASSUME NEW s \in Scanners, Raise(s)
      PROVE  ScansFormed'
  BY <1>13, RaiseDoes, LeavesAlone, <1>0
     DEF OnlyLedger, Becomes, Finished, ScansFormed, Working, Handling, Sending
<1>14. ASSUME NEW s \in Scanners, Renew(s)
      PROVE  ScansFormed'
  BY <1>14, RenewDoes, LeavesAlone, <1>0
     DEF OnlyScan, Becomes, ToPlace, ToIdle, ScansFormed, Working, Handling, Sending
<1>15. ASSUME NEW s \in Scanners, Stop(s)
      PROVE  ScansFormed'
  BY <1>15, StopDoes, LeavesAlone, <1>0
     DEF OnlyScan, Becomes, ToIdle, ScansFormed, Working, Handling, Sending
<1>16. ASSUME NEW s \in Scanners, Expire(s)
      PROVE  ScansFormed'
  BY <1>16, LeavesAlone, <1>0 DEF ScansFormed
<1>17. ASSUME NEW s \in Scanners, Outlive(s)
      PROVE  ScansFormed'
  BY <1>17, LeavesAlone, <1>0 DEF ScansFormed
<1>18. ASSUME NEW f \in Files, Remove(f)
      PROVE  ScansFormed'
  BY <1>18, RemoveDoes, <1>0 DEF ScansFormed, OnlyWorld
<1>19. ASSUME NEW f \in Files, Age(f)
      PROVE  ScansFormed'
  BY <1>19, PeopleLeaveAlone, <1>0 DEF ScansFormed
<1>20. ASSUME NEW f \in Files, NEW c \in Contents, Write(f, c)
      PROVE  ScansFormed'
  BY <1>20, PeopleLeaveAlone, <1>0 DEF ScansFormed, OnlyWorld
<1>21. ASSUME NEW c \in Contents, Upload(c)
      PROVE  ScansFormed'
  BY <1>21, PeopleLeaveAlone, <1>0 DEF ScansFormed
<1>22. ASSUME NEW a \in Assets, Parse(a) \/ Delete(a)
      PROVE  ScansFormed'
  BY <1>22, PeopleLeaveAlone, <1>0 DEF ScansFormed
<1>23. ASSUME UNCHANGED vars PROVE ScansFormed'
  BY <1>23 DEF vars, ScansFormed, Typed
<1> QED
  BY <1>1, <1>2, <1>3, <1>4, <1>5, <1>6, <1>7, <1>8, <1>9, <1>10, <1>11, <1>12, <1>13, <1>14,
       <1>15, <1>16, <1>17, <1>18, <1>19, <1>20, <1>21, <1>22, <1>23 DEF Next, Step, Stop

LEMMA RowsStayNamed ==
  ASSUME Typed, [Next]_vars
  PROVE  RowsNameAssets'
<1>0. /\ TypeOK /\ ScansFormed /\ RowsNameAssets
      /\ \A f \in Files : ledger[f].asset \in Assets \cup {None}
  BY RowFields DEF Typed, TypeOK
<1>1. ASSUME Quiet PROVE RowsNameAssets'
  BY <1>1, <1>0 DEF Quiet, RowsNameAssets
<1>2. ASSUME NEW s \in Scanners, Reopen(s)
      PROVE  RowsNameAssets'
  BY <1>2, ReopenDoes, LeavesAlone, <1>0 DEF OnlyLedger, RowStays, RowNamesTheSame, RowsNameAssets
<1>3. ASSUME NEW s \in Scanners, Observe(s)
      PROVE  RowsNameAssets'
  BY <1>3, ObserveDoes, LeavesAlone, <1>0
     DEF OnlyLedger, Lists, RowStays, RowNamesTheSame, RowsNameAssets, NoRow
<1>4. ASSUME NEW s \in Scanners, Resume(s)
      PROVE  RowsNameAssets'
  BY <1>4, ResumeDoes, LeavesAlone, <1>0 DEF OnlyAssets, AssetIsTheSame, RowsNameAssets
<1>5. ASSUME NEW s \in Scanners, Resumed(s)
      PROVE  RowsNameAssets'
  BY <1>5, ResumedDoes, LeavesAlone, <1>0
     DEF OnlyLedger, RowStays, RowNamesTheSame, RowsNameAssets
<1>6. ASSUME NEW s \in Scanners, Read(s)
      PROVE  RowsNameAssets'
  BY <1>6, ReadDoes, LeavesAlone, <1>0
     DEF OnlyLedger, OtherRowsStay, RowStays, RowNamesTheSame, RowsNameAssets
<1>7. ASSUME NEW s \in Scanners, Compare(s)
      PROVE  RowsNameAssets'
  BY <1>7, CompareDoes, LeavesAlone, <1>0, AtWork
     DEF OnlyLedger, OtherRowsStay, RowStays, RowsNameAssets, Working, Handling, Duplicates,
          Usable
<1>8. ASSUME NEW s \in Scanners, Commit(s)
      PROVE  RowsNameAssets'
  BY <1>8, CommitDoes, LeavesAlone, <1>0, AtWork
     DEF NewRow, NewAssetIs, OtherRowsStay, RowStays, RowsNameAssets, Free, Working, Handling
<1>9. ASSUME NEW s \in Scanners, Enqueue(s)
      PROVE  RowsNameAssets'
  BY <1>9, EnqueueDoes, LeavesAlone, <1>0 DEF OnlyAssets, AssetIsTheSame, RowsNameAssets
<1>10. ASSUME NEW s \in Scanners, Mark(s)
      PROVE  RowsNameAssets'
  BY <1>10, MarkDoes, LeavesAlone, <1>0
     DEF OnlyLedger, OtherRowsStay, RowStays, RowNamesTheSame, RowsNameAssets
<1>11. ASSUME NEW s \in Scanners, Raise(s)
      PROVE  RowsNameAssets'
  BY <1>11, RaiseDoes, LeavesAlone, <1>0
     DEF OnlyLedger, OtherRowsStay, RowStays, RowNamesTheSame, RowsNameAssets
<1>12. ASSUME NEW f \in Files, Age(f)
      PROVE  RowsNameAssets'
  BY <1>12, AgeDoes, PeopleLeaveAlone, <1>0 DEF OnlyLedger, RowNamesTheSame, RowsNameAssets
<1>13. ASSUME NEW f \in Files, NEW c \in Contents, Write(f, c)
      PROVE  RowsNameAssets'
  BY <1>13, WriteDoes, PeopleLeaveAlone, <1>0 DEF OnlyWorld, RowsNameAssets
<1>14. ASSUME NEW c \in Contents, Upload(c)
      PROVE  RowsNameAssets'
  BY <1>14, UploadDoes, PeopleLeaveAlone, <1>0 DEF OnlyAssets, NewAssetIs, RowsNameAssets, Free
<1>15. ASSUME NEW a \in Assets, Parse(a) \/ Delete(a)
      PROVE  RowsNameAssets'
  BY <1>15, SettleDoes, PeopleLeaveAlone, <1>0 DEF OnlyAssets, RowsNameAssets
<1> QED
  BY <1>1, <1>2, <1>3, <1>4, <1>5, <1>6, <1>7, <1>8, <1>9, <1>10, <1>11, <1>12, <1>13, <1>14,
       <1>15, StepKinds

LEMMA FreeStayEmpty ==
  ASSUME Typed, [Next]_vars
  PROVE  FreeAreEmpty'
<1>0. TypeOK /\ ScansFormed /\ FreeAreEmpty
  BY DEF Typed
<1>1. ASSUME Quiet PROVE FreeAreEmpty'
  BY <1>1, <1>0 DEF Quiet, FreeAreEmpty, Free
<1>2. ASSUME NEW s \in Scanners, Reopen(s)
      PROVE  FreeAreEmpty'
  BY <1>2, LeavesAlone, <1>0 DEF OnlyLedger, FreeAreEmpty, Free
<1>3. ASSUME NEW s \in Scanners, Observe(s)
      PROVE  FreeAreEmpty'
  BY <1>3, LeavesAlone, <1>0 DEF OnlyLedger, FreeAreEmpty, Free
<1>4. ASSUME NEW s \in Scanners, Resume(s)
      PROVE  FreeAreEmpty'
  BY <1>4, ResumeDoes, LeavesAlone, <1>0 DEF OnlyAssets, AssetIsTheSame, FreeAreEmpty, Free
<1>5. ASSUME NEW s \in Scanners, Resumed(s)
      PROVE  FreeAreEmpty'
  BY <1>5, LeavesAlone, <1>0 DEF OnlyLedger, FreeAreEmpty, Free
<1>6. ASSUME NEW s \in Scanners, Read(s)
      PROVE  FreeAreEmpty'
  BY <1>6, LeavesAlone, <1>0 DEF OnlyLedger, FreeAreEmpty, Free
<1>7. ASSUME NEW s \in Scanners, Compare(s)
      PROVE  FreeAreEmpty'
  BY <1>7, LeavesAlone, <1>0 DEF OnlyLedger, FreeAreEmpty, Free
<1>8. ASSUME NEW s \in Scanners, Commit(s)
      PROVE  FreeAreEmpty'
  BY <1>8, CommitDoes, LeavesAlone, <1>0
     DEF NewRow, NewAssetIs, OtherRowsStay, RowStays, FreeAreEmpty, Free
<1>9. ASSUME NEW s \in Scanners, Enqueue(s)
      PROVE  FreeAreEmpty'
  BY <1>9, EnqueueDoes, LeavesAlone, <1>0 DEF OnlyAssets, AssetIsTheSame, FreeAreEmpty, Free
<1>10. ASSUME NEW s \in Scanners, Mark(s)
      PROVE  FreeAreEmpty'
  BY <1>10, LeavesAlone, <1>0 DEF OnlyLedger, FreeAreEmpty, Free
<1>11. ASSUME NEW s \in Scanners, Raise(s)
      PROVE  FreeAreEmpty'
  BY <1>11, LeavesAlone, <1>0 DEF OnlyLedger, FreeAreEmpty, Free
<1>12. ASSUME NEW f \in Files, Age(f)
      PROVE  FreeAreEmpty'
  BY <1>12, PeopleLeaveAlone, <1>0 DEF OnlyLedger, FreeAreEmpty, Free
<1>13. ASSUME NEW f \in Files, NEW c \in Contents, Write(f, c)
      PROVE  FreeAreEmpty'
  BY <1>13, PeopleLeaveAlone, <1>0 DEF OnlyWorld, FreeAreEmpty, Free
<1>14. ASSUME NEW c \in Contents, Upload(c)
      PROVE  FreeAreEmpty'
  BY <1>14, UploadDoes, PeopleLeaveAlone, <1>0 DEF OnlyAssets, NewAssetIs, FreeAreEmpty, Free
<1>15. ASSUME NEW a \in Assets, Parse(a) \/ Delete(a)
      PROVE  FreeAreEmpty'
  BY <1>15, SettleDoes, PeopleLeaveAlone, <1>0 DEF OnlyAssets, FreeAreEmpty, Free, Usable
<1> QED
  BY <1>1, <1>2, <1>3, <1>4, <1>5, <1>6, <1>7, <1>8, <1>9, <1>10, <1>11, <1>12, <1>13, <1>14,
       <1>15, StepKinds

LEMMA TypedKept ==
  ASSUME Typed, [Next]_vars
  PROVE  Typed'
  BY TypesKept, WritesStayKnown, ScansStayFormed, RowsStayNamed, FreeStayEmpty DEF Typed

LEMMA TypedAtFirst == Init => Typed
<1> SUFFICES ASSUME Init PROVE Typed
  OBVIOUS
<1>1. /\ written = <<>> /\ Len(written) = 0 /\ written \in Seq(Contents)
      /\ faults \in 0 .. MaxFaults /\ disk \in [Files -> 0 .. MaxWrites]
  BY BoundsAssumption DEF Init
<1>2. NoRow \in Rows /\ NoAsset \in AssetRows /\ Idle \in Scans
  BY NoRowIsARow, BoundsAssumption DEF NoAsset, AssetRows, Idle, Scans, Places
<1>3. TypeOK
  BY <1>1, <1>2 DEF Init, TypeOK
<1>4. WritesKnown
  BY <1>1, BoundsAssumption DEF Init, WritesKnown, NoRow, NoAsset, Idle
<1>5. ScansFormed
  BY DEF Init, ScansFormed, Idle, Working, Handling, Sending
<1>6. RowsNameAssets /\ FreeAreEmpty
  BY DEF Init, RowsNameAssets, FreeAreEmpty, NoRow, NoAsset, Free
<1> QED
  BY <1>3, <1>4, <1>5, <1>6 DEF Typed

-----------------------------------------------------------------------------
(* A risk that has been taken remains. *)
LEMMA RisksGrow ==
  ASSUME Typed, [Next]_vars
  PROVE  risks \subseteq risks'
<1>1. ASSUME NEW s \in Scanners, Acquire(s)
      PROVE  risks \subseteq risks'
  BY <1>1, LeavesAlone DEF OnlyScan
<1>2. ASSUME NEW s \in Scanners, Reopen(s)
      PROVE  risks \subseteq risks'
  BY <1>2, LeavesAlone DEF OnlyLedger
<1>3. ASSUME NEW s \in Scanners, Observe(s)
      PROVE  risks \subseteq risks'
  BY <1>3, LeavesAlone DEF OnlyLedger
<1>4. ASSUME NEW s \in Scanners, Resume(s)
      PROVE  risks \subseteq risks'
  BY <1>4, LeavesAlone DEF OnlyAssets
<1>5. ASSUME NEW s \in Scanners, Resumed(s)
      PROVE  risks \subseteq risks'
  BY <1>5, LeavesAlone DEF OnlyLedger
<1>6. ASSUME NEW s \in Scanners, Check(s)
      PROVE  risks \subseteq risks'
  BY <1>6, CheckDoes DEF Typed
<1>7. ASSUME NEW s \in Scanners, Read(s)
      PROVE  risks \subseteq risks'
  BY <1>7, LeavesAlone DEF OnlyLedger
<1>8. ASSUME NEW s \in Scanners, Compare(s)
      PROVE  risks \subseteq risks'
  BY <1>8, LeavesAlone DEF OnlyLedger
<1>9. ASSUME NEW s \in Scanners, Register(s)
      PROVE  risks \subseteq risks'
  BY <1>9, LeavesAlone DEF OnlyScan
<1>10. ASSUME NEW s \in Scanners, Commit(s)
      PROVE  risks \subseteq risks'
  BY <1>10, CommitDoes
<1>11. ASSUME NEW s \in Scanners, Enqueue(s)
      PROVE  risks \subseteq risks'
  BY <1>11, LeavesAlone DEF OnlyAssets
<1>12. ASSUME NEW s \in Scanners, Mark(s)
      PROVE  risks \subseteq risks'
  BY <1>12, LeavesAlone DEF OnlyLedger
<1>13. ASSUME NEW s \in Scanners, Raise(s)
      PROVE  risks \subseteq risks'
  BY <1>13, LeavesAlone DEF OnlyLedger
<1>14. ASSUME NEW s \in Scanners, Renew(s)
      PROVE  risks \subseteq risks'
  BY <1>14, LeavesAlone DEF OnlyScan
<1>15. ASSUME NEW s \in Scanners, Stop(s)
      PROVE  risks \subseteq risks'
  BY <1>15, LeavesAlone DEF OnlyScan
<1>16. ASSUME NEW s \in Scanners, Expire(s)
      PROVE  risks \subseteq risks'
  BY <1>16, LeavesAlone DEF OnlyScan
<1>17. ASSUME NEW s \in Scanners, Outlive(s)
      PROVE  risks \subseteq risks'
  BY <1>17, LeavesAlone DEF OnlyScan
<1>18. ASSUME NEW f \in Files, Remove(f)
      PROVE  risks \subseteq risks'
  BY <1>18, RemoveDoes DEF OnlyWorld, Typed
<1>19. ASSUME NEW f \in Files, Age(f)
      PROVE  risks \subseteq risks'
  BY <1>19, PeopleLeaveAlone DEF OnlyLedger
<1>20. ASSUME NEW f \in Files, NEW c \in Contents, Write(f, c)
      PROVE  risks \subseteq risks'
  BY <1>20, PeopleLeaveAlone DEF OnlyWorld
<1>21. ASSUME NEW c \in Contents, Upload(c)
      PROVE  risks \subseteq risks'
  BY <1>21, PeopleLeaveAlone DEF OnlyAssets
<1>22. ASSUME NEW a \in Assets, Parse(a) \/ Delete(a)
      PROVE  risks \subseteq risks'
  BY <1>22, PeopleLeaveAlone DEF OnlyAssets
<1>23. ASSUME UNCHANGED vars PROVE risks \subseteq risks'
  BY <1>23 DEF vars
<1> QED
  BY <1>1, <1>2, <1>3, <1>4, <1>5, <1>6, <1>7, <1>8, <1>9, <1>10, <1>11, <1>12, <1>13, <1>14,
       <1>15, <1>16, <1>17, <1>18, <1>19, <1>20, <1>21, <1>22, <1>23 DEF Next, Step, Stop

(* Only the answer to a commit that is lost takes an object away. *)
LEMMA ObjectsKept ==
  ASSUME Typed, AssetsHaveObjects, [Next]_vars
  PROVE  AssetsHaveObjects'
<1>0. /\ TypeOK /\ ScansFormed /\ AssetsHaveObjects /\ risks \subseteq risks'
      /\ \A a \in Assets : asset[a].object \in BOOLEAN
  BY RisksGrow, AssetFields DEF Typed, TypeOK
<1>1. ASSUME Quiet PROVE AssetsHaveObjects'
  BY <1>1, <1>0 DEF Quiet, AssetsHaveObjects
<1>2. ASSUME NEW s \in Scanners, Reopen(s)
      PROVE  AssetsHaveObjects'
  BY <1>2, LeavesAlone, <1>0 DEF OnlyLedger, AssetsHaveObjects
<1>3. ASSUME NEW s \in Scanners, Observe(s)
      PROVE  AssetsHaveObjects'
  BY <1>3, LeavesAlone, <1>0 DEF OnlyLedger, AssetsHaveObjects
<1>4. ASSUME NEW s \in Scanners, Resume(s)
      PROVE  AssetsHaveObjects'
  BY <1>4, ResumeDoes, LeavesAlone, <1>0 DEF OnlyAssets, AssetIsTheSame, AssetsHaveObjects
<1>5. ASSUME NEW s \in Scanners, Resumed(s)
      PROVE  AssetsHaveObjects'
  BY <1>5, LeavesAlone, <1>0 DEF OnlyLedger, AssetsHaveObjects
<1>6. ASSUME NEW s \in Scanners, Read(s)
      PROVE  AssetsHaveObjects'
  BY <1>6, LeavesAlone, <1>0 DEF OnlyLedger, AssetsHaveObjects
<1>7. ASSUME NEW s \in Scanners, Compare(s)
      PROVE  AssetsHaveObjects'
  BY <1>7, LeavesAlone, <1>0 DEF OnlyLedger, AssetsHaveObjects
<1>8. ASSUME NEW s \in Scanners, Commit(s)
      PROVE  AssetsHaveObjects'
  BY <1>8, CommitDoes, LeavesAlone, <1>0
     DEF NewRow, NewAssetIs, OtherRowsStay, RowStays, AssetsHaveObjects
<1>9. ASSUME NEW s \in Scanners, Enqueue(s)
      PROVE  AssetsHaveObjects'
  BY <1>9, EnqueueDoes, LeavesAlone, <1>0 DEF OnlyAssets, AssetIsTheSame, AssetsHaveObjects
<1>10. ASSUME NEW s \in Scanners, Mark(s)
      PROVE  AssetsHaveObjects'
  BY <1>10, LeavesAlone, <1>0 DEF OnlyLedger, AssetsHaveObjects
<1>11. ASSUME NEW s \in Scanners, Raise(s)
      PROVE  AssetsHaveObjects'
  BY <1>11, LeavesAlone, <1>0 DEF OnlyLedger, AssetsHaveObjects
<1>12. ASSUME NEW f \in Files, Age(f)
      PROVE  AssetsHaveObjects'
  BY <1>12, PeopleLeaveAlone, <1>0 DEF OnlyLedger, AssetsHaveObjects
<1>13. ASSUME NEW f \in Files, NEW c \in Contents, Write(f, c)
      PROVE  AssetsHaveObjects'
  BY <1>13, PeopleLeaveAlone, <1>0 DEF OnlyWorld, AssetsHaveObjects
<1>14. ASSUME NEW c \in Contents, Upload(c)
      PROVE  AssetsHaveObjects'
  BY <1>14, UploadDoes, PeopleLeaveAlone, <1>0 DEF OnlyAssets, NewAssetIs, AssetsHaveObjects
<1>15. ASSUME NEW a \in Assets, Parse(a) \/ Delete(a)
      PROVE  AssetsHaveObjects'
  BY <1>15, SettleDoes, PeopleLeaveAlone, <1>0 DEF OnlyAssets, AssetsHaveObjects, Usable
<1> QED
  BY <1>1, <1>2, <1>3, <1>4, <1>5, <1>6, <1>7, <1>8, <1>9, <1>10, <1>11, <1>12, <1>13, <1>14,
       <1>15, StepKinds
-----------------------------------------------------------------------------
(* While no scan outlives its lock. *)
Held == "lock" \notin risks

OneScan == \A s \in Scanners : scan[s].at # "idle" => lock = s

(* A write is of one path: no other shows it, has it in its row, or is scanned for it. *)
Speaks(s, f, w) == scan[s].todo[f] = w \/ (scan[s].file = f /\ scan[s].write = w)
Current(f, w) == disk[f] = w \/ \E s \in Scanners : Speaks(s, f, w)
Of(f, w) == Current(f, w) \/ ledger[f].seen = w
WritesApart == \A w \in 1 .. Len(written) : \A f, g \in Files : Of(f, w) /\ Of(g, w) => f = g

(* What the ledger says while a scan is at work: a change since the listing is a later write;    *)
(* what is to do, or at hand, has the write under which it was listed.                           *)
ListedIsOld(s) ==
    scan[s].at \in Before =>
        \A f \in Files : disk[f] \notin {0, scan[s].todo[f]} => disk[f] > ledger[f].seen
TodoIsSeen(s) ==
    scan[s].at \notin Before \cup {"idle"} =>
        \A f \in Files : (scan[s].todo[f] # 0 /\ ledger[f].status = "pending_stable")
                            => ledger[f].seen = scan[s].todo[f]
HandIsPending(s) ==
    scan[s].at \in Handling =>
        /\ ledger[scan[s].file].status = "pending_stable"
        /\ ledger[scan[s].file].seen = scan[s].write
SendingIsUploaded(s) ==
    scan[s].at \in Sending =>
        /\ ledger[scan[s].file].status = "uploaded"
        /\ ledger[scan[s].file].asset = scan[s].asset
        /\ scan[s].at = "mark" => asset[scan[s].asset].sent
ResumedIsSent(s) ==
    scan[s].at = "resumed" => \A f \in scan[s].rows :
        /\ ledger[f].status = "uploaded"
        /\ (ledger[f].asset \in Assets /\ asset[ledger[f].asset].status = "pending")
              => asset[ledger[f].asset].sent
ScanGoesWithLedger ==
    \A s \in Scanners : /\ ListedIsOld(s) /\ TodoIsSeen(s) /\ HandIsPending(s)
                        /\ SendingIsUploaded(s) /\ ResumedIsSent(s)

(* What a row says of a file. *)
RowKnows(f) ==
    /\ ledger[f].status \in {"uploaded", "done"} =>
          /\ ledger[f].asset # None /\ ledger[f].seen # 0
          /\ asset[ledger[f].asset].write = ledger[f].seen
    /\ ledger[f].status = "duplicate" =>
          /\ ledger[f].asset # None /\ ledger[f].seen # 0
          /\ asset[ledger[f].asset].content = Content(ledger[f].seen)
RowsKnow == \A f \in Files : RowKnows(f)

(* A write that has been registered is not there to be registered again. *)
RegisteredIsKnown ==
    \A a \in Assets, f \in Files : (Own(a) /\ Current(f, asset[a].write)) =>
        ledger[f].seen = asset[a].write /\ ledger[f].status \in {"uploaded", "done"}
WritesOnce == \A a, b \in Assets : (a # b /\ Own(a) /\ Own(b)) => asset[a].write # asset[b].write

(* What a scan has found to be new has no usable asset of the watch with the same contents. *)
OwnUsable(c) == {b \in Assets : Own(b) /\ Usable(b) /\ asset[b].content = c}
ContentsApart ==
    \A a, b \in Assets : (a # b /\ Own(a) /\ Own(b) /\ Usable(a) /\ Usable(b))
        => asset[a].content # asset[b].content
FoundNew(s) ==
    /\ scan[s].at \in {"read", "compare"} =>
          \A b \in OwnUsable(Content(scan[s].write)) : asset[b].status = "pending" => InLedger(b)
    /\ scan[s].at \in {"register", "commit"} => OwnUsable(Content(scan[s].write)) = {}
ContentsOnce == "late" \in risks \/ (ContentsApart /\ \A s \in Scanners : FoundNew(s))

(* What was not sent has a row that has it sent. *)
Remembered ==
    \A a \in Assets : (asset[a].status = "pending" /\ ~asset[a].sent) =>
        \E f \in Files : ledger[f].status = "uploaded" /\ ledger[f].asset = a

Consistent ==
    /\ OneScan /\ WritesApart /\ ScanGoesWithLedger /\ RowsKnow /\ RegisteredIsKnown
    /\ WritesOnce /\ ContentsOnce /\ Remembered
Watched == Typed /\ AssetsHaveObjects /\ (Held => Consistent)

-----------------------------------------------------------------------------

(* A second scan finds the lock taken. *)
LEMMA OneScanKept ==
  ASSUME Typed, Consistent, Held', [Next]_vars
  PROVE  OneScan'
<1>0. TypeOK /\ ScansFormed /\ OneScan /\ Held' /\ None \notin Scanners
  BY NoneAssumption DEF Typed, Consistent
<1>1. ASSUME NEW s \in Scanners, Acquire(s)
      PROVE  OneScan'
  BY <1>1, AcquireDoes, LeavesAlone, <1>0 DEF OnlyScan, Becomes, OneScan
<1>2. ASSUME NEW s \in Scanners, Reopen(s)
      PROVE  OneScan'
  BY <1>2, ReopenDoes, LeavesAlone, <1>0 DEF OnlyLedger, Becomes, ToPlace, OneScan
<1>3. ASSUME NEW s \in Scanners, Observe(s)
      PROVE  OneScan'
  BY <1>3, ObserveDoes, LeavesAlone, <1>0 DEF OnlyLedger, Becomes, OneScan
<1>4. ASSUME NEW s \in Scanners, Resume(s)
      PROVE  OneScan'
  BY <1>4, ResumeDoes, LeavesAlone, <1>0 DEF OnlyAssets, Becomes, OneScan
<1>5. ASSUME NEW s \in Scanners, Resumed(s)
      PROVE  OneScan'
  BY <1>5, ResumedDoes, LeavesAlone, <1>0 DEF OnlyLedger, Becomes, OneScan
<1>6. ASSUME NEW s \in Scanners, Check(s)
      PROVE  OneScan'
  BY <1>6, CheckDoes, LeavesAlone, <1>0 DEF OnlyScan, Becomes, OneScan
<1>7. ASSUME NEW s \in Scanners, Read(s)
      PROVE  OneScan'
  BY <1>7, ReadDoes, LeavesAlone, <1>0 DEF OnlyLedger, Becomes, Finished, ToPlace, OneScan
<1>8. ASSUME NEW s \in Scanners, Compare(s)
      PROVE  OneScan'
  BY <1>8, CompareDoes, LeavesAlone, <1>0 DEF OnlyLedger, Becomes, Finished, ToPlace, OneScan
<1>9. ASSUME NEW s \in Scanners, Register(s)
      PROVE  OneScan'
  BY <1>9, RegisterDoes, LeavesAlone, <1>0 DEF OnlyScan, Becomes, Finished, ToPlace, OneScan
<1>10. ASSUME NEW s \in Scanners, Commit(s)
      PROVE  OneScan'
  BY <1>10, CommitDoes, LeavesAlone, <1>0 DEF Becomes, Finished, OneScan
<1>11. ASSUME NEW s \in Scanners, Enqueue(s)
      PROVE  OneScan'
  BY <1>11, EnqueueDoes, LeavesAlone, <1>0 DEF OnlyAssets, Becomes, Finished, ToPlace, OneScan
<1>12. ASSUME NEW s \in Scanners, Mark(s)
      PROVE  OneScan'
  BY <1>12, MarkDoes, LeavesAlone, <1>0 DEF OnlyLedger, Becomes, Finished, OneScan
<1>13. ASSUME NEW s \in Scanners, Raise(s)
      PROVE  OneScan'
  BY <1>13, RaiseDoes, LeavesAlone, <1>0 DEF OnlyLedger, Becomes, Finished, OneScan, Handling
<1>14. ASSUME NEW s \in Scanners, Renew(s)
      PROVE  OneScan'
  BY <1>14, RenewDoes, LeavesAlone, <1>0 DEF OnlyScan, Becomes, ToPlace, ToIdle, OneScan
<1>15. ASSUME NEW s \in Scanners, Stop(s)
      PROVE  OneScan'
  BY <1>15, StopDoes, LeavesAlone, <1>0 DEF OnlyScan, Becomes, ToIdle, OneScan
<1>16. ASSUME NEW s \in Scanners, Expire(s)
      PROVE  OneScan'
  BY <1>16, LeavesAlone, <1>0 DEF OnlyScan, OneScan
<1>17. ASSUME NEW s \in Scanners, Outlive(s)
      PROVE  OneScan'
  BY <1>17, LeavesAlone, <1>0 DEF Held
<1>18. ASSUME NEW f \in Files, Remove(f)
      PROVE  OneScan'
  BY <1>18, RemoveDoes, <1>0 DEF OnlyWorld, OneScan
<1>19. ASSUME NEW f \in Files, Age(f)
      PROVE  OneScan'
  BY <1>19, PeopleLeaveAlone, <1>0 DEF OnlyLedger, OneScan
<1>20. ASSUME NEW f \in Files, NEW c \in Contents, Write(f, c)
      PROVE  OneScan'
  BY <1>20, PeopleLeaveAlone, <1>0 DEF OnlyWorld, OneScan
<1>21. ASSUME NEW c \in Contents, Upload(c)
      PROVE  OneScan'
  BY <1>21, PeopleLeaveAlone, <1>0 DEF OnlyAssets, OneScan
<1>22. ASSUME NEW a \in Assets, Parse(a) \/ Delete(a)
      PROVE  OneScan'
  BY <1>22, PeopleLeaveAlone, <1>0 DEF OnlyAssets, OneScan
<1>23. ASSUME UNCHANGED vars PROVE OneScan'
  BY <1>0, <1>23 DEF vars, OneScan
<1> QED
  BY <1>1, <1>2, <1>3, <1>4, <1>5, <1>6, <1>7, <1>8, <1>9, <1>10, <1>11, <1>12, <1>13, <1>14,
       <1>15, <1>16, <1>17, <1>18, <1>19, <1>20, <1>21, <1>22, <1>23 DEF Next, Step, Stop

(* A scan at work is alone. *)
LEMMA OthersIdle ==
  ASSUME Consistent, NEW s \in Scanners, scan[s].at # "idle" \/ lock = None
  PROVE  \A t \in Scanners : t # s => scan[t].at = "idle"
  BY NoneAssumption DEF Consistent, OneScan

(* Only a write gives a path a write it did not have. *)
LEMMA CurrentShrinks ==
  ASSUME Typed, NEW f \in Files, NEW w \in Nat, w # 0, written' = written, [Next]_vars
  PROVE  Current(f, w)' => Current(f, w)
<1>0. TypeOK /\ ScansFormed /\ written' = written /\ Len(written) \in Nat /\ Len(written)' = Len(written)
  BY Numbers DEF Typed
<1>1. ASSUME NEW s \in Scanners, Acquire(s)
      PROVE  Current(f, w)' => Current(f, w)
  BY <1>1, AcquireDoes, LeavesAlone, <1>0 DEF OnlyScan, Becomes, Current, Speaks
<1>2. ASSUME NEW s \in Scanners, Reopen(s)
      PROVE  Current(f, w)' => Current(f, w)
  BY <1>2, ReopenDoes, LeavesAlone, <1>0 DEF OnlyLedger, Becomes, ToPlace, Current, Speaks
<1>3. ASSUME NEW s \in Scanners, Observe(s)
      PROVE  Current(f, w)' => Current(f, w)
  BY <1>3, ObserveDoes, LeavesAlone, <1>0 DEF OnlyLedger, Becomes, Current, Speaks
<1>4. ASSUME NEW s \in Scanners, Resume(s)
      PROVE  Current(f, w)' => Current(f, w)
  BY <1>4, ResumeDoes, LeavesAlone, <1>0 DEF OnlyAssets, Becomes, Current, Speaks
<1>5. ASSUME NEW s \in Scanners, Resumed(s)
      PROVE  Current(f, w)' => Current(f, w)
  BY <1>5, ResumedDoes, LeavesAlone, <1>0 DEF OnlyLedger, Becomes, Current, Speaks
<1>6. ASSUME NEW s \in Scanners, Check(s)
      PROVE  Current(f, w)' => Current(f, w)
  BY <1>6, CheckDoes, LeavesAlone, <1>0 DEF OnlyScan, Becomes, Current, Speaks
<1>7. ASSUME NEW s \in Scanners, Read(s)
      PROVE  Current(f, w)' => Current(f, w)
  BY <1>7, ReadDoes, LeavesAlone, <1>0 DEF OnlyLedger, Becomes, Finished, ToPlace, Current, Speaks
<1>8. ASSUME NEW s \in Scanners, Compare(s)
      PROVE  Current(f, w)' => Current(f, w)
  BY <1>8, CompareDoes, LeavesAlone, <1>0
     DEF OnlyLedger, Becomes, Finished, ToPlace, Current, Speaks
<1>9. ASSUME NEW s \in Scanners, Register(s)
      PROVE  Current(f, w)' => Current(f, w)
  BY <1>9, RegisterDoes, LeavesAlone, <1>0
     DEF OnlyScan, Becomes, Finished, ToPlace, Current, Speaks
<1>10. ASSUME NEW s \in Scanners, Commit(s)
      PROVE  Current(f, w)' => Current(f, w)
  BY <1>10, CommitDoes, LeavesAlone, <1>0 DEF Becomes, Finished, Current, Speaks
<1>11. ASSUME NEW s \in Scanners, Enqueue(s)
      PROVE  Current(f, w)' => Current(f, w)
  BY <1>11, EnqueueDoes, LeavesAlone, <1>0
     DEF OnlyAssets, Becomes, Finished, ToPlace, Current, Speaks
<1>12. ASSUME NEW s \in Scanners, Mark(s)
      PROVE  Current(f, w)' => Current(f, w)
  BY <1>12, MarkDoes, LeavesAlone, <1>0 DEF OnlyLedger, Becomes, Finished, Current, Speaks
<1>13. ASSUME NEW s \in Scanners, Raise(s)
      PROVE  Current(f, w)' => Current(f, w)
  BY <1>13, RaiseDoes, LeavesAlone, <1>0 DEF OnlyLedger, Becomes, Finished, Current, Speaks
<1>14. ASSUME NEW s \in Scanners, Renew(s)
      PROVE  Current(f, w)' => Current(f, w)
  BY <1>14, RenewDoes, LeavesAlone, <1>0 DEF OnlyScan, Becomes, ToPlace, ToIdle, Current, Speaks
<1>15. ASSUME NEW s \in Scanners, Stop(s)
      PROVE  Current(f, w)' => Current(f, w)
  BY <1>15, StopDoes, LeavesAlone, <1>0 DEF OnlyScan, Becomes, ToIdle, Current, Speaks
<1>16. ASSUME NEW s \in Scanners, Expire(s)
      PROVE  Current(f, w)' => Current(f, w)
  BY <1>16, LeavesAlone, <1>0 DEF OnlyScan, Current, Speaks
<1>17. ASSUME NEW s \in Scanners, Outlive(s)
      PROVE  Current(f, w)' => Current(f, w)
  BY <1>17, LeavesAlone, <1>0 DEF OnlyScan, Current, Speaks
<1>18. ASSUME NEW g \in Files, Remove(g)
      PROVE  Current(f, w)' => Current(f, w)
  BY <1>18, RemoveDoes, <1>0 DEF OnlyWorld, Current, Speaks
<1>19. ASSUME NEW g \in Files, Age(g)
      PROVE  Current(f, w)' => Current(f, w)
  BY <1>19, PeopleLeaveAlone, <1>0 DEF OnlyLedger, Current, Speaks
<1>20. ASSUME NEW g \in Files, NEW c \in Contents, Write(g, c)
      PROVE  Current(f, w)' => Current(f, w)
  BY <1>20, WriteDoes, <1>0
<1>21. ASSUME NEW c \in Contents, Upload(c)
      PROVE  Current(f, w)' => Current(f, w)
  BY <1>21, PeopleLeaveAlone, <1>0 DEF OnlyAssets, Current, Speaks
<1>22. ASSUME NEW a \in Assets, Parse(a) \/ Delete(a)
      PROVE  Current(f, w)' => Current(f, w)
  BY <1>22, PeopleLeaveAlone, <1>0 DEF OnlyAssets, Current, Speaks
<1>23. ASSUME UNCHANGED vars PROVE Current(f, w)' => Current(f, w)
  BY <1>23 DEF vars, Current, Speaks
<1> QED
  BY <1>1, <1>2, <1>3, <1>4, <1>5, <1>6, <1>7, <1>8, <1>9, <1>10, <1>11, <1>12, <1>13, <1>14,
       <1>15, <1>16, <1>17, <1>18, <1>19, <1>20, <1>21, <1>22, <1>23 DEF Next, Step, Stop

LEMMA SeenIsOld ==
  ASSUME Typed, NEW f \in Files, NEW w \in Nat, w # 0, written' = written, [Next]_vars
  PROVE  ledger'[f].seen = w => Of(f, w)
<1>0. TypeOK /\ ScansFormed /\ written' = written /\ Len(written)' = Len(written)
  BY DEF Typed
<1>1. ASSUME Quiet PROVE ledger'[f].seen = w => Of(f, w)
  BY <1>1 DEF Quiet, Of
<1>2. ASSUME NEW s \in Scanners, Reopen(s)
      PROVE  ledger'[f].seen = w => Of(f, w)
  BY <1>2, ReopenDoes, LeavesAlone, <1>0
     DEF OnlyLedger, RowStays, RowNamesTheSame, Of, Current, Speaks
<1>3. ASSUME NEW s \in Scanners, Observe(s)
      PROVE  ledger'[f].seen = w => Of(f, w)
  BY <1>3, ObserveDoes, LeavesAlone, <1>0
     DEF OnlyLedger, Lists, RowStays, RowNamesTheSame, Of, Current, Speaks, NoRow
<1>4. ASSUME NEW s \in Scanners, Resume(s)
      PROVE  ledger'[f].seen = w => Of(f, w)
  BY <1>4, LeavesAlone, <1>0 DEF OnlyAssets, Of
<1>5. ASSUME NEW s \in Scanners, Resumed(s)
      PROVE  ledger'[f].seen = w => Of(f, w)
  BY <1>5, ResumedDoes, LeavesAlone, <1>0
     DEF OnlyLedger, RowStays, RowNamesTheSame, Of, Current, Speaks
<1>6. ASSUME NEW s \in Scanners, Read(s)
      PROVE  ledger'[f].seen = w => Of(f, w)
  BY <1>6, ReadDoes, LeavesAlone, <1>0
     DEF OnlyLedger, OtherRowsStay, RowStays, RowNamesTheSame, Of, Current, Speaks
<1>7. ASSUME NEW s \in Scanners, Compare(s)
      PROVE  ledger'[f].seen = w => Of(f, w)
  BY <1>7, CompareDoes, LeavesAlone, <1>0
     DEF OnlyLedger, OtherRowsStay, RowStays, Of, Current, Speaks
<1>8. ASSUME NEW s \in Scanners, Commit(s)
      PROVE  ledger'[f].seen = w => Of(f, w)
  BY <1>8, CommitDoes, LeavesAlone, <1>0
     DEF NewRow, NewAssetIs, OtherRowsStay, RowStays, Of, Current, Speaks
<1>9. ASSUME NEW s \in Scanners, Enqueue(s)
      PROVE  ledger'[f].seen = w => Of(f, w)
  BY <1>9, LeavesAlone, <1>0 DEF OnlyAssets, Of
<1>10. ASSUME NEW s \in Scanners, Mark(s)
      PROVE  ledger'[f].seen = w => Of(f, w)
  BY <1>10, MarkDoes, LeavesAlone, <1>0
     DEF OnlyLedger, OtherRowsStay, RowStays, RowNamesTheSame, Of, Current, Speaks
<1>11. ASSUME NEW s \in Scanners, Raise(s)
      PROVE  ledger'[f].seen = w => Of(f, w)
  BY <1>11, RaiseDoes, LeavesAlone, <1>0
     DEF OnlyLedger, OtherRowsStay, RowStays, RowNamesTheSame, Of, Current, Speaks
<1>12. ASSUME NEW g \in Files, Age(g)
      PROVE  ledger'[f].seen = w => Of(f, w)
  BY <1>12, AgeDoes, PeopleLeaveAlone, <1>0 DEF OnlyLedger, RowNamesTheSame, Of, Current, Speaks
<1>13. ASSUME NEW g \in Files, NEW c \in Contents, Write(g, c)
      PROVE  ledger'[f].seen = w => Of(f, w)
  BY <1>13, WriteDoes, Numbers, <1>0
<1>14. ASSUME NEW c \in Contents, Upload(c)
      PROVE  ledger'[f].seen = w => Of(f, w)
  BY <1>14, PeopleLeaveAlone, <1>0 DEF OnlyAssets, Of
<1>15. ASSUME NEW a \in Assets, Parse(a) \/ Delete(a)
      PROVE  ledger'[f].seen = w => Of(f, w)
  BY <1>15, PeopleLeaveAlone, <1>0 DEF OnlyAssets, Of
<1> QED
  BY <1>1, <1>2, <1>3, <1>4, <1>5, <1>6, <1>7, <1>8, <1>9, <1>10, <1>11, <1>12, <1>13, <1>14,
       <1>15, StepKinds

(* A write that is made is the last one, and only of its path. *)
LEMMA WriteIsNew ==
  ASSUME Typed, NEW f \in Files, NEW c \in Contents, Write(f, c),
         NEW g \in Files, NEW w \in Nat, w # 0
  PROVE  /\ Current(g, w)' => Current(g, w) \/ (g = f /\ w = Len(written) + 1)
         /\ Of(g, w)' => Of(g, w) \/ (g = f /\ w = Len(written) + 1)
         /\ Of(g, w) => w <= Len(written)
<1>1. TypeOK /\ WritesKnown /\ OnlyWorld
  BY PeopleLeaveAlone DEF Typed
<1>2. disk'[f] = Len(written) + 1 /\ \A h \in Files : h # f => disk'[h] = disk[h]
  BY WriteDoes
<1>3. Current(g, w)' => Current(g, w) \/ (g = f /\ w = Len(written) + 1)
  BY <1>1, <1>2 DEF Current, Speaks, OnlyWorld
<1>4. Of(g, w)' => Of(g, w) \/ (g = f /\ w = Len(written) + 1)
  BY <1>1, <1>3 DEF Of, OnlyWorld
<1>5. Of(g, w) => w <= Len(written)
  BY <1>1 DEF WritesKnown, Of, Current, Speaks
<1> QED
  BY <1>3, <1>4, <1>5

LEMMA OnlyWritesWrite ==
  ASSUME Typed, [Next]_vars
  PROVE  written' = written \/ \E f \in Files, c \in Contents : Write(f, c)
<1>1. TypeOK
  BY DEF Typed
<1> QED
  BY <1>1, LeavesAlone, PeopleLeaveAlone, RemoveDoes
     DEF Next, Step, Stop, OnlyLedger, OnlyAssets, OnlyScan, OnlyWorld, vars

LEMMA WritesApartKept ==
  ASSUME Typed, WritesApart, [Next]_vars
  PROVE  WritesApart'
<1>0. Len(written) \in Nat
  BY Numbers DEF Typed
<1>1. CASE written' = written
  <2>1. ASSUME NEW f \in Files, NEW w \in 1 .. Len(written), Of(f, w)' PROVE Of(f, w)
    BY <1>0, <1>1, <2>1, CurrentShrinks, SeenIsOld DEF Of
  <2> QED
    BY <1>0, <1>1, <2>1 DEF WritesApart
<1>2. ASSUME NEW f \in Files, NEW c \in Contents, Write(f, c) PROVE WritesApart'
  <2>1. Len(written') = Len(written) + 1
    BY <1>2, WriteDoes
  <2> SUFFICES ASSUME NEW w \in 1 .. Len(written'), NEW g \in Files, NEW h \in Files,
                      Of(g, w)', Of(h, w)'
               PROVE  g = h
    BY DEF WritesApart
  <2>2. /\ Of(g, w) \/ (g = f /\ w = Len(written) + 1)
        /\ Of(h, w) \/ (h = f /\ w = Len(written) + 1)
        /\ Of(g, w) => w <= Len(written)
        /\ Of(h, w) => w <= Len(written)
    BY <1>2, WriteIsNew
  <2> QED
    BY <1>0, <2>1, <2>2 DEF WritesApart
<1> QED
  BY <1>1, <1>2, OnlyWritesWrite

LEMMA ListedIsOldKept ==
  ASSUME Typed, Consistent, [Next]_vars
  PROVE  \A t \in Scanners : ListedIsOld(t)'
<1>0. /\ TypeOK /\ ScansFormed /\ Consistent
      /\ \A s \in Scanners : ListedIsOld(s)
  BY DEF Typed, Consistent, ScanGoesWithLedger
<1>00. WritesKnown
  BY DEF Typed
<1>1. ASSUME NEW s \in Scanners, Acquire(s)
      PROVE  \A t \in Scanners : ListedIsOld(t)'
  BY <1>1, AcquireDoes, LeavesAlone, <1>0, OthersIdle DEF OnlyScan, Becomes, ListedIsOld, Before
<1>2. ASSUME NEW s \in Scanners, Reopen(s)
      PROVE  \A t \in Scanners : ListedIsOld(t)'
  BY <1>2, ReopenDoes, LeavesAlone, <1>0, OthersIdle
     DEF OnlyLedger, Becomes, ToPlace, RowStays, RowNamesTheSame, ListedIsOld, Before
<1>3. ASSUME NEW s \in Scanners, Observe(s)
      PROVE  \A t \in Scanners : ListedIsOld(t)'
  BY <1>3, ObserveDoes, LeavesAlone, <1>0, OthersIdle
     DEF OnlyLedger, Becomes, Lists, RowStays, RowNamesTheSame, ListedIsOld, Before
<1>4. ASSUME NEW s \in Scanners, Resume(s)
      PROVE  \A t \in Scanners : ListedIsOld(t)'
  BY <1>4, ResumeDoes, LeavesAlone, <1>0, OthersIdle
     DEF OnlyAssets, Becomes, AssetIsTheSame, ListedIsOld, Before
<1>5. ASSUME NEW s \in Scanners, Resumed(s)
      PROVE  \A t \in Scanners : ListedIsOld(t)'
  BY <1>5, ResumedDoes, LeavesAlone, <1>0, OthersIdle
     DEF OnlyLedger, Becomes, RowStays, RowNamesTheSame, ListedIsOld, Before
<1>6. ASSUME NEW s \in Scanners, Check(s)
      PROVE  \A t \in Scanners : ListedIsOld(t)'
  BY <1>6, CheckDoes, LeavesAlone, <1>0, OthersIdle DEF OnlyScan, Becomes, ListedIsOld, Before
<1>7. ASSUME NEW s \in Scanners, Read(s)
      PROVE  \A t \in Scanners : ListedIsOld(t)'
  BY <1>7, ReadDoes, LeavesAlone, <1>0, OthersIdle
     DEF OnlyLedger, Becomes, Finished, ToPlace, OtherRowsStay, RowStays, RowNamesTheSame,
          ListedIsOld, Before
<1>8. ASSUME NEW s \in Scanners, Compare(s)
      PROVE  \A t \in Scanners : ListedIsOld(t)'
  BY <1>8, CompareDoes, LeavesAlone, <1>0, OthersIdle
     DEF OnlyLedger, Becomes, Finished, ToPlace, OtherRowsStay, RowStays, ListedIsOld, Before
<1>9. ASSUME NEW s \in Scanners, Register(s)
      PROVE  \A t \in Scanners : ListedIsOld(t)'
  BY <1>9, RegisterDoes, LeavesAlone, <1>0, OthersIdle
     DEF OnlyScan, Becomes, Finished, ToPlace, ListedIsOld, Before
<1>10. ASSUME NEW s \in Scanners, Commit(s)
      PROVE  \A t \in Scanners : ListedIsOld(t)'
  BY <1>10, CommitDoes, LeavesAlone, <1>0, OthersIdle
     DEF Becomes, Finished, NewRow, NewAssetIs, OtherRowsStay, RowStays, ListedIsOld, Before
<1>11. ASSUME NEW s \in Scanners, Enqueue(s)
      PROVE  \A t \in Scanners : ListedIsOld(t)'
  BY <1>11, EnqueueDoes, LeavesAlone, <1>0, OthersIdle
     DEF OnlyAssets, Becomes, Finished, ToPlace, AssetIsTheSame, ListedIsOld, Before
<1>12. ASSUME NEW s \in Scanners, Mark(s)
      PROVE  \A t \in Scanners : ListedIsOld(t)'
  BY <1>12, MarkDoes, LeavesAlone, <1>0, OthersIdle
     DEF OnlyLedger, Becomes, Finished, OtherRowsStay, RowStays, RowNamesTheSame, ListedIsOld,
          Before
<1>13. ASSUME NEW s \in Scanners, Raise(s)
      PROVE  \A t \in Scanners : ListedIsOld(t)'
  BY <1>13, RaiseDoes, LeavesAlone, <1>0, OthersIdle
     DEF OnlyLedger, Becomes, Finished, OtherRowsStay, RowStays, RowNamesTheSame, ListedIsOld,
          Before, Handling
<1>14. ASSUME NEW s \in Scanners, Renew(s)
      PROVE  \A t \in Scanners : ListedIsOld(t)'
  BY <1>14, RenewDoes, LeavesAlone, <1>0, OthersIdle
     DEF OnlyScan, Becomes, ToPlace, ToIdle, ListedIsOld, Before
<1>15. ASSUME NEW s \in Scanners, Stop(s)
      PROVE  \A t \in Scanners : ListedIsOld(t)'
  BY <1>15, StopDoes, LeavesAlone, <1>0, OthersIdle
     DEF OnlyScan, Becomes, ToIdle, ListedIsOld, Before
<1>16. ASSUME NEW s \in Scanners, Expire(s)
      PROVE  \A t \in Scanners : ListedIsOld(t)'
  BY <1>16, LeavesAlone, <1>0 DEF OnlyScan, ListedIsOld, Before
<1>17. ASSUME NEW s \in Scanners, Outlive(s)
      PROVE  \A t \in Scanners : ListedIsOld(t)'
  BY <1>17, LeavesAlone, <1>0 DEF OnlyScan, ListedIsOld, Before
<1>18. ASSUME NEW f \in Files, Remove(f)
      PROVE  \A t \in Scanners : ListedIsOld(t)'
  BY <1>18, RemoveDoes, <1>0 DEF OnlyWorld, ListedIsOld, Before
<1>19. ASSUME NEW f \in Files, Age(f)
      PROVE  \A t \in Scanners : ListedIsOld(t)'
  BY <1>19, AgeDoes, PeopleLeaveAlone, <1>0 DEF OnlyLedger, RowNamesTheSame, ListedIsOld, Before
<1>20. ASSUME NEW f \in Files, NEW c \in Contents, Write(f, c)
      PROVE  \A t \in Scanners : ListedIsOld(t)'
  BY <1>20, WriteDoes, PeopleLeaveAlone, <1>0, Numbers, <1>00
     DEF OnlyWorld, ListedIsOld, Before, WritesKnown
<1>21. ASSUME NEW c \in Contents, Upload(c)
      PROVE  \A t \in Scanners : ListedIsOld(t)'
  BY <1>21, UploadDoes, PeopleLeaveAlone, <1>0 DEF OnlyAssets, NewAssetIs, ListedIsOld, Before
<1>22. ASSUME NEW a \in Assets, Parse(a) \/ Delete(a)
      PROVE  \A t \in Scanners : ListedIsOld(t)'
  BY <1>22, SettleDoes, PeopleLeaveAlone, <1>0 DEF OnlyAssets, ListedIsOld, Before
<1>23. ASSUME UNCHANGED vars PROVE \A t \in Scanners : ListedIsOld(t)'
  BY <1>0, <1>23 DEF vars, ListedIsOld
<1> QED
  BY <1>1, <1>2, <1>3, <1>4, <1>5, <1>6, <1>7, <1>8, <1>9, <1>10, <1>11, <1>12, <1>13, <1>14,
       <1>15, <1>16, <1>17, <1>18, <1>19, <1>20, <1>21, <1>22, <1>23 DEF Next, Step, Stop

LEMMA TodoIsSeenKept ==
  ASSUME Typed, Consistent, [Next]_vars
  PROVE  \A t \in Scanners : TodoIsSeen(t)'
<1>0. /\ TypeOK /\ ScansFormed /\ Consistent
      /\ \A s \in Scanners : TodoIsSeen(s)
  BY DEF Typed, Consistent, ScanGoesWithLedger
<1>1. ASSUME NEW s \in Scanners, Acquire(s)
      PROVE  \A t \in Scanners : TodoIsSeen(t)'
  BY <1>1, AcquireDoes, LeavesAlone, <1>0, OthersIdle DEF OnlyScan, Becomes, TodoIsSeen, Before
<1>2. ASSUME NEW s \in Scanners, Reopen(s)
      PROVE  \A t \in Scanners : TodoIsSeen(t)'
  BY <1>2, ReopenDoes, LeavesAlone, <1>0, OthersIdle
     DEF OnlyLedger, Becomes, ToPlace, RowStays, RowNamesTheSame, TodoIsSeen, Before
<1>3. ASSUME NEW s \in Scanners, Observe(s)
      PROVE  \A t \in Scanners : TodoIsSeen(t)'
  BY <1>3, ObserveDoes, LeavesAlone, <1>0, OthersIdle
     DEF OnlyLedger, Becomes, Lists, RowStays, RowNamesTheSame, TodoIsSeen, Before
<1>4. ASSUME NEW s \in Scanners, Resume(s)
      PROVE  \A t \in Scanners : TodoIsSeen(t)'
  BY <1>4, ResumeDoes, LeavesAlone, <1>0, OthersIdle
     DEF OnlyAssets, Becomes, AssetIsTheSame, TodoIsSeen, Before
<1>5. ASSUME NEW s \in Scanners, Resumed(s)
      PROVE  \A t \in Scanners : TodoIsSeen(t)'
  BY <1>5, ResumedDoes, LeavesAlone, <1>0, OthersIdle
     DEF OnlyLedger, Becomes, RowStays, RowNamesTheSame, TodoIsSeen, Before
<1>6. ASSUME NEW s \in Scanners, Check(s)
      PROVE  \A t \in Scanners : TodoIsSeen(t)'
  BY <1>6, CheckDoes, LeavesAlone, <1>0, OthersIdle DEF OnlyScan, Becomes, TodoIsSeen, Before
<1>7. ASSUME NEW s \in Scanners, Read(s)
      PROVE  \A t \in Scanners : TodoIsSeen(t)'
  BY <1>7, ReadDoes, LeavesAlone, <1>0, OthersIdle, AtWork
     DEF OnlyLedger, Becomes, Finished, ToPlace, OtherRowsStay, RowStays, RowNamesTheSame,
          TodoIsSeen, Before, Working, Handling
<1>8. ASSUME NEW s \in Scanners, Compare(s)
      PROVE  \A t \in Scanners : TodoIsSeen(t)'
  BY <1>8, CompareDoes, LeavesAlone, <1>0, OthersIdle
     DEF OnlyLedger, Becomes, Finished, ToPlace, OtherRowsStay, RowStays, TodoIsSeen, Before
<1>9. ASSUME NEW s \in Scanners, Register(s)
      PROVE  \A t \in Scanners : TodoIsSeen(t)'
  BY <1>9, RegisterDoes, LeavesAlone, <1>0, OthersIdle
     DEF OnlyScan, Becomes, Finished, ToPlace, TodoIsSeen, Before
<1>10. ASSUME NEW s \in Scanners, Commit(s)
      PROVE  \A t \in Scanners : TodoIsSeen(t)'
  BY <1>10, CommitDoes, LeavesAlone, <1>0, OthersIdle
     DEF Becomes, Finished, NewRow, NewAssetIs, OtherRowsStay, RowStays, TodoIsSeen, Before
<1>11. ASSUME NEW s \in Scanners, Enqueue(s)
      PROVE  \A t \in Scanners : TodoIsSeen(t)'
  BY <1>11, EnqueueDoes, LeavesAlone, <1>0, OthersIdle
     DEF OnlyAssets, Becomes, Finished, ToPlace, AssetIsTheSame, TodoIsSeen, Before
<1>12. ASSUME NEW s \in Scanners, Mark(s)
      PROVE  \A t \in Scanners : TodoIsSeen(t)'
  BY <1>12, MarkDoes, LeavesAlone, <1>0, OthersIdle
     DEF OnlyLedger, Becomes, Finished, OtherRowsStay, RowStays, RowNamesTheSame, TodoIsSeen,
          Before
<1>13. ASSUME NEW s \in Scanners, Raise(s)
      PROVE  \A t \in Scanners : TodoIsSeen(t)'
  BY <1>13, RaiseDoes, LeavesAlone, <1>0, OthersIdle
     DEF OnlyLedger, Becomes, Finished, OtherRowsStay, RowStays, RowNamesTheSame, TodoIsSeen,
          Before, Handling
<1>14. ASSUME NEW s \in Scanners, Renew(s)
      PROVE  \A t \in Scanners : TodoIsSeen(t)'
  BY <1>14, RenewDoes, LeavesAlone, <1>0, OthersIdle
     DEF OnlyScan, Becomes, ToPlace, ToIdle, TodoIsSeen, Before
<1>15. ASSUME NEW s \in Scanners, Stop(s)
      PROVE  \A t \in Scanners : TodoIsSeen(t)'
  BY <1>15, StopDoes, LeavesAlone, <1>0, OthersIdle
     DEF OnlyScan, Becomes, ToIdle, TodoIsSeen, Before
<1>16. ASSUME NEW s \in Scanners, Expire(s)
      PROVE  \A t \in Scanners : TodoIsSeen(t)'
  BY <1>16, LeavesAlone, <1>0 DEF OnlyScan, TodoIsSeen, Before
<1>17. ASSUME NEW s \in Scanners, Outlive(s)
      PROVE  \A t \in Scanners : TodoIsSeen(t)'
  BY <1>17, LeavesAlone, <1>0 DEF OnlyScan, TodoIsSeen, Before
<1>18. ASSUME NEW f \in Files, Remove(f)
      PROVE  \A t \in Scanners : TodoIsSeen(t)'
  BY <1>18, RemoveDoes, <1>0 DEF OnlyWorld, TodoIsSeen, Before
<1>19. ASSUME NEW f \in Files, Age(f)
      PROVE  \A t \in Scanners : TodoIsSeen(t)'
  BY <1>19, AgeDoes, PeopleLeaveAlone, <1>0 DEF OnlyLedger, RowNamesTheSame, TodoIsSeen, Before
<1>20. ASSUME NEW f \in Files, NEW c \in Contents, Write(f, c)
      PROVE  \A t \in Scanners : TodoIsSeen(t)'
  BY <1>20, WriteDoes, PeopleLeaveAlone, <1>0 DEF OnlyWorld, TodoIsSeen, Before
<1>21. ASSUME NEW c \in Contents, Upload(c)
      PROVE  \A t \in Scanners : TodoIsSeen(t)'
  BY <1>21, UploadDoes, PeopleLeaveAlone, <1>0 DEF OnlyAssets, NewAssetIs, TodoIsSeen, Before
<1>22. ASSUME NEW a \in Assets, Parse(a) \/ Delete(a)
      PROVE  \A t \in Scanners : TodoIsSeen(t)'
  BY <1>22, SettleDoes, PeopleLeaveAlone, <1>0 DEF OnlyAssets, TodoIsSeen, Before
<1>23. ASSUME UNCHANGED vars PROVE \A t \in Scanners : TodoIsSeen(t)'
  BY <1>0, <1>23 DEF vars, TodoIsSeen
<1> QED
  BY <1>1, <1>2, <1>3, <1>4, <1>5, <1>6, <1>7, <1>8, <1>9, <1>10, <1>11, <1>12, <1>13, <1>14,
       <1>15, <1>16, <1>17, <1>18, <1>19, <1>20, <1>21, <1>22, <1>23 DEF Next, Step, Stop

LEMMA HandIsPendingKept ==
  ASSUME Typed, Consistent, [Next]_vars
  PROVE  \A t \in Scanners : HandIsPending(t)'
<1>0. /\ TypeOK /\ ScansFormed /\ Consistent
      /\ \A s \in Scanners : HandIsPending(s)
  BY DEF Typed, Consistent, ScanGoesWithLedger
<1>00. \A s \in Scanners : scan[s].at \in Handling => scan[s].file \in Files
  BY <1>0 DEF ScansFormed, Working
<1>000. \A s \in Scanners : TodoIsSeen(s)
  BY DEF Consistent, ScanGoesWithLedger
<1>1. ASSUME NEW s \in Scanners, Acquire(s)
      PROVE  \A t \in Scanners : HandIsPending(t)'
  BY <1>1, AcquireDoes, LeavesAlone, <1>0, OthersIdle
     DEF OnlyScan, Becomes, HandIsPending, Handling
<1>2. ASSUME NEW s \in Scanners, Reopen(s)
      PROVE  \A t \in Scanners : HandIsPending(t)'
  BY <1>2, ReopenDoes, LeavesAlone, <1>0, OthersIdle
     DEF OnlyLedger, Becomes, ToPlace, RowStays, RowNamesTheSame, HandIsPending, Handling
<1>3. ASSUME NEW s \in Scanners, Observe(s)
      PROVE  \A t \in Scanners : HandIsPending(t)'
  BY <1>3, ObserveDoes, LeavesAlone, <1>0, OthersIdle
     DEF OnlyLedger, Becomes, Lists, RowStays, RowNamesTheSame, HandIsPending, Handling
<1>4. ASSUME NEW s \in Scanners, Resume(s)
      PROVE  \A t \in Scanners : HandIsPending(t)'
  BY <1>4, ResumeDoes, LeavesAlone, <1>0, OthersIdle
     DEF OnlyAssets, Becomes, AssetIsTheSame, HandIsPending, Handling
<1>5. ASSUME NEW s \in Scanners, Resumed(s)
      PROVE  \A t \in Scanners : HandIsPending(t)'
  BY <1>5, ResumedDoes, LeavesAlone, <1>0, OthersIdle
     DEF OnlyLedger, Becomes, RowStays, RowNamesTheSame, HandIsPending, Handling
<1>6. ASSUME NEW s \in Scanners, Check(s)
      PROVE  \A t \in Scanners : HandIsPending(t)'
  BY <1>6, CheckDoes, LeavesAlone, <1>0, OthersIdle, <1>000
     DEF OnlyScan, Becomes, HandIsPending, Handling, TodoIsSeen, Before
<1>7. ASSUME NEW s \in Scanners, Read(s)
      PROVE  \A t \in Scanners : HandIsPending(t)'
  BY <1>7, ReadDoes, LeavesAlone, <1>0, OthersIdle
     DEF OnlyLedger, Becomes, Finished, ToPlace, OtherRowsStay, RowStays, RowNamesTheSame,
          HandIsPending, Handling
<1>8. ASSUME NEW s \in Scanners, Compare(s)
      PROVE  \A t \in Scanners : HandIsPending(t)'
  BY <1>8, CompareDoes, LeavesAlone, <1>0, OthersIdle
     DEF OnlyLedger, Becomes, Finished, ToPlace, OtherRowsStay, RowStays, HandIsPending,
          Handling
<1>9. ASSUME NEW s \in Scanners, Register(s)
      PROVE  \A t \in Scanners : HandIsPending(t)'
  BY <1>9, RegisterDoes, LeavesAlone, <1>0, OthersIdle
     DEF OnlyScan, Becomes, Finished, ToPlace, HandIsPending, Handling
<1>10. ASSUME NEW s \in Scanners, Commit(s)
      PROVE  \A t \in Scanners : HandIsPending(t)'
  BY <1>10, CommitDoes, LeavesAlone, <1>0, OthersIdle
     DEF Becomes, Finished, NewRow, NewAssetIs, OtherRowsStay, RowStays, HandIsPending, Handling
<1>11. ASSUME NEW s \in Scanners, Enqueue(s)
      PROVE  \A t \in Scanners : HandIsPending(t)'
  BY <1>11, EnqueueDoes, LeavesAlone, <1>0, OthersIdle
     DEF OnlyAssets, Becomes, Finished, ToPlace, AssetIsTheSame, HandIsPending, Handling
<1>12. ASSUME NEW s \in Scanners, Mark(s)
      PROVE  \A t \in Scanners : HandIsPending(t)'
  BY <1>12, MarkDoes, LeavesAlone, <1>0, OthersIdle
     DEF OnlyLedger, Becomes, Finished, OtherRowsStay, RowStays, RowNamesTheSame, HandIsPending,
          Handling
<1>13. ASSUME NEW s \in Scanners, Raise(s)
      PROVE  \A t \in Scanners : HandIsPending(t)'
  BY <1>13, RaiseDoes, LeavesAlone, <1>0, OthersIdle
     DEF OnlyLedger, Becomes, Finished, OtherRowsStay, RowStays, RowNamesTheSame, HandIsPending,
          Handling
<1>14. ASSUME NEW s \in Scanners, Renew(s)
      PROVE  \A t \in Scanners : HandIsPending(t)'
  BY <1>14, RenewDoes, LeavesAlone, <1>0, OthersIdle
     DEF OnlyScan, Becomes, ToPlace, ToIdle, HandIsPending, Handling
<1>15. ASSUME NEW s \in Scanners, Stop(s)
      PROVE  \A t \in Scanners : HandIsPending(t)'
  BY <1>15, StopDoes, LeavesAlone, <1>0, OthersIdle
     DEF OnlyScan, Becomes, ToIdle, HandIsPending, Handling
<1>16. ASSUME NEW s \in Scanners, Expire(s)
      PROVE  \A t \in Scanners : HandIsPending(t)'
  BY <1>16, LeavesAlone, <1>0 DEF OnlyScan, HandIsPending, Handling
<1>17. ASSUME NEW s \in Scanners, Outlive(s)
      PROVE  \A t \in Scanners : HandIsPending(t)'
  BY <1>17, LeavesAlone, <1>0 DEF OnlyScan, HandIsPending, Handling
<1>18. ASSUME NEW f \in Files, Remove(f)
      PROVE  \A t \in Scanners : HandIsPending(t)'
  BY <1>18, RemoveDoes, <1>0 DEF OnlyWorld, HandIsPending, Handling
<1>19. ASSUME NEW f \in Files, Age(f)
      PROVE  \A t \in Scanners : HandIsPending(t)'
  BY <1>19, AgeDoes, PeopleLeaveAlone, <1>0, <1>00
     DEF OnlyLedger, RowNamesTheSame, HandIsPending, Handling
<1>20. ASSUME NEW f \in Files, NEW c \in Contents, Write(f, c)
      PROVE  \A t \in Scanners : HandIsPending(t)'
  BY <1>20, WriteDoes, PeopleLeaveAlone, <1>0 DEF OnlyWorld, HandIsPending, Handling
<1>21. ASSUME NEW c \in Contents, Upload(c)
      PROVE  \A t \in Scanners : HandIsPending(t)'
  BY <1>21, UploadDoes, PeopleLeaveAlone, <1>0 DEF OnlyAssets, NewAssetIs, HandIsPending, Handling
<1>22. ASSUME NEW a \in Assets, Parse(a) \/ Delete(a)
      PROVE  \A t \in Scanners : HandIsPending(t)'
  BY <1>22, SettleDoes, PeopleLeaveAlone, <1>0 DEF OnlyAssets, HandIsPending, Handling
<1>23. ASSUME UNCHANGED vars PROVE \A t \in Scanners : HandIsPending(t)'
  BY <1>0, <1>23 DEF vars, HandIsPending
<1> QED
  BY <1>1, <1>2, <1>3, <1>4, <1>5, <1>6, <1>7, <1>8, <1>9, <1>10, <1>11, <1>12, <1>13, <1>14,
       <1>15, <1>16, <1>17, <1>18, <1>19, <1>20, <1>21, <1>22, <1>23 DEF Next, Step, Stop

LEMMA SendingIsUploadedKept ==
  ASSUME Typed, Consistent, [Next]_vars
  PROVE  \A t \in Scanners : SendingIsUploaded(t)'
<1>0. /\ TypeOK /\ ScansFormed /\ Consistent
      /\ \A s \in Scanners : SendingIsUploaded(s)
  BY DEF Typed, Consistent, ScanGoesWithLedger
<1>00. \A s \in Scanners : scan[s].at \in Sending =>
          scan[s].file \in Files /\ scan[s].asset \in Assets
  BY <1>0 DEF ScansFormed, Working
<1>1. ASSUME NEW s \in Scanners, Acquire(s)
      PROVE  \A t \in Scanners : SendingIsUploaded(t)'
  BY <1>1, AcquireDoes, LeavesAlone, <1>0, OthersIdle
     DEF OnlyScan, Becomes, SendingIsUploaded, Sending
<1>2. ASSUME NEW s \in Scanners, Reopen(s)
      PROVE  \A t \in Scanners : SendingIsUploaded(t)'
  BY <1>2, ReopenDoes, LeavesAlone, <1>0, OthersIdle
     DEF OnlyLedger, Becomes, ToPlace, RowStays, RowNamesTheSame, SendingIsUploaded, Sending
<1>3. ASSUME NEW s \in Scanners, Observe(s)
      PROVE  \A t \in Scanners : SendingIsUploaded(t)'
  BY <1>3, ObserveDoes, LeavesAlone, <1>0, OthersIdle
     DEF OnlyLedger, Becomes, Lists, RowStays, RowNamesTheSame, SendingIsUploaded, Sending
<1>4. ASSUME NEW s \in Scanners, Resume(s)
      PROVE  \A t \in Scanners : SendingIsUploaded(t)'
  BY <1>4, ResumeDoes, LeavesAlone, <1>0, OthersIdle
     DEF OnlyAssets, Becomes, AssetIsTheSame, SendingIsUploaded, Sending
<1>5. ASSUME NEW s \in Scanners, Resumed(s)
      PROVE  \A t \in Scanners : SendingIsUploaded(t)'
  BY <1>5, ResumedDoes, LeavesAlone, <1>0, OthersIdle
     DEF OnlyLedger, Becomes, RowStays, RowNamesTheSame, SendingIsUploaded, Sending
<1>6. ASSUME NEW s \in Scanners, Check(s)
      PROVE  \A t \in Scanners : SendingIsUploaded(t)'
  BY <1>6, CheckDoes, LeavesAlone, <1>0, OthersIdle
     DEF OnlyScan, Becomes, SendingIsUploaded, Sending
<1>7. ASSUME NEW s \in Scanners, Read(s)
      PROVE  \A t \in Scanners : SendingIsUploaded(t)'
  BY <1>7, ReadDoes, LeavesAlone, <1>0, OthersIdle
     DEF OnlyLedger, Becomes, Finished, ToPlace, OtherRowsStay, RowStays, RowNamesTheSame,
          SendingIsUploaded, Sending
<1>8. ASSUME NEW s \in Scanners, Compare(s)
      PROVE  \A t \in Scanners : SendingIsUploaded(t)'
  BY <1>8, CompareDoes, LeavesAlone, <1>0, OthersIdle
     DEF OnlyLedger, Becomes, Finished, ToPlace, OtherRowsStay, RowStays, SendingIsUploaded,
          Sending
<1>9. ASSUME NEW s \in Scanners, Register(s)
      PROVE  \A t \in Scanners : SendingIsUploaded(t)'
  BY <1>9, RegisterDoes, LeavesAlone, <1>0, OthersIdle
     DEF OnlyScan, Becomes, Finished, ToPlace, SendingIsUploaded, Sending
<1>10. ASSUME NEW s \in Scanners, Commit(s)
      PROVE  \A t \in Scanners : SendingIsUploaded(t)'
  BY <1>10, CommitDoes, LeavesAlone, <1>0, OthersIdle
     DEF Becomes, Finished, NewRow, NewAssetIs, OtherRowsStay, RowStays, SendingIsUploaded,
          Sending
<1>11. ASSUME NEW s \in Scanners, Enqueue(s)
      PROVE  \A t \in Scanners : SendingIsUploaded(t)'
  BY <1>11, EnqueueDoes, LeavesAlone, <1>0, OthersIdle
     DEF OnlyAssets, Becomes, Finished, ToPlace, AssetIsTheSame, SendingIsUploaded, Sending
<1>12. ASSUME NEW s \in Scanners, Mark(s)
      PROVE  \A t \in Scanners : SendingIsUploaded(t)'
  BY <1>12, MarkDoes, LeavesAlone, <1>0, OthersIdle
     DEF OnlyLedger, Becomes, Finished, OtherRowsStay, RowStays, RowNamesTheSame,
          SendingIsUploaded, Sending
<1>13. ASSUME NEW s \in Scanners, Raise(s)
      PROVE  \A t \in Scanners : SendingIsUploaded(t)'
  BY <1>13, RaiseDoes, LeavesAlone, <1>0, OthersIdle
     DEF OnlyLedger, Becomes, Finished, OtherRowsStay, RowStays, RowNamesTheSame,
          SendingIsUploaded, Sending, Handling
<1>14. ASSUME NEW s \in Scanners, Renew(s)
      PROVE  \A t \in Scanners : SendingIsUploaded(t)'
  BY <1>14, RenewDoes, LeavesAlone, <1>0, OthersIdle
     DEF OnlyScan, Becomes, ToPlace, ToIdle, SendingIsUploaded, Sending
<1>15. ASSUME NEW s \in Scanners, Stop(s)
      PROVE  \A t \in Scanners : SendingIsUploaded(t)'
  BY <1>15, StopDoes, LeavesAlone, <1>0, OthersIdle
     DEF OnlyScan, Becomes, ToIdle, SendingIsUploaded, Sending
<1>16. ASSUME NEW s \in Scanners, Expire(s)
      PROVE  \A t \in Scanners : SendingIsUploaded(t)'
  BY <1>16, LeavesAlone, <1>0 DEF OnlyScan, SendingIsUploaded, Sending
<1>17. ASSUME NEW s \in Scanners, Outlive(s)
      PROVE  \A t \in Scanners : SendingIsUploaded(t)'
  BY <1>17, LeavesAlone, <1>0 DEF OnlyScan, SendingIsUploaded, Sending
<1>18. ASSUME NEW f \in Files, Remove(f)
      PROVE  \A t \in Scanners : SendingIsUploaded(t)'
  BY <1>18, RemoveDoes, <1>0 DEF OnlyWorld, SendingIsUploaded, Sending
<1>19. ASSUME NEW f \in Files, Age(f)
      PROVE  \A t \in Scanners : SendingIsUploaded(t)'
  BY <1>19, AgeDoes, PeopleLeaveAlone, <1>0, <1>00
     DEF OnlyLedger, RowNamesTheSame, SendingIsUploaded, Sending
<1>20. ASSUME NEW f \in Files, NEW c \in Contents, Write(f, c)
      PROVE  \A t \in Scanners : SendingIsUploaded(t)'
  BY <1>20, WriteDoes, PeopleLeaveAlone, <1>0 DEF OnlyWorld, SendingIsUploaded, Sending
<1>21. ASSUME NEW c \in Contents, Upload(c)
      PROVE  \A t \in Scanners : SendingIsUploaded(t)'
  BY <1>21, UploadDoes, PeopleLeaveAlone, <1>0, <1>00
     DEF OnlyAssets, NewAssetIs, SendingIsUploaded, Sending
<1>22. ASSUME NEW a \in Assets, Parse(a) \/ Delete(a)
      PROVE  \A t \in Scanners : SendingIsUploaded(t)'
  BY <1>22, SettleDoes, PeopleLeaveAlone, <1>0, <1>00 DEF OnlyAssets, SendingIsUploaded, Sending
<1>23. ASSUME UNCHANGED vars PROVE \A t \in Scanners : SendingIsUploaded(t)'
  BY <1>0, <1>23 DEF vars, SendingIsUploaded
<1> QED
  BY <1>1, <1>2, <1>3, <1>4, <1>5, <1>6, <1>7, <1>8, <1>9, <1>10, <1>11, <1>12, <1>13, <1>14,
       <1>15, <1>16, <1>17, <1>18, <1>19, <1>20, <1>21, <1>22, <1>23 DEF Next, Step, Stop

LEMMA ResumedIsSentKept ==
  ASSUME Typed, Consistent, [Next]_vars
  PROVE  \A t \in Scanners : ResumedIsSent(t)'
<1>0. /\ TypeOK /\ ScansFormed /\ Consistent
      /\ \A s \in Scanners : ResumedIsSent(s)
  BY DEF Typed, Consistent, ScanGoesWithLedger
<1>00. /\ \A s \in Scanners : scan[s].rows \subseteq Files
       /\ \A f \in Files : ledger[f].asset \in Assets => ledger[f].asset \notin Free
  BY ScanFields, NoneAssumption, BoundsAssumption DEF Typed, TypeOK, RowsNameAssets, Free, Assets
<1>1. ASSUME NEW s \in Scanners, Acquire(s)
      PROVE  \A t \in Scanners : ResumedIsSent(t)'
  BY <1>1, AcquireDoes, LeavesAlone, <1>0, OthersIdle DEF OnlyScan, Becomes, ResumedIsSent
<1>2. ASSUME NEW s \in Scanners, Reopen(s)
      PROVE  \A t \in Scanners : ResumedIsSent(t)'
  BY <1>2, ReopenDoes, LeavesAlone, <1>0, OthersIdle
     DEF OnlyLedger, Becomes, ToPlace, RowStays, RowNamesTheSame, ResumedIsSent
<1>3. ASSUME NEW s \in Scanners, Observe(s)
      PROVE  \A t \in Scanners : ResumedIsSent(t)'
  BY <1>3, ObserveDoes, LeavesAlone, <1>0, OthersIdle
     DEF OnlyLedger, Becomes, Lists, RowStays, RowNamesTheSame, ResumedIsSent
<1>4. ASSUME NEW s \in Scanners, Resume(s)
      PROVE  \A t \in Scanners : ResumedIsSent(t)'
  BY <1>4, ResumeDoes, LeavesAlone, <1>0, OthersIdle
     DEF OnlyAssets, Becomes, AssetIsTheSame, ResumedIsSent
<1>5. ASSUME NEW s \in Scanners, Resumed(s)
      PROVE  \A t \in Scanners : ResumedIsSent(t)'
  BY <1>5, ResumedDoes, LeavesAlone, <1>0, OthersIdle
     DEF OnlyLedger, Becomes, RowStays, RowNamesTheSame, ResumedIsSent
<1>6. ASSUME NEW s \in Scanners, Check(s)
      PROVE  \A t \in Scanners : ResumedIsSent(t)'
  BY <1>6, CheckDoes, LeavesAlone, <1>0, OthersIdle DEF OnlyScan, Becomes, ResumedIsSent
<1>7. ASSUME NEW s \in Scanners, Read(s)
      PROVE  \A t \in Scanners : ResumedIsSent(t)'
  BY <1>7, ReadDoes, LeavesAlone, <1>0, OthersIdle
     DEF OnlyLedger, Becomes, Finished, ToPlace, OtherRowsStay, RowStays, RowNamesTheSame,
          ResumedIsSent
<1>8. ASSUME NEW s \in Scanners, Compare(s)
      PROVE  \A t \in Scanners : ResumedIsSent(t)'
  BY <1>8, CompareDoes, LeavesAlone, <1>0, OthersIdle
     DEF OnlyLedger, Becomes, Finished, ToPlace, OtherRowsStay, RowStays, ResumedIsSent
<1>9. ASSUME NEW s \in Scanners, Register(s)
      PROVE  \A t \in Scanners : ResumedIsSent(t)'
  BY <1>9, RegisterDoes, LeavesAlone, <1>0, OthersIdle
     DEF OnlyScan, Becomes, Finished, ToPlace, ResumedIsSent
<1>10. ASSUME NEW s \in Scanners, Commit(s)
      PROVE  \A t \in Scanners : ResumedIsSent(t)'
  BY <1>10, CommitDoes, LeavesAlone, <1>0, OthersIdle
     DEF Becomes, Finished, NewRow, NewAssetIs, OtherRowsStay, RowStays, ResumedIsSent
<1>11. ASSUME NEW s \in Scanners, Enqueue(s)
      PROVE  \A t \in Scanners : ResumedIsSent(t)'
  BY <1>11, EnqueueDoes, LeavesAlone, <1>0, OthersIdle
     DEF OnlyAssets, Becomes, Finished, ToPlace, AssetIsTheSame, ResumedIsSent
<1>12. ASSUME NEW s \in Scanners, Mark(s)
      PROVE  \A t \in Scanners : ResumedIsSent(t)'
  BY <1>12, MarkDoes, LeavesAlone, <1>0, OthersIdle
     DEF OnlyLedger, Becomes, Finished, OtherRowsStay, RowStays, RowNamesTheSame, ResumedIsSent
<1>13. ASSUME NEW s \in Scanners, Raise(s)
      PROVE  \A t \in Scanners : ResumedIsSent(t)'
  BY <1>13, RaiseDoes, LeavesAlone, <1>0, OthersIdle
     DEF OnlyLedger, Becomes, Finished, OtherRowsStay, RowStays, RowNamesTheSame, ResumedIsSent,
          Handling
<1>14. ASSUME NEW s \in Scanners, Renew(s)
      PROVE  \A t \in Scanners : ResumedIsSent(t)'
  BY <1>14, RenewDoes, LeavesAlone, <1>0, OthersIdle
     DEF OnlyScan, Becomes, ToPlace, ToIdle, ResumedIsSent
<1>15. ASSUME NEW s \in Scanners, Stop(s)
      PROVE  \A t \in Scanners : ResumedIsSent(t)'
  BY <1>15, StopDoes, LeavesAlone, <1>0, OthersIdle DEF OnlyScan, Becomes, ToIdle, ResumedIsSent
<1>16. ASSUME NEW s \in Scanners, Expire(s)
      PROVE  \A t \in Scanners : ResumedIsSent(t)'
  BY <1>16, LeavesAlone, <1>0 DEF OnlyScan, ResumedIsSent
<1>17. ASSUME NEW s \in Scanners, Outlive(s)
      PROVE  \A t \in Scanners : ResumedIsSent(t)'
  BY <1>17, LeavesAlone, <1>0 DEF OnlyScan, ResumedIsSent
<1>18. ASSUME NEW f \in Files, Remove(f)
      PROVE  \A t \in Scanners : ResumedIsSent(t)'
  BY <1>18, RemoveDoes, <1>0 DEF OnlyWorld, ResumedIsSent
<1>19. ASSUME NEW f \in Files, Age(f)
      PROVE  \A t \in Scanners : ResumedIsSent(t)'
  BY <1>19, AgeDoes, PeopleLeaveAlone, <1>0, <1>00 DEF OnlyLedger, RowNamesTheSame, ResumedIsSent
<1>20. ASSUME NEW f \in Files, NEW c \in Contents, Write(f, c)
      PROVE  \A t \in Scanners : ResumedIsSent(t)'
  BY <1>20, WriteDoes, PeopleLeaveAlone, <1>0 DEF OnlyWorld, ResumedIsSent
<1>21. ASSUME NEW c \in Contents, Upload(c)
      PROVE  \A t \in Scanners : ResumedIsSent(t)'
  BY <1>21, UploadDoes, PeopleLeaveAlone, <1>0, <1>00 DEF OnlyAssets, NewAssetIs, ResumedIsSent
<1>22. ASSUME NEW a \in Assets, Parse(a) \/ Delete(a)
      PROVE  \A t \in Scanners : ResumedIsSent(t)'
  BY <1>22, SettleDoes, PeopleLeaveAlone, <1>0, <1>00 DEF OnlyAssets, ResumedIsSent
<1>23. ASSUME UNCHANGED vars PROVE \A t \in Scanners : ResumedIsSent(t)'
  BY <1>0, <1>23 DEF vars, ResumedIsSent
<1> QED
  BY <1>1, <1>2, <1>3, <1>4, <1>5, <1>6, <1>7, <1>8, <1>9, <1>10, <1>11, <1>12, <1>13, <1>14,
       <1>15, <1>16, <1>17, <1>18, <1>19, <1>20, <1>21, <1>22, <1>23 DEF Next, Step, Stop

LEMMA Facts ==
  ASSUME Typed, Consistent
  PROVE  /\ TypeOK /\ ScansFormed /\ WritesKnown
         /\ \A s \in Scanners : /\ ListedIsOld(s) /\ TodoIsSeen(s) /\ HandIsPending(s)
                                /\ SendingIsUploaded(s) /\ ResumedIsSent(s)
         /\ \A f \in Files : RowKnows(f)
         /\ \A f \in Files : ledger[f].asset \in Assets \cup {None}
         /\ \A f \in Files : ledger[f].asset # None =>
                                ledger[f].asset \in Assets /\ ledger[f].asset \notin Free
  BY RowFields DEF Typed, TypeOK, Consistent, ScanGoesWithLedger, RowsKnow, RowsNameAssets, Free

LEMMA RowsKeepKnowing ==
  ASSUME Typed, Consistent, [Next]_vars
  PROVE  \A f \in Files : RowKnows(f)'
<1>0. Typed /\ TypeOK /\ ScansFormed
  BY DEF Typed
<1>00. RowsNameAssets
  BY DEF Typed
<1>1. ASSUME Quiet PROVE \A f \in Files : RowKnows(f)'
  BY <1>1, Facts DEF Quiet, RowKnows, Content
<1>2. ASSUME NEW s \in Scanners, Reopen(s)
      PROVE  \A f \in Files : RowKnows(f)'
  BY <1>2, ReopenDoes, LeavesAlone, <1>0, Facts
     DEF OnlyLedger, RowStays, RowNamesTheSame, RowKnows, Content
<1>3. ASSUME NEW s \in Scanners, Observe(s)
      PROVE  \A f \in Files : RowKnows(f)'
  BY <1>3, ObserveDoes, LeavesAlone, <1>0, Facts
     DEF OnlyLedger, Lists, RowStays, RowNamesTheSame, RowKnows, NoRow, Content
<1>4. ASSUME NEW s \in Scanners, Resume(s)
      PROVE  \A f \in Files : RowKnows(f)'
  BY <1>4, ResumeDoes, LeavesAlone, <1>0, Facts DEF OnlyAssets, AssetIsTheSame, RowKnows, Content
<1>5. ASSUME NEW s \in Scanners, Resumed(s)
      PROVE  \A f \in Files : RowKnows(f)'
  BY <1>5, ResumedDoes, LeavesAlone, <1>0, Facts
     DEF OnlyLedger, RowStays, RowNamesTheSame, RowKnows, Content, ResumedIsSent
<1>6. ASSUME NEW s \in Scanners, Read(s)
      PROVE  \A f \in Files : RowKnows(f)'
  BY <1>6, ReadDoes, LeavesAlone, <1>0, AtWork, Facts
     DEF OnlyLedger, OtherRowsStay, RowStays, RowNamesTheSame, RowKnows, Content, Working,
          Handling, HandIsPending
<1>7. ASSUME NEW s \in Scanners, Compare(s)
      PROVE  \A f \in Files : RowKnows(f)'
  <2>1. /\ scan[s].file \in Files /\ scan[s].write # 0
        /\ ledger[scan[s].file].seen = scan[s].write
    BY <1>7, <1>0, CompareDoes, AtWork, Facts DEF Working, Handling, HandIsPending
  <2>2. ASSUME NEW a \in Duplicates(Content(scan[s].write))
        PROVE  a \in Assets /\ a # None /\ asset[a].content = Content(scan[s].write)
    BY <1>00, BoundsAssumption, NoneAssumption DEF Duplicates, RowsNameAssets, Assets
  <2> QED
    BY <1>7, <1>0, <2>1, <2>2, CompareDoes, LeavesAlone, Facts
       DEF OnlyLedger, OtherRowsStay, RowStays, RowKnows, Content
<1>8. ASSUME NEW s \in Scanners, Commit(s)
      PROVE  \A f \in Files : RowKnows(f)'
  <2>1. /\ scan[s].file \in Files /\ scan[s].write # 0
        /\ ledger[scan[s].file].seen = scan[s].write
    BY <1>8, <1>0, CommitDoes, AtWork, Facts DEF Working, Handling, HandIsPending
  <2>2. PICK a \in Free : NewRow(s, a) /\ NewAssetIs(a, Content(scan[s].write), scan[s].write)
    BY <1>8, CommitDoes
  <2>3. a \in Assets /\ a # None
    BY BoundsAssumption, NoneAssumption DEF Free, Assets
  <2>4. ASSUME NEW f \in Files, f = scan[s].file PROVE RowKnows(f)'
    BY <2>1, <2>2, <2>3, <2>4 DEF NewRow, NewAssetIs, RowKnows
  <2>5. ASSUME NEW f \in Files, f # scan[s].file PROVE RowKnows(f)'
    <3>1. written' = written /\ ledger'[f] = ledger[f]
      BY <1>8, <2>2, <2>5, LeavesAlone DEF NewRow, OtherRowsStay, RowStays
    <3>2. ledger[f].asset # None => asset'[ledger[f].asset] = asset[ledger[f].asset]
      BY <2>2, Facts DEF NewAssetIs
    <3> QED
      BY <3>1, <3>2, Facts DEF RowKnows, Content
  <2> QED
    BY <2>4, <2>5
<1>9. ASSUME NEW s \in Scanners, Enqueue(s)
      PROVE  \A f \in Files : RowKnows(f)'
  BY <1>9, EnqueueDoes, LeavesAlone, <1>0, Facts DEF OnlyAssets, AssetIsTheSame, RowKnows, Content
<1>10. ASSUME NEW s \in Scanners, Mark(s)
      PROVE  \A f \in Files : RowKnows(f)'
  BY <1>10, MarkDoes, LeavesAlone, <1>0, Facts
     DEF OnlyLedger, OtherRowsStay, RowStays, RowNamesTheSame, RowKnows, Content
<1>11. ASSUME NEW s \in Scanners, Raise(s)
      PROVE  \A f \in Files : RowKnows(f)'
  BY <1>11, RaiseDoes, LeavesAlone, <1>0, AtWork, Facts
     DEF OnlyLedger, OtherRowsStay, RowStays, RowNamesTheSame, RowKnows, Content, Working,
          Handling, HandIsPending
<1>12. ASSUME NEW f \in Files, Age(f)
      PROVE  \A g \in Files : RowKnows(g)'
  BY <1>12, AgeDoes, PeopleLeaveAlone, <1>0, Facts
     DEF OnlyLedger, RowNamesTheSame, RowKnows, Content
<1>13. ASSUME NEW f \in Files, NEW c \in Contents, Write(f, c)
      PROVE  \A g \in Files : RowKnows(g)'
  BY <1>13, WriteDoes, PeopleLeaveAlone, <1>0, Numbers, Facts
     DEF OnlyWorld, RowKnows, WritesKnown, Content
<1>14. ASSUME NEW c \in Contents, Upload(c)
      PROVE  \A f \in Files : RowKnows(f)'
  BY <1>14, UploadDoes, PeopleLeaveAlone, <1>0, Facts
     DEF OnlyAssets, NewAssetIs, RowKnows, Free, Content
<1>15. ASSUME NEW a \in Assets, Parse(a) \/ Delete(a)
      PROVE  \A f \in Files : RowKnows(f)'
  BY <1>15, SettleDoes, PeopleLeaveAlone, <1>0, Facts DEF OnlyAssets, RowKnows, Content
<1> QED
  BY <1>1, <1>2, <1>3, <1>4, <1>5, <1>6, <1>7, <1>8, <1>9, <1>10, <1>11, <1>12, <1>13, <1>14,
       <1>15, StepKinds

(* The row of a registered write stays while its file does. *)
LEMMA RegisteredRowStays ==
  ASSUME Typed, Consistent, NEW f \in Files, NEW w \in Nat, w # 0, written' = written,
         ledger[f].seen = w, ledger[f].status \in {"uploaded", "done"}, Current(f, w)', [Next]_vars
  PROVE  ledger'[f].seen = w /\ ledger'[f].status \in {"uploaded", "done"}
<1>0. TypeOK /\ ScansFormed
  BY DEF Typed
<1>1. ASSUME Quiet PROVE ledger'[f].seen = w /\ ledger'[f].status \in {"uploaded", "done"}
  BY <1>1 DEF Quiet
<1>2. ASSUME NEW s \in Scanners, Reopen(s)
      PROVE  ledger'[f].seen = w /\ ledger'[f].status \in {"uploaded", "done"}
  BY <1>2, ReopenDoes, LeavesAlone, <1>0, Facts
     DEF OnlyLedger, Becomes, ToPlace, RowStays, RowNamesTheSame
<1>3. ASSUME NEW s \in Scanners, Observe(s)
      PROVE  ledger'[f].seen = w /\ ledger'[f].status \in {"uploaded", "done"}
  <2>1. PICK todo \in [Files -> 0 .. MaxWrites] :
              /\ Becomes(s, "resume", todo, scan[s].read, scan[s].file, scan[s].write,
                         scan[s].asset, scan[s].rows)
              /\ \A g \in Files : todo[g] # 0 =>
                    todo[g] = scan[s].todo[g] /\ ledger[g].seen = todo[g] /\ RowStays(g)
    BY <1>3, <1>0, ObserveDoes
  <2>2. /\ scan[s].at = "observe" /\ scan[s].write = 0
        /\ \A t \in Scanners : t # s => scan[t].todo[f] = 0 /\ scan[t].write = 0
    BY <1>3, <1>0, ObserveDoes, OthersIdle
       DEF ScansFormed, Idle, Working, Handling, Sending
  <2>3. disk[f] = w \/ scan'[s].todo[f] = w
    BY <1>3, <2>1, <2>2, LeavesAlone DEF Current, Speaks, Becomes, OnlyLedger
  <2>4. CASE scan'[s].todo[f] = w
    BY <2>1, <2>4 DEF Becomes, RowStays
  <2>5. CASE disk[f] = w
    <3>1. disk[f] = scan[s].todo[f]
      BY <1>0, <2>2, <2>5, Facts, Numbers DEF ListedIsOld, Before
    <3>2. RowStays(f)
      BY <1>3, <1>0, <2>5, <3>1, ObserveDoes DEF Lists
    <3> QED
      BY <3>2 DEF RowStays
  <2> QED
    BY <2>3, <2>4, <2>5
<1>4. ASSUME NEW s \in Scanners, Resume(s)
      PROVE  ledger'[f].seen = w /\ ledger'[f].status \in {"uploaded", "done"}
  BY <1>4, ResumeDoes, LeavesAlone, <1>0, Facts DEF OnlyAssets, Becomes, AssetIsTheSame
<1>5. ASSUME NEW s \in Scanners, Resumed(s)
      PROVE  ledger'[f].seen = w /\ ledger'[f].status \in {"uploaded", "done"}
  BY <1>5, ResumedDoes, LeavesAlone, <1>0, Facts
     DEF OnlyLedger, Becomes, RowStays, RowNamesTheSame
<1>6. ASSUME NEW s \in Scanners, Read(s)
      PROVE  ledger'[f].seen = w /\ ledger'[f].status \in {"uploaded", "done"}
  BY <1>6, ReadDoes, LeavesAlone, <1>0, Facts
     DEF OnlyLedger, Becomes, Finished, ToPlace, OtherRowsStay, RowStays, RowNamesTheSame,
          HandIsPending, Handling
<1>7. ASSUME NEW s \in Scanners, Compare(s)
      PROVE  ledger'[f].seen = w /\ ledger'[f].status \in {"uploaded", "done"}
  BY <1>7, CompareDoes, LeavesAlone, <1>0, Facts
     DEF OnlyLedger, Becomes, Finished, ToPlace, OtherRowsStay, RowStays, HandIsPending,
          Handling
<1>8. ASSUME NEW s \in Scanners, Commit(s)
      PROVE  ledger'[f].seen = w /\ ledger'[f].status \in {"uploaded", "done"}
  BY <1>8, CommitDoes, LeavesAlone, <1>0, Facts
     DEF Becomes, Finished, NewRow, NewAssetIs, OtherRowsStay, RowStays, HandIsPending, Handling
<1>9. ASSUME NEW s \in Scanners, Enqueue(s)
      PROVE  ledger'[f].seen = w /\ ledger'[f].status \in {"uploaded", "done"}
  BY <1>9, EnqueueDoes, LeavesAlone, <1>0, Facts
     DEF OnlyAssets, Becomes, Finished, ToPlace, AssetIsTheSame
<1>10. ASSUME NEW s \in Scanners, Mark(s)
      PROVE  ledger'[f].seen = w /\ ledger'[f].status \in {"uploaded", "done"}
  BY <1>10, MarkDoes, LeavesAlone, <1>0, Facts
     DEF OnlyLedger, Becomes, Finished, OtherRowsStay, RowStays, RowNamesTheSame
<1>11. ASSUME NEW s \in Scanners, Raise(s)
      PROVE  ledger'[f].seen = w /\ ledger'[f].status \in {"uploaded", "done"}
  BY <1>11, RaiseDoes, LeavesAlone, <1>0, Facts
     DEF OnlyLedger, Becomes, Finished, OtherRowsStay, RowStays, RowNamesTheSame, HandIsPending,
          Handling
<1>12. ASSUME NEW g \in Files, Age(g)
      PROVE  ledger'[f].seen = w /\ ledger'[f].status \in {"uploaded", "done"}
  BY <1>12, AgeDoes, PeopleLeaveAlone, <1>0, Facts DEF OnlyLedger, RowNamesTheSame
<1>13. ASSUME NEW g \in Files, NEW c \in Contents, Write(g, c)
      PROVE  ledger'[f].seen = w /\ ledger'[f].status \in {"uploaded", "done"}
  BY <1>13, WriteDoes, Numbers, <1>0
<1>14. ASSUME NEW c \in Contents, Upload(c)
      PROVE  ledger'[f].seen = w /\ ledger'[f].status \in {"uploaded", "done"}
  BY <1>14, UploadDoes, PeopleLeaveAlone, <1>0, Facts DEF OnlyAssets, NewAssetIs
<1>15. ASSUME NEW a \in Assets, Parse(a) \/ Delete(a)
      PROVE  ledger'[f].seen = w /\ ledger'[f].status \in {"uploaded", "done"}
  BY <1>15, SettleDoes, PeopleLeaveAlone, <1>0, Facts DEF OnlyAssets
<1> QED
  BY <1>1, <1>2, <1>3, <1>4, <1>5, <1>6, <1>7, <1>8, <1>9, <1>10, <1>11, <1>12, <1>13, <1>14,
       <1>15, StepKinds

(* Only a commit gives an asset a write: the one at hand. *)
LEMMA WritesOfAssets ==
  ASSUME Typed, NEW a \in Assets, [Next]_vars
  PROVE  \/ asset'[a].write = asset[a].write
         \/ \E s \in Scanners : /\ Commit(s) /\ a \in Free /\ NewRow(s, a)
                                /\ NewAssetIs(a, Content(scan[s].write), scan[s].write)
<1> DEFINE Origin == \/ asset'[a].write = asset[a].write
                     \/ \E s \in Scanners : /\ Commit(s) /\ a \in Free /\ NewRow(s, a)
                                            /\ NewAssetIs(a, Content(scan[s].write), scan[s].write)
<1>0. TypeOK /\ ScansFormed
  BY DEF Typed
<1>00. \A b \in Free : asset[b].write = 0
  BY DEF Typed, FreeAreEmpty
<1>1. ASSUME Quiet PROVE Origin
  BY <1>1 DEF Quiet
<1>2. ASSUME NEW s \in Scanners, Reopen(s)
      PROVE  Origin
  BY <1>2, LeavesAlone DEF OnlyLedger
<1>3. ASSUME NEW s \in Scanners, Observe(s)
      PROVE  Origin
  BY <1>3, LeavesAlone DEF OnlyLedger
<1>4. ASSUME NEW s \in Scanners, Resume(s)
      PROVE  Origin
  BY <1>4, ResumeDoes, LeavesAlone, <1>0 DEF OnlyAssets, AssetIsTheSame
<1>5. ASSUME NEW s \in Scanners, Resumed(s)
      PROVE  Origin
  BY <1>5, LeavesAlone DEF OnlyLedger
<1>6. ASSUME NEW s \in Scanners, Read(s)
      PROVE  Origin
  BY <1>6, LeavesAlone DEF OnlyLedger
<1>7. ASSUME NEW s \in Scanners, Compare(s)
      PROVE  Origin
  BY <1>7, LeavesAlone DEF OnlyLedger
<1>8. ASSUME NEW s \in Scanners, Commit(s)
      PROVE  Origin
  BY <1>8, <1>0, CommitDoes DEF NewAssetIs
<1>9. ASSUME NEW s \in Scanners, Enqueue(s)
      PROVE  Origin
  BY <1>9, EnqueueDoes, LeavesAlone, <1>0 DEF OnlyAssets, AssetIsTheSame
<1>10. ASSUME NEW s \in Scanners, Mark(s)
      PROVE  Origin
  BY <1>10, LeavesAlone DEF OnlyLedger
<1>11. ASSUME NEW s \in Scanners, Raise(s)
      PROVE  Origin
  BY <1>11, LeavesAlone DEF OnlyLedger
<1>12. ASSUME NEW f \in Files, Age(f)
      PROVE  Origin
  BY <1>12, PeopleLeaveAlone DEF OnlyLedger
<1>13. ASSUME NEW f \in Files, NEW c \in Contents, Write(f, c)
      PROVE  Origin
  BY <1>13, PeopleLeaveAlone DEF OnlyWorld
<1>14. ASSUME NEW c \in Contents, Upload(c)
      PROVE  Origin
  BY <1>14, UploadDoes, PeopleLeaveAlone, <1>0, <1>00 DEF OnlyAssets, NewAssetIs, Free
<1>15. ASSUME NEW b \in Assets, Parse(b) \/ Delete(b)
      PROVE  Origin
  BY <1>15, SettleDoes, PeopleLeaveAlone, <1>0 DEF OnlyAssets
<1> QED
  BY <1>1, <1>2, <1>3, <1>4, <1>5, <1>6, <1>7, <1>8, <1>9, <1>10, <1>11, <1>12, <1>13, <1>14,
       <1>15, StepKinds

LEMMA RegisteredStaysKnown ==
  ASSUME Typed, Typed', Consistent, [Next]_vars
  PROVE  RegisteredIsKnown'
<1> SUFFICES ASSUME NEW a \in Assets, NEW f \in Files, NEW w, w = asset'[a].write, w # 0,
                    Current(f, w)'
             PROVE  ledger'[f].seen = w /\ ledger'[f].status \in {"uploaded", "done"}
  BY DEF RegisteredIsKnown, Own, Current, Speaks
<1>1. w \in Nat /\ TypeOK /\ WritesKnown /\ ScansFormed
  <2>1. TypeOK'
    BY DEF Typed
  <2>2. asset'[a] \in AssetRows
    BY <2>1 DEF TypeOK
  <2> QED
    BY <2>2, AssetFields, BoundsAssumption DEF Typed
<1>2. CASE written' = written /\ asset'[a].write = asset[a].write
  <2>1. Current(f, w)
    BY <1>1, <1>2, CurrentShrinks
  <2>2. ledger[f].seen = w /\ ledger[f].status \in {"uploaded", "done"}
    BY <1>2, <2>1 DEF Consistent, RegisteredIsKnown, Own
  <2> QED
    BY <1>1, <1>2, <2>2, RegisteredRowStays
<1>3. ASSUME NEW s \in Scanners, Commit(s), a \in Free, NewRow(s, a),
             NewAssetIs(a, Content(scan[s].write), scan[s].write)
      PROVE  ledger'[f].seen = w /\ ledger'[f].status \in {"uploaded", "done"}
  <2>1. w = scan[s].write /\ written' = written
    BY <1>3, LeavesAlone DEF NewAssetIs
  <2>2. /\ scan[s].file \in Files /\ w <= Len(written) /\ Len(written) \in Nat
        /\ ledger[scan[s].file].seen = w
    BY <1>1, <1>3, <2>1, CommitDoes, AtWork, Facts, Numbers
       DEF Working, Handling, HandIsPending, WritesKnown
  <2>3. Of(f, w) /\ Of(scan[s].file, w)
    BY <1>1, <2>1, <2>2, CurrentShrinks DEF Of, Current, Speaks
  <2>4. f = scan[s].file
    BY <1>1, <2>2, <2>3 DEF Consistent, WritesApart
  <2> QED
    BY <1>3, <2>2, <2>4 DEF NewRow
<1>4. ASSUME NEW g \in Files, NEW c \in Contents, Write(g, c)
      PROVE  ledger'[f].seen = w /\ ledger'[f].status \in {"uploaded", "done"}
  <2>1. asset' = asset /\ ledger' = ledger
    BY <1>4, PeopleLeaveAlone DEF OnlyWorld
  <2>2. w <= Len(written) /\ Len(written) \in Nat
    BY <1>1, <2>1, Numbers DEF WritesKnown
  <2>3. Current(f, w)
    BY <1>1, <1>4, <2>2, WriteIsNew
  <2> QED
    BY <2>1, <2>3 DEF Consistent, RegisteredIsKnown, Own
<1> QED
  BY <1>2, <1>3, <1>4, OnlyWritesWrite, WritesOfAssets

LEMMA WritesOnceKept ==
  ASSUME Typed, Consistent, [Next]_vars
  PROVE  WritesOnce'
<1>1. ASSUME NEW s \in Scanners, Commit(s), NEW a \in Assets, Own(a)
      PROVE  asset[a].write # scan[s].write
  <2>1. /\ scan[s].file \in Files /\ ledger[scan[s].file].status = "pending_stable"
    BY <1>1, CommitDoes, AtWork, Facts DEF Working, Handling, HandIsPending
  <2>2. Current(scan[s].file, scan[s].write)
    BY DEF Current, Speaks
  <2> QED
    BY <1>1, <2>1, <2>2 DEF Consistent, RegisteredIsKnown
<1>2. ASSUME NEW a \in Assets, NEW b \in Assets, a # b, Own(a)', Own(b)',
             asset'[a].write = asset[a].write
      PROVE  asset'[a].write # asset'[b].write
  <2>1. CASE asset'[b].write = asset[b].write
    BY <1>2, <2>1 DEF Consistent, WritesOnce, Own
  <2>2. ASSUME NEW s \in Scanners, Commit(s),
               NewAssetIs(b, Content(scan[s].write), scan[s].write)
        PROVE  asset'[a].write # asset'[b].write
    BY <1>1, <1>2, <2>2 DEF NewAssetIs, Own
  <2> QED
    BY <2>1, <2>2, WritesOfAssets
<1>3. ASSUME NEW a \in Assets, NEW b \in Assets, a # b, asset'[a].write # asset[a].write
      PROVE  asset'[b].write = asset[b].write
  BY <1>3, WritesOfAssets DEF NewAssetIs
<1> QED
  BY <1>2, <1>3 DEF WritesOnce

LEMMA RememberedKept ==
  ASSUME Typed, Consistent, [Next]_vars
  PROVE  Remembered'
<1>0. TypeOK /\ ScansFormed /\ Remembered
  BY DEF Typed, Consistent
<1>1. ASSUME Quiet PROVE Remembered'
  BY <1>1, <1>0 DEF Quiet, Remembered
<1>2. ASSUME NEW s \in Scanners, Reopen(s)
      PROVE  Remembered'
  BY <1>2, ReopenDoes, LeavesAlone, <1>0, Facts
     DEF OnlyLedger, RowStays, RowNamesTheSame, Remembered
<1>3. ASSUME NEW s \in Scanners, Observe(s)
      PROVE  Remembered'
  BY <1>3, ObserveDoes, LeavesAlone, <1>0, Facts
     DEF OnlyLedger, Lists, RowStays, RowNamesTheSame, Remembered, NoRow
<1>4. ASSUME NEW s \in Scanners, Resume(s)
      PROVE  Remembered'
  BY <1>4, ResumeDoes, LeavesAlone, <1>0, Facts DEF OnlyAssets, AssetIsTheSame, Remembered
<1>5. ASSUME NEW s \in Scanners, Resumed(s)
      PROVE  Remembered'
  BY <1>5, ResumedDoes, LeavesAlone, <1>0, Facts
     DEF OnlyLedger, RowStays, RowNamesTheSame, Remembered, ResumedIsSent
<1>6. ASSUME NEW s \in Scanners, Read(s)
      PROVE  Remembered'
  BY <1>6, ReadDoes, LeavesAlone, <1>0, Facts, AtWork
     DEF OnlyLedger, OtherRowsStay, RowStays, RowNamesTheSame, Remembered, Working, Handling,
          HandIsPending
<1>7. ASSUME NEW s \in Scanners, Compare(s)
      PROVE  Remembered'
  BY <1>7, CompareDoes, LeavesAlone, <1>0, Facts, AtWork
     DEF OnlyLedger, OtherRowsStay, RowStays, Remembered, Working, Handling, HandIsPending
<1>8. ASSUME NEW s \in Scanners, Commit(s)
      PROVE  Remembered'
  BY <1>8, CommitDoes, LeavesAlone, <1>0, Facts, AtWork
     DEF NewRow, NewAssetIs, OtherRowsStay, RowStays, Remembered, Working, Handling,
          HandIsPending
<1>9. ASSUME NEW s \in Scanners, Enqueue(s)
      PROVE  Remembered'
  BY <1>9, EnqueueDoes, LeavesAlone, <1>0, Facts DEF OnlyAssets, AssetIsTheSame, Remembered
<1>10. ASSUME NEW s \in Scanners, Mark(s)
      PROVE  Remembered'
  BY <1>10, MarkDoes, LeavesAlone, <1>0, Facts, AtWork
     DEF OnlyLedger, OtherRowsStay, RowStays, RowNamesTheSame, Remembered, Working, Sending,
          SendingIsUploaded
<1>11. ASSUME NEW s \in Scanners, Raise(s)
      PROVE  Remembered'
  BY <1>11, RaiseDoes, LeavesAlone, <1>0, Facts, AtWork
     DEF OnlyLedger, OtherRowsStay, RowStays, RowNamesTheSame, Remembered, Working, Handling,
          HandIsPending
<1>12. ASSUME NEW f \in Files, Age(f)
      PROVE  Remembered'
  BY <1>12, AgeDoes, PeopleLeaveAlone, <1>0, Facts DEF OnlyLedger, RowNamesTheSame, Remembered
<1>13. ASSUME NEW f \in Files, NEW c \in Contents, Write(f, c)
      PROVE  Remembered'
  BY <1>13, PeopleLeaveAlone, <1>0 DEF OnlyWorld, Remembered
<1>14. ASSUME NEW c \in Contents, Upload(c)
      PROVE  Remembered'
  BY <1>14, UploadDoes, PeopleLeaveAlone, <1>0, Facts DEF OnlyAssets, NewAssetIs, Remembered, Free
<1>15. ASSUME NEW a \in Assets, Parse(a) \/ Delete(a)
      PROVE  Remembered'
  BY <1>15, SettleDoes, PeopleLeaveAlone, <1>0, Facts DEF OnlyAssets, Remembered
<1> QED
  BY <1>1, <1>2, <1>3, <1>4, <1>5, <1>6, <1>7, <1>8, <1>9, <1>10, <1>11, <1>12, <1>13, <1>14,
       <1>15, StepKinds

(* A usable asset of the watch was one before, unless it is committed now. *)
LEMMA OwnUsableBefore ==
  ASSUME Typed, NEW a \in Assets, Own(a)', Usable(a)', [Next]_vars
  PROVE  \/ /\ Own(a) /\ Usable(a) /\ asset'[a].content = asset[a].content
            /\ asset'[a].status = "pending" => asset[a].status = "pending"
         \/ \E s \in Scanners : /\ Commit(s) /\ a \in Free
                                /\ NewAssetIs(a, Content(scan[s].write), scan[s].write)
<1> DEFINE Origin == \/ /\ Own(a) /\ Usable(a) /\ asset'[a].content = asset[a].content
                        /\ asset'[a].status = "pending" => asset[a].status = "pending"
                     \/ \E s \in Scanners : /\ Commit(s) /\ a \in Free
                                            /\ NewAssetIs(a, Content(scan[s].write), scan[s].write)
<1>0. TypeOK /\ ScansFormed /\ Own(a)' /\ Usable(a)'
  BY DEF Typed
<1>1. ASSUME Quiet PROVE Origin
  BY <1>1, <1>0 DEF Quiet, Own, Usable
<1>2. ASSUME NEW s \in Scanners, Reopen(s)
      PROVE  Origin
  BY <1>2, <1>0, LeavesAlone DEF OnlyLedger, Own, Usable
<1>3. ASSUME NEW s \in Scanners, Observe(s)
      PROVE  Origin
  BY <1>3, <1>0, LeavesAlone DEF OnlyLedger, Own, Usable
<1>4. ASSUME NEW s \in Scanners, Resume(s)
      PROVE  Origin
  BY <1>4, ResumeDoes, LeavesAlone, <1>0 DEF OnlyAssets, AssetIsTheSame, Own, Usable
<1>5. ASSUME NEW s \in Scanners, Resumed(s)
      PROVE  Origin
  BY <1>5, <1>0, LeavesAlone DEF OnlyLedger, Own, Usable
<1>6. ASSUME NEW s \in Scanners, Read(s)
      PROVE  Origin
  BY <1>6, <1>0, LeavesAlone DEF OnlyLedger, Own, Usable
<1>7. ASSUME NEW s \in Scanners, Compare(s)
      PROVE  Origin
  BY <1>7, <1>0, LeavesAlone DEF OnlyLedger, Own, Usable
<1>8. ASSUME NEW s \in Scanners, Commit(s)
      PROVE  Origin
  BY <1>8, <1>0, CommitDoes DEF NewAssetIs, Own, Usable
<1>9. ASSUME NEW s \in Scanners, Enqueue(s)
      PROVE  Origin
  BY <1>9, EnqueueDoes, LeavesAlone, <1>0 DEF OnlyAssets, AssetIsTheSame, Own, Usable
<1>10. ASSUME NEW s \in Scanners, Mark(s)
      PROVE  Origin
  BY <1>10, <1>0, LeavesAlone DEF OnlyLedger, Own, Usable
<1>11. ASSUME NEW s \in Scanners, Raise(s)
      PROVE  Origin
  BY <1>11, <1>0, LeavesAlone DEF OnlyLedger, Own, Usable
<1>12. ASSUME NEW f \in Files, Age(f)
      PROVE  Origin
  BY <1>12, <1>0, PeopleLeaveAlone DEF OnlyLedger, Own, Usable
<1>13. ASSUME NEW f \in Files, NEW c \in Contents, Write(f, c)
      PROVE  Origin
  BY <1>13, <1>0, PeopleLeaveAlone DEF OnlyWorld, Own, Usable
<1>14. ASSUME NEW c \in Contents, Upload(c)
      PROVE  Origin
  BY <1>14, UploadDoes, PeopleLeaveAlone, <1>0 DEF OnlyAssets, NewAssetIs, Own, Usable
<1>15. ASSUME NEW b \in Assets, Parse(b) \/ Delete(b)
      PROVE  Origin
  BY <1>15, <1>0, SettleDoes DEF Own, Usable
<1> QED
  BY <1>1, <1>2, <1>3, <1>4, <1>5, <1>6, <1>7, <1>8, <1>9, <1>10, <1>11, <1>12, <1>13, <1>14,
       <1>15, StepKinds

LEMMA ContentsApartKept ==
  ASSUME Typed, Consistent, [Next]_vars, ContentsApart, \A s \in Scanners : FoundNew(s)
  PROVE  ContentsApart'
<1>1. ASSUME NEW s \in Scanners, Commit(s), NEW a \in Assets, Own(a), Usable(a)
      PROVE  asset[a].content # Content(scan[s].write)
  BY <1>1, CommitDoes DEF Typed, FoundNew, OwnUsable
<1>2. ASSUME NEW a \in Assets, NEW b \in Assets, a # b,
             Own(a)', Own(b)', Usable(a)', Usable(b)',
             Own(a), Usable(a), asset'[a].content = asset[a].content
      PROVE  asset'[a].content # asset'[b].content
  <2>1. CASE Own(b) /\ Usable(b) /\ asset'[b].content = asset[b].content
    BY <1>2, <2>1 DEF ContentsApart
  <2>2. ASSUME NEW s \in Scanners, Commit(s),
               NewAssetIs(b, Content(scan[s].write), scan[s].write)
        PROVE  asset'[a].content # asset'[b].content
    BY <1>1, <1>2, <2>2 DEF NewAssetIs
  <2> QED
    BY <1>2, <2>1, <2>2, OwnUsableBefore
<1>3. ASSUME NEW a \in Assets, NEW b \in Assets, a # b, Own(b)', Usable(b)',
             NEW s \in Scanners, NewAssetIs(a, Content(scan[s].write), scan[s].write)
      PROVE  Own(b) /\ Usable(b) /\ asset'[b].content = asset[b].content
  BY <1>3 DEF NewAssetIs, Own, Usable
<1> SUFFICES ASSUME NEW a \in Assets, NEW b \in Assets, a # b,
                    Own(a)', Own(b)', Usable(a)', Usable(b)'
             PROVE  asset'[a].content # asset'[b].content
  BY DEF ContentsApart
<1>4. CASE Own(a) /\ Usable(a) /\ asset'[a].content = asset[a].content
  BY <1>2, <1>4
<1>5. CASE ~ (Own(a) /\ Usable(a) /\ asset'[a].content = asset[a].content)
  <2>1. Own(b) /\ Usable(b) /\ asset'[b].content = asset[b].content
    BY <1>3, <1>5, OwnUsableBefore
  <2> QED
    BY <1>2, <2>1
<1> QED
  BY <1>4, <1>5

(* A scan compares with the ledger and with what the pipeline has parsed. *)
LEMMA NoneFound ==
  ASSUME Typed, Consistent, NEW s \in Scanners, Compare(s),
         Duplicates(Content(scan[s].write)) = {}, FoundNew(s)
  PROVE  OwnUsable(Content(scan[s].write)) = {}
<1> SUFFICES ASSUME NEW b \in Assets, Own(b), Usable(b),
                    asset[b].content = Content(scan[s].write)
             PROVE  FALSE
  BY DEF OwnUsable
<1>1. asset[b].status # "ready"
  BY DEF Duplicates, Usable
<1>2. InLedger(b)
  BY <1>1, CompareDoes DEF FoundNew, OwnUsable, Usable
<1>3. PICK f \in Files : ledger[f].asset = b
  BY <1>2 DEF InLedger
<1>4. ledger[f].checksum = Content(scan[s].write)
  BY <1>3, BoundsAssumption, NoneAssumption DEF Typed, RowsNameAssets, Assets
<1> QED
  BY <1>3, <1>4 DEF Duplicates

LEMMA FoundNewKept ==
  ASSUME Typed, Consistent, "late" \notin risks', \A s \in Scanners : FoundNew(s), [Next]_vars
  PROVE  \A t \in Scanners : FoundNew(t)'
<1>0. TypeOK /\ ScansFormed /\ WritesKnown /\ \A s \in Scanners : FoundNew(s)
  BY DEF Typed
<1>00. "late" \notin risks'
  OBVIOUS
<1>1. ASSUME NEW s \in Scanners, Acquire(s)
      PROVE  \A t \in Scanners : FoundNew(t)'
  BY <1>1, AcquireDoes, LeavesAlone, <1>0, OthersIdle
     DEF OnlyScan, Becomes, FoundNew, OwnUsable, Own, Usable, InLedger, Content
<1>2. ASSUME NEW s \in Scanners, Reopen(s)
      PROVE  \A t \in Scanners : FoundNew(t)'
  BY <1>2, ReopenDoes, LeavesAlone, <1>0, OthersIdle DEF OnlyLedger, Becomes, ToPlace, FoundNew
<1>3. ASSUME NEW s \in Scanners, Observe(s)
      PROVE  \A t \in Scanners : FoundNew(t)'
  BY <1>3, ObserveDoes, LeavesAlone, <1>0, OthersIdle DEF OnlyLedger, Becomes, FoundNew
<1>4. ASSUME NEW s \in Scanners, Resume(s)
      PROVE  \A t \in Scanners : FoundNew(t)'
  BY <1>4, ResumeDoes, LeavesAlone, <1>0, OthersIdle DEF OnlyAssets, Becomes, FoundNew
<1>5. ASSUME NEW s \in Scanners, Resumed(s)
      PROVE  \A t \in Scanners : FoundNew(t)'
  BY <1>5, ResumedDoes, LeavesAlone, <1>0, OthersIdle DEF OnlyLedger, Becomes, FoundNew
<1>6. ASSUME NEW s \in Scanners, Check(s)
      PROVE  \A t \in Scanners : FoundNew(t)'
  BY <1>6, CheckDoes, LeavesAlone, <1>0, OthersIdle, <1>00
     DEF OnlyScan, Becomes, FoundNew, OwnUsable, Own, Usable, InLedger, Content
<1>7. ASSUME NEW s \in Scanners, Read(s)
      PROVE  \A t \in Scanners : FoundNew(t)'
  BY <1>7, ReadDoes, LeavesAlone, <1>0, OthersIdle
     DEF OnlyLedger, Becomes, Finished, ToPlace, FoundNew, OwnUsable, Own, Usable, InLedger,
          Content
<1>8. ASSUME NEW s \in Scanners, Compare(s)
      PROVE  \A t \in Scanners : FoundNew(t)'
  BY <1>8, CompareDoes, LeavesAlone, <1>0, OthersIdle, NoneFound
     DEF OnlyLedger, Becomes, Finished, ToPlace, FoundNew, OwnUsable, Own, Usable, InLedger,
          Content
<1>9. ASSUME NEW s \in Scanners, Register(s)
      PROVE  \A t \in Scanners : FoundNew(t)'
  BY <1>9, RegisterDoes, LeavesAlone, <1>0, OthersIdle
     DEF OnlyScan, Becomes, Finished, ToPlace, FoundNew, OwnUsable, Own, Usable, InLedger,
          Content
<1>10. ASSUME NEW s \in Scanners, Commit(s)
      PROVE  \A t \in Scanners : FoundNew(t)'
  BY <1>10, CommitDoes, LeavesAlone, <1>0, OthersIdle DEF Becomes, Finished, FoundNew
<1>11. ASSUME NEW s \in Scanners, Enqueue(s)
      PROVE  \A t \in Scanners : FoundNew(t)'
  BY <1>11, EnqueueDoes, LeavesAlone, <1>0, OthersIdle
     DEF OnlyAssets, Becomes, Finished, ToPlace, FoundNew
<1>12. ASSUME NEW s \in Scanners, Mark(s)
      PROVE  \A t \in Scanners : FoundNew(t)'
  BY <1>12, MarkDoes, LeavesAlone, <1>0, OthersIdle DEF OnlyLedger, Becomes, Finished, FoundNew
<1>13. ASSUME NEW s \in Scanners, Raise(s)
      PROVE  \A t \in Scanners : FoundNew(t)'
  BY <1>13, RaiseDoes, LeavesAlone, <1>0, OthersIdle
     DEF OnlyLedger, Becomes, Finished, FoundNew, Handling
<1>14. ASSUME NEW s \in Scanners, Renew(s)
      PROVE  \A t \in Scanners : FoundNew(t)'
  BY <1>14, RenewDoes, LeavesAlone, <1>0, OthersIdle
     DEF OnlyScan, Becomes, ToPlace, ToIdle, FoundNew, OwnUsable, Own, Usable, InLedger, Content
<1>15. ASSUME NEW s \in Scanners, Stop(s)
      PROVE  \A t \in Scanners : FoundNew(t)'
  BY <1>15, StopDoes, LeavesAlone, <1>0, OthersIdle
     DEF OnlyScan, Becomes, ToIdle, FoundNew, OwnUsable, Own, Usable, InLedger, Content
<1>16. ASSUME NEW s \in Scanners, Expire(s)
      PROVE  \A t \in Scanners : FoundNew(t)'
  BY <1>16, LeavesAlone, <1>0 DEF OnlyScan, FoundNew, OwnUsable, Own, Usable, InLedger, Content
<1>17. ASSUME NEW s \in Scanners, Outlive(s)
      PROVE  \A t \in Scanners : FoundNew(t)'
  BY <1>17, LeavesAlone, <1>0 DEF OnlyScan, FoundNew, OwnUsable, Own, Usable, InLedger, Content
<1>18. ASSUME NEW f \in Files, Remove(f)
      PROVE  \A t \in Scanners : FoundNew(t)'
  BY <1>18, RemoveDoes, <1>0 DEF OnlyWorld, FoundNew, OwnUsable, Own, Usable, InLedger, Content
<1>19. ASSUME NEW f \in Files, Age(f)
      PROVE  \A t \in Scanners : FoundNew(t)'
  BY <1>19, AgeDoes, PeopleLeaveAlone, <1>0
     DEF OnlyLedger, RowNamesTheSame, FoundNew, OwnUsable, Own, Usable, InLedger, Content
<1>20. ASSUME NEW f \in Files, NEW c \in Contents, Write(f, c)
      PROVE  \A t \in Scanners : FoundNew(t)'
  <2>1. asset' = asset /\ ledger' = ledger /\ scan' = scan
    BY <1>20, PeopleLeaveAlone DEF OnlyWorld
  <2>2. ASSUME NEW t \in Scanners, scan[t].at \in Handling
        PROVE  Content(scan[t].write)' = Content(scan[t].write)
    <3>1. scan[t].write \in 1 .. Len(written)
      BY <1>0, <2>2, AtWork, Numbers DEF Working, WritesKnown
    <3> QED
      BY <1>20, <2>1, <3>1, WriteDoes DEF Content
  <2>3. ASSUME NEW x PROVE OwnUsable(x)' = OwnUsable(x)
    BY <2>1 DEF OwnUsable, Own, Usable
  <2> QED
    BY <1>0, <2>1, <2>2, <2>3 DEF FoundNew, Handling, InLedger
<1>21. ASSUME NEW c \in Contents, Upload(c)
      PROVE  \A t \in Scanners : FoundNew(t)'
  BY <1>21, UploadDoes, PeopleLeaveAlone, <1>0
     DEF OnlyAssets, NewAssetIs, FoundNew, OwnUsable, Own, Usable, InLedger, Content
<1>22. ASSUME NEW a \in Assets, Parse(a) \/ Delete(a)
      PROVE  \A t \in Scanners : FoundNew(t)'
  BY <1>22, SettleDoes, PeopleLeaveAlone, <1>0
     DEF OnlyAssets, FoundNew, OwnUsable, Own, Usable, InLedger, Content
<1>23. ASSUME UNCHANGED vars PROVE \A t \in Scanners : FoundNew(t)'
  BY <1>0, <1>23 DEF vars, FoundNew, OwnUsable, Own, Usable, InLedger, Content
<1> QED
  BY <1>1, <1>2, <1>3, <1>4, <1>5, <1>6, <1>7, <1>8, <1>9, <1>10, <1>11, <1>12, <1>13, <1>14,
       <1>15, <1>16, <1>17, <1>18, <1>19, <1>20, <1>21, <1>22, <1>23 DEF Next, Step, Stop

-----------------------------------------------------------------------------
LEMMA WatchedAtFirst == Init => Watched
<1> SUFFICES ASSUME Init PROVE Watched
  OBVIOUS
<1>1. Typed
  BY TypedAtFirst
<1>2. AssetsHaveObjects /\ Remembered /\ WritesOnce /\ ContentsApart
  BY DEF Init, NoAsset, AssetsHaveObjects, Remembered, WritesOnce, ContentsApart, Own
<1>3. OneScan /\ ScanGoesWithLedger /\ RowsKnow /\ \A s \in Scanners : FoundNew(s)
  BY DEF Init, Idle, NoRow, OneScan, ScanGoesWithLedger, ListedIsOld, TodoIsSeen, HandIsPending,
         SendingIsUploaded, ResumedIsSent, Before, Handling, Sending, RowsKnow, RowKnows, FoundNew
<1>4. WritesApart /\ RegisteredIsKnown
  BY DEF Init, NoAsset, WritesApart, RegisteredIsKnown, Own
<1> QED
  BY <1>1, <1>2, <1>3, <1>4 DEF Watched, Consistent, ContentsOnce

LEMMA ConsistentKept ==
  ASSUME Typed, Typed', Consistent, Held', [Next]_vars
  PROVE  Consistent'
<1>1. OneScan' /\ WritesApart' /\ RegisteredIsKnown' /\ WritesOnce' /\ Remembered'
  BY OneScanKept, WritesApartKept, RegisteredStaysKnown, WritesOnceKept, RememberedKept
     DEF Consistent
<1>2. ScanGoesWithLedger'
  BY ListedIsOldKept, TodoIsSeenKept, HandIsPendingKept, SendingIsUploadedKept, ResumedIsSentKept
     DEF ScanGoesWithLedger
<1>3. RowsKnow'
  BY RowsKeepKnowing DEF RowsKnow
<1>4. ContentsOnce'
  <2>1. CASE "late" \in risks'
    BY <2>1 DEF ContentsOnce
  <2>2. CASE "late" \notin risks'
    <3>1. ContentsApart /\ \A s \in Scanners : FoundNew(s)
      BY <2>2, RisksGrow DEF Consistent, ContentsOnce
    <3> QED
      BY <2>2, <3>1, ContentsApartKept, FoundNewKept DEF ContentsOnce
  <2> QED
    BY <2>1, <2>2
<1> QED
  BY <1>1, <1>2, <1>3, <1>4 DEF Consistent

LEMMA WatchedKept == Watched /\ [Next]_vars => Watched'
<1> SUFFICES ASSUME Watched, [Next]_vars PROVE Watched'
  OBVIOUS
<1>1. Typed' /\ AssetsHaveObjects'
  BY TypedKept, ObjectsKept DEF Watched
<1>2. Held' => Held
  BY RisksGrow DEF Watched, Held
<1>3. Held' => Consistent'
  BY <1>1, <1>2, ConsistentKept DEF Watched
<1> QED
  BY <1>1, <1>3 DEF Watched

LEMMA AlwaysWatched == Spec => []Watched
  BY WatchedAtFirst, WatchedKept, PTL DEF Spec

(* The state of the watch is always of the types the code gives its rows and its scans. *)
THEOREM IngestWatchTypeCorrect == Spec => []TypeOK
<1>1. Watched => TypeOK
  BY DEF Watched, Typed
<1> QED
  BY <1>1, AlwaysWatched, PTL

(* A write of a file is registered once, and no second asset with its contents is registered     *)
(* beside one in use, unless a scan outlives its lock or a copy is read while its upload is      *)
(* still being parsed (_find_duplicate, _ingest_one).                                            *)
THEOREM FilesAreRegisteredOnce == Spec => []RegisteredOnce
<1>1. Watched => RegisteredOnce
  BY DEF Watched, Held, Consistent, WritesOnce, ContentsOnce, ContentsApart, RegisteredOnce
<1> QED
  BY <1>1, AlwaysWatched, PTL

(* A row that says a file is in the space names the asset of the write it has seen, or one with  *)
(* the same contents (ingest_file; the comparison after the read).                               *)
THEOREM LedgerStaysRight == Spec => []LedgerKnowsTheFile
<1>1. Watched => LedgerKnowsTheFile
  BY DEF Watched, Held, Consistent, RowsKnow, RowKnows, LedgerKnowsTheFile
<1> QED
  BY <1>1, AlwaysWatched, PTL

(* An asset has its object unless the answer to its commit was lost. *)
THEOREM ObjectsStayWithAssets == Spec => []AssetsHaveObjects
<1>1. Watched => AssetsHaveObjects
  BY DEF Watched
<1> QED
  BY <1>1, AlwaysWatched, PTL

(* What was registered and not sent is found by a later scan, whatever failed in between         *)
(* (_resume_uploaded).                                                                           *)
THEOREM WatchForgetsNothing == Spec => []NothingIsForgotten
<1>1. Watched => NothingIsForgotten
  BY DEF Watched, Held, Consistent, Remembered, NothingIsForgotten
<1> QED
  BY <1>1, AlwaysWatched, PTL
=============================================================================
