----------------------------- MODULE IngestWatch -----------------------------
(***************************************************************************)
(* The watch of a directory (worker/ingest_watch.py): scans that list its  *)
(* files, keep a ledger of them, and register each stable file as an asset *)
(* and send it to the pipeline, under a lock in Redis that expires.  Scans *)
(* run step by step, each step a commit or a call outside the database,    *)
(* among people who write files, upload and delete, and the pipeline.      *)
(***************************************************************************)
EXTENDS Integers, FiniteSets, Sequences

CONSTANTS
    Scanners,    \* worker processes that run a scan now and then
    Files,       \* paths in the directory
    MaxContents, \* bound: different contents
    MaxAssets,   \* bound: asset rows in one behaviour
    None,
    MaxIngest,   \* ingest_watch.max_ingest_per_scan
    MaxWrites,   \* bound: files written in one behaviour
    MaxFaults    \* bound: faults in one behaviour

ASSUME NoneAssumption == None \notin Scanners \cup Files \cup Nat
ASSUME FilesAssumption == IsFiniteSet(Files)
ASSUME BoundsAssumption ==
    /\ MaxIngest \in Nat \ {0}
    /\ MaxContents \in Nat /\ MaxAssets \in Nat /\ MaxWrites \in Nat /\ MaxFaults \in Nat

Contents == 1 .. MaxContents
Assets == 1 .. MaxAssets

VARIABLES
    written,   \* the contents written so far; the place in it stands for size and mtime
    disk,      \* the write a path shows, 0 for no file
    ledger,    \* the row of a path (ingest_file)
    asset,     \* the asset rows
    lock,      \* who holds the lock of the scan
    scan,      \* where a scanner is
    faults,    \* faults so far
    risks      \* what has put a promise at risk (not in the code)

vars == <<written, disk, ledger, asset, lock, scan, faults, risks>>

(* IngestFileStatus; "none" for no row. *)
Statuses == {"none", "pending_stable", "uploaded", "done", "duplicate", "error"}
NoRow == [status |-> "none", seen |-> 0, stable |-> FALSE, checksum |-> None, asset |-> None]

(* write: the write an asset of the watch holds, 0 for what a person uploaded; object: its file *)
(* is in the bucket; sent: a pipeline task has been sent.  The status is "ready" from the       *)
(* moment the pipeline writes the checksum, "gone" once the asset has failed or is deleted.     *)
NoAsset == [status |-> "none", content |-> None, write |-> 0, object |-> FALSE, sent |-> FALSE]

(* todo: the write under which a file still to do was listed; file and write: the one at hand. *)
Idle == [at |-> "idle", todo |-> [f \in Files |-> 0], read |-> 0,
         file |-> None, write |-> 0, asset |-> None, rows |-> {}]

Content(w) == written[w]
Usable(a) == asset[a].status \in {"pending", "ready"}
Own(a) == asset[a].write # 0
InLedger(a) == \E f \in Files : ledger[f].asset = a
Free == {a \in Assets : asset[a].status = "none"}
NewAsset == CHOOSE a \in Free : \A b \in Free : a <= b

Init ==
    /\ written = <<>>
    /\ disk = [f \in Files |-> 0]
    /\ ledger = [f \in Files |-> NoRow]
    /\ asset = [a \in Assets |-> NoAsset]
    /\ lock = None
    /\ scan = [s \in Scanners |-> Idle]
    /\ faults = 0
    /\ risks = {}

-----------------------------------------------------------------------------
World == <<written, disk>>
Move(s, from, to) == scan[s].at = from /\ scan' = [scan EXCEPT ![s].at = to]
Row(s) == ledger[scan[s].file]
SetRow(s, row) == ledger' = [ledger EXCEPT ![scan[s].file] = row]

(* The scan takes the lock, or ends at once, and lists the directory. *)
Acquire(s) ==
    /\ scan[s].at = "idle"
    /\ scan' = [scan EXCEPT ![s].at = "reopen", ![s].todo = disk]
    /\ lock = None /\ lock' = s
    /\ UNCHANGED <<World, ledger, asset, faults, risks>>

(* A duplicate of an asset that is gone is looked at again, unless the watch itself had         *)
(* registered that asset: then a person has removed it for good.                                *)
Reopen(s) ==
    /\ Move(s, "reopen", "observe")
    /\ ledger' = [f \in Files |->
         IF /\ ledger[f].status = "duplicate"
            /\ ~Usable(ledger[f].asset) /\ ~Own(ledger[f].asset)
           THEN [ledger[f] EXCEPT !.status = "pending_stable", !.stable = FALSE]
           ELSE ledger[f]]
    /\ UNCHANGED <<World, asset, lock, faults, risks>>

(* Mutant: a row that waits to be sent is reset when its file changes. *)
ObservedUploaded(row, seen) ==
    IF row.seen = seen THEN row
      ELSE [row EXCEPT !.status = "pending_stable", !.seen = seen, !.stable = FALSE]

(* The ledger is compared with the listing; gone is what is missing for longer than a week. *)
Observed(row, seen) ==
    IF row.status = "uploaded" \/ row.seen = seen
      THEN row
      ELSE [row EXCEPT !.status = "pending_stable", !.seen = seen, !.stable = FALSE]

Observe(s) ==
    LET listed == scan[s].todo
        missing == {f \in Files : listed[f] = 0 /\ ledger[f].status # "uploaded"}
    IN
    /\ scan[s].at = "observe"
    /\ \E gone \in SUBSET missing :
         ledger' = [f \in Files |->
            IF f \in gone THEN NoRow
            ELSE IF listed[f] = 0 THEN ledger[f] ELSE Observed(ledger[f], listed[f])]
    /\ scan' = [scan EXCEPT ![s].at = "resume",
                   ![s].todo = [f \in Files |->
                      IF /\ ledger[f].status = "pending_stable"
                         /\ ledger[f].stable /\ ledger[f].seen = listed[f]
                        THEN listed[f] ELSE 0]]
    /\ UNCHANGED <<World, asset, lock, faults, risks>>

-----------------------------------------------------------------------------
(* Rows that were registered and not sent are sent again, then marked in one commit. *)
Resume(s) ==
    LET left == {f \in Files : ledger[f].status = "uploaded"}
        due  == {f \in left : asset[ledger[f].asset].status = "pending"}
    IN
    /\ scan[s].at = "resume"
    /\ \E lost \in SUBSET due :
         /\ faults + Cardinality(lost) <= MaxFaults
         /\ faults' = faults + Cardinality(lost)
         /\ asset' = [a \in Assets |->
              IF \E f \in due \ lost : ledger[f].asset = a
                THEN [asset[a] EXCEPT !.sent = TRUE] ELSE asset[a]]
         /\ scan' = [scan EXCEPT ![s].at = "resumed", ![s].rows = left \ lost]
    /\ UNCHANGED <<World, ledger, lock, risks>>

Resumed(s) ==
    /\ scan[s].at = "resumed"
    /\ ledger' = [f \in Files |->
         IF f \in scan[s].rows THEN [ledger[f] EXCEPT !.status = "done"] ELSE ledger[f]]
    /\ scan' = [scan EXCEPT ![s].at = "files", ![s].rows = {}]
    /\ UNCHANGED <<World, asset, lock, faults, risks>>

-----------------------------------------------------------------------------
Todo(s) == {f \in Files : scan[s].todo[f] # 0}
Listed(s) == scan[s].write

(* The file at hand is finished; it counts against the limit of the scan when it was read. *)
Finish(s, reads) ==
    scan' = [scan EXCEPT ![s].at = "renew", ![s].file = None, ![s].write = 0,
                         ![s].asset = None, ![s].read = @ + reads]

(* A stable file is taken up.  It waits while an asset of its size that the ledger does not     *)
(* know is being parsed; after an hour it is read all the same.                                 *)
Check(s) ==
    /\ scan[s].at = "files" /\ scan[s].read < MaxIngest
    /\ \E f \in Todo(s) :
         LET inflight == {a \in Assets : asset[a].status = "pending" /\ ~InLedger(a)}
             same == {a \in inflight : asset[a].content = Content(scan[s].todo[f])}
             taken == [scan EXCEPT ![s].todo[f] = 0]
         IN
         \/ /\ ledger[f].status # "pending_stable" \/ inflight # {}
            /\ scan' = [taken EXCEPT ![s].at = "renew"]
            /\ UNCHANGED risks
         \/ /\ ledger[f].status = "pending_stable"
            /\ scan' = [taken EXCEPT ![s].at = "read", ![s].file = f,
                                       ![s].write = scan[s].todo[f]]
            /\ risks' = risks \cup IF same = {} THEN {} ELSE {"late"}
    /\ UNCHANGED <<World, ledger, asset, lock, faults>>

(* Mutant: size and time are not compared again. *)
ReadUnchecked(s) ==
    LET now == disk[scan[s].file] IN
    /\ scan[s].at = "read" /\ now # 0
    /\ scan' = [scan EXCEPT ![s].at = "compare", ![s].write = now] /\ UNCHANGED ledger
    /\ UNCHANGED <<World, asset, lock, faults, risks>>

(* The file is read; what has changed since the listing is left for a later scan. *)
Read(s) ==
    LET now == disk[scan[s].file] IN
    /\ scan[s].at = "read" /\ now # 0
    /\ IF now = Listed(s)
         THEN scan' = [scan EXCEPT ![s].at = "compare", ![s].write = now] /\ UNCHANGED ledger
         ELSE /\ ledger' = [f \in Files |->
                   IF f = scan[s].file /\ ledger[f].status # "none"
                     THEN [ledger[f] EXCEPT !.seen = now, !.stable = FALSE] ELSE ledger[f]]
              /\ Finish(s, 1)
    /\ UNCHANGED <<World, asset, lock, faults, risks>>

(* Mutant: only the checksums the pipeline has written are compared. *)
DuplicatesParsed(content) ==
    {a \in Assets : asset[a].status = "ready" /\ asset[a].content = content}

(* The usable assets with these contents: by the checksum of the pipeline, or by the ledger. *)
Duplicates(content) ==
    {a \in Assets : /\ Usable(a)
                    /\ \/ asset[a].status = "ready" /\ asset[a].content = content
                       \/ \E f \in Files : ledger[f].asset = a /\ ledger[f].checksum = content}

Compare(s) ==
    LET content == Content(Listed(s)) IN
    /\ scan[s].at = "compare"
    /\ IF Row(s).status # "pending_stable"
         THEN Finish(s, 0) /\ UNCHANGED ledger
         ELSE \/ \E a \in Duplicates(content) :
                   /\ SetRow(s, [Row(s) EXCEPT !.status = "duplicate", !.checksum = content,
                                              !.asset = a])
                   /\ Finish(s, 1)
              \/ /\ Duplicates(content) = {}
                 /\ scan' = [scan EXCEPT ![s].at = "register"]
                 /\ UNCHANGED ledger
    /\ UNCHANGED <<World, asset, lock, faults, risks>>

-----------------------------------------------------------------------------
(* The object has been put; the row is read again, and the object discarded when it has moved. *)
Register(s) ==
    /\ scan[s].at = "register"
    /\ IF Row(s).status # "pending_stable" THEN Finish(s, 0)
       ELSE scan' = [scan EXCEPT ![s].at = "commit"]
    /\ UNCHANGED <<World, ledger, asset, lock, faults, risks>>

Registered(s, a, object) ==
    /\ asset' = [asset EXCEPT ![a] = [status |-> "pending", content |-> Content(Listed(s)),
                                      write |-> Listed(s), object |-> object, sent |-> FALSE]]
    /\ SetRow(s, [Row(s) EXCEPT !.status = "uploaded", !.asset = a,
                                !.checksum = Content(Listed(s))])

(* Asset and row are committed together.  An exception discards the object: when the answer to  *)
(* the commit is lost, the asset stays without it.                                              *)
Commit(s) ==
    /\ scan[s].at = "commit" /\ Row(s).status # "none"
    /\ Free # {}
    /\ \/ /\ Registered(s, NewAsset, TRUE)
          /\ scan' = [scan EXCEPT ![s].at = "enqueue", ![s].asset = NewAsset]
          /\ UNCHANGED <<faults, risks>>
       \/ /\ faults < MaxFaults /\ faults' = faults + 1
          /\ Registered(s, NewAsset, FALSE)
          /\ Finish(s, 1)
          /\ risks' = risks \cup {"answer"}
    /\ UNCHANGED <<World, lock>>

(* Mutant: an error of the send discards the object as well. *)
EnqueueDiscarding(s) ==
    /\ scan[s].at = "enqueue"
    /\ \/ /\ asset' = [asset EXCEPT ![scan[s].asset].sent = TRUE]
          /\ scan' = [scan EXCEPT ![s].at = "mark"]
          /\ UNCHANGED faults
       \/ /\ faults < MaxFaults /\ faults' = faults + 1
          /\ \E arrived \in BOOLEAN :
               asset' = [asset EXCEPT ![scan[s].asset].sent = @ \/ arrived, ![scan[s].asset].object = FALSE]
          /\ Finish(s, 1)
    /\ UNCHANGED <<World, ledger, lock, risks>>

(* The task is sent; an error leaves the row for the next scan, whether or not it arrived. *)
Enqueue(s) ==
    /\ scan[s].at = "enqueue"
    /\ \/ /\ asset' = [asset EXCEPT ![scan[s].asset].sent = TRUE]
          /\ scan' = [scan EXCEPT ![s].at = "mark"]
          /\ UNCHANGED faults
       \/ /\ faults < MaxFaults /\ faults' = faults + 1
          /\ \E arrived \in BOOLEAN :
               asset' = [asset EXCEPT ![scan[s].asset].sent = @ \/ arrived]
          /\ Finish(s, 1)
    /\ UNCHANGED <<World, ledger, lock, risks>>

Mark(s) ==
    /\ scan[s].at = "mark"
    /\ ledger' = [f \in Files |->
         IF f = scan[s].file /\ ledger[f].status = "uploaded"
           THEN [ledger[f] EXCEPT !.status = "done"] ELSE ledger[f]]
    /\ Finish(s, 1)
    /\ UNCHANGED <<World, asset, lock, faults, risks>>

(* A step raises: policy, file, storage or database; a file that is gone cannot be read, nor a  *)
(* row that is gone committed, nor one beyond the bound.  The row records the error, unless it  *)
(* has been registered; that write may fail too.                                                *)
Raise(s) ==
    LET certain == \/ scan[s].at = "read" /\ disk[scan[s].file] = 0
                   \/ scan[s].at = "commit" /\ (Row(s).status = "none" \/ Free = {})
        cost == IF certain THEN 0 ELSE 1
    IN
    /\ scan[s].at \in {"read", "compare", "register", "commit"}
    /\ \E recorded \in BOOLEAN :
         /\ faults' = faults + cost + (IF recorded THEN 0 ELSE 1)
         /\ faults' <= MaxFaults
         /\ ledger' = [f \in Files |->
              IF recorded /\ f = scan[s].file /\ ledger[f].status \notin {"none", "uploaded"}
                THEN [ledger[f] EXCEPT !.status = "error"] ELSE ledger[f]]
    /\ Finish(s, 1)
    /\ UNCHANGED <<World, asset, lock, risks>>

(* Between two files the lock is renewed; a scan that has lost it stops. *)
Renew(s) ==
    /\ scan[s].at = "renew"
    /\ scan' = IF lock = s THEN [scan EXCEPT ![s].at = "files"] ELSE [scan EXCEPT ![s] = Idle]
    /\ UNCHANGED <<World, ledger, asset, lock, faults, risks>>

Released(s) == lock' = IF lock = s THEN None ELSE lock

End(s) ==
    /\ scan[s].at = "files" /\ (Todo(s) = {} \/ scan[s].read >= MaxIngest)
    /\ scan' = [scan EXCEPT ![s] = Idle]
    /\ Released(s)
    /\ UNCHANGED <<World, ledger, asset, faults, risks>>

-----------------------------------------------------------------------------
(* The soft time limit of the task unwinds the scan; a process that is killed leaves its lock. *)
Abort(s) ==
    /\ scan[s].at \notin {"idle", "commit", "enqueue"}
    /\ faults < MaxFaults /\ faults' = faults + 1
    /\ scan' = [scan EXCEPT ![s] = Idle]
    /\ Released(s)
    /\ UNCHANGED <<World, ledger, asset, risks>>

Crash(s) ==
    /\ scan[s].at # "idle"
    /\ faults < MaxFaults /\ faults' = faults + 1
    /\ scan' = [scan EXCEPT ![s] = Idle]
    /\ UNCHANGED <<World, ledger, asset, lock, risks>>

(* The lock expires: after a crash, or under a scan that is slow on one file. *)
Expire(s) ==
    /\ lock = s /\ scan[s].at = "idle"
    /\ lock' = None
    /\ UNCHANGED <<World, ledger, asset, scan, faults, risks>>

Outlive(s) ==
    /\ lock = s /\ scan[s].at # "idle"
    /\ faults < MaxFaults /\ faults' = faults + 1
    /\ lock' = None
    /\ risks' = risks \cup {"lock"}
    /\ UNCHANGED <<World, ledger, asset, scan>>

-----------------------------------------------------------------------------
(* Contents are numbered in the order in which they appear. *)
Known == {written[w] : w \in DOMAIN written} \cup {asset[a].content : a \in Assets \ Free}
MayAppear(c) == c = 1 \/ c - 1 \in Known

Write(f, c) ==
    /\ MayAppear(c) /\ Len(written) < MaxWrites
    /\ written' = Append(written, c)
    /\ disk' = [disk EXCEPT ![f] = Len(written')]
    /\ UNCHANGED <<ledger, asset, lock, scan, faults, risks>>

Remove(f) ==
    /\ disk[f] # 0
    /\ disk' = [disk EXCEPT ![f] = 0]
    /\ UNCHANGED <<written, ledger, asset, lock, scan, faults, risks>>

(* stability_seconds pass without a change that a scan has seen. *)
Age(f) ==
    /\ ledger[f].status = "pending_stable" /\ ~ledger[f].stable
    /\ ledger' = [ledger EXCEPT ![f].stable = TRUE]
    /\ UNCHANGED <<World, asset, lock, scan, faults, risks>>

(* A person uploads; the bound leaves an identity for each write. *)
Upload(c) ==
    /\ MayAppear(c) /\ Cardinality(Free) > MaxWrites
    /\ asset' = [asset EXCEPT ![NewAsset] = [status |-> "pending", content |-> c, write |-> 0,
                                             object |-> TRUE, sent |-> TRUE]]
    /\ UNCHANGED <<World, ledger, lock, scan, faults, risks>>

Parse(a) ==
    /\ asset[a].status = "pending" /\ asset[a].sent
    /\ asset' = [asset EXCEPT ![a].status = IF asset[a].object THEN "ready" ELSE "gone"]
    /\ UNCHANGED <<World, ledger, lock, scan, faults, risks>>

(* A person deletes it, or the pipeline fails for good. *)
Delete(a) ==
    /\ Usable(a)
    /\ asset' = [asset EXCEPT ![a].status = "gone"]
    /\ UNCHANGED <<World, ledger, lock, scan, faults, risks>>

-----------------------------------------------------------------------------
Step(s) ==
    \/ Reopen(s) \/ Observe(s) \/ Resume(s) \/ Resumed(s)
    \/ Check(s) \/ Read(s) \/ Compare(s) \/ Register(s) \/ Commit(s) \/ Enqueue(s) \/ Mark(s)
    \/ Raise(s) \/ Renew(s) \/ End(s)

Next ==
    \/ \E s \in Scanners : \/ Acquire(s) \/ Step(s)
                           \/ Abort(s) \/ Crash(s) \/ Expire(s) \/ Outlive(s)
    \/ \E f \in Files : Remove(f) \/ Age(f) \/ \E c \in Contents : Write(f, c)
    \/ \E c \in Contents : Upload(c)
    \/ \E a \in Assets : Parse(a) \/ Delete(a)

Spec == Init /\ [][Next]_vars

-----------------------------------------------------------------------------
Places == {"idle", "reopen", "observe", "resume", "resumed", "files", "read", "compare",
           "register", "commit", "enqueue", "mark", "renew"}
Rows == [status : Statuses, seen : 0 .. MaxWrites, stable : BOOLEAN,
         checksum : Contents \cup {None}, asset : Assets \cup {None}]
AssetRows == [status : {"none", "pending", "ready", "gone"}, content : Contents \cup {None},
              write : 0 .. MaxWrites, object : BOOLEAN, sent : BOOLEAN]
Scans == [at : Places, todo : [Files -> 0 .. MaxWrites], read : 0 .. MaxIngest,
          file : Files \cup {None}, write : 0 .. MaxWrites, asset : Assets \cup {None},
          rows : SUBSET Files]

TypeOK ==
    /\ written \in Seq(Contents)
    /\ disk \in [Files -> 0 .. MaxWrites]
    /\ ledger \in [Files -> Rows]
    /\ asset \in [Assets -> AssetRows]
    /\ lock \in Scanners \cup {None}
    /\ scan \in [Scanners -> Scans]
    /\ faults \in 0 .. MaxFaults
    /\ risks \subseteq {"lock", "late", "answer"}

(* While no scan outlives its lock, a write is registered once, and what the watch has          *)
(* registered is not registered a second time from a copy (_find_duplicate, and the lock).      *)
(* A copy read after an hour of waiting may be (_INFLIGHT_WAIT).                                *)
RegisteredOnce ==
    "lock" \in risks \/
    \A a, b \in Assets : (a # b /\ Own(a) /\ Own(b)) =>
        /\ asset[a].write # asset[b].write
        /\ (Usable(a) /\ Usable(b) /\ asset[a].content = asset[b].content) => "late" \in risks

(* While no scan outlives its lock, a row that says a file is in the space has the asset of     *)
(* the write with this size and time, or one of the same contents: no change is taken for what  *)
(* was read before it (the size and time are compared again after the read).                    *)
LedgerKnowsTheFile ==
    "lock" \in risks \/
    \A f \in Files :
        /\ ledger[f].status \in {"uploaded", "done"} =>
              asset[ledger[f].asset].write = ledger[f].seen
        /\ ledger[f].status = "duplicate" =>
              asset[ledger[f].asset].content = Content(ledger[f].seen)

(* An asset has its object, unless the answer to its commit was lost (the discard in            *)
(* _ingest_one removes only what was not registered).                                           *)
AssetsHaveObjects ==
    "answer" \in risks \/
    \A a \in Assets : asset[a].status # "none" => asset[a].object

(* What was registered and not sent has a scan about to send it or a row that makes a later     *)
(* scan do so (_resume_uploaded), whatever failed or stopped, while no scan outlives its lock.  *)
NothingIsForgotten ==
    "lock" \in risks \/
    \A a \in Assets : (asset[a].status = "pending" /\ ~asset[a].sent) =>
        \/ \E s \in Scanners : scan[s].at = "enqueue" /\ scan[s].asset = a
        \/ \E f \in Files : ledger[f].status = "uploaded" /\ ledger[f].asset = a
=============================================================================
