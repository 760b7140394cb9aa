------------------------------- MODULE Library -------------------------------
(***************************************************************************)
(* The library: files below DATA_ROOT, their index in SQLite and what      *)
(* refers to them by path.  The index is filled by batches of a background *)
(* thread, reindex jobs, scope syncs and the refresh after a download, one *)
(* at a time under LIBRARY_SCAN_LOCK; renames, moves and deletions do not  *)
(* take that lock, and other programs change the files as they like.       *)
(***************************************************************************)
EXTENDS Integers, Sequences, FiniteSets

CONSTANTS
  Objects,    \* files and folders, whatever their names
  Names,      \* names; their order is that of the texts
  Scenarios   \* at, kind, scope, batch, budget, prune, events; requests bounds what users and others do

Gone == <<>>
Root == <<>>
MaxDepth == 3    \* bound
Paths == UNION {[1..n -> Names] : n \in 1..MaxDepth}

IsAt(prefix, p) == Len(prefix) <= Len(p) /\ SubSeq(p, 1, Len(prefix)) = prefix

ASSUME NamesAssumption == Names \subseteq Nat /\ IsFiniteSet(Names)
ASSUME ObjectsAssumption == IsFiniteSet(Objects)
ASSUME ScenarioAssumption ==
  \A s \in Scenarios :
    /\ s.at \in [Objects -> Paths \cup {Gone}]
    /\ s.kind \in [Objects -> {"folder", "card", "file"}]   \* a card: a folder with metadata
    /\ s.scope \in Paths \cup {Root}                       \* of reindex jobs and syncs
    /\ s.batch \in Nat \ {0} /\ s.budget \in Nat \ {0} /\ s.prune \in Nat /\ s.requests \in Nat
\* Nothing has the path of another, and what leads to it are folders.
ASSUME TreeAssumption ==
  \A s \in Scenarios : \A o \in {x \in Objects : s.at[x] # Gone} :
    /\ \A x \in Objects : s.at[x] = s.at[o] => x = o
    /\ \A p \in Paths \ {s.at[o]} : IsAt(p, s.at[o]) => \E x \in Objects : s.at[x] = p /\ s.kind[x] # "file"

VARIABLES
  sc,        \* the scenario, chosen once
  at,        \* at[o]: path of o, or Gone
  stamp,     \* signature of the folder sc.scope: changes with its own entries
  rows,      \* library_items
  state,     \* library_scan_state
  scan,      \* holder of LIBRARY_SCAN_LOCK and its locals
  reindex,   \* the reindex job of sc.scope; cleared, a history: the index was since it started
  op,        \* rename, move or deletion: looked for active jobs, or has changed the disk
  marks,     \* favorites and item_notes: <<path, the object it was set for>>
  download,  \* a download job's row, the object its target_dir is; beside, a history:
             \* it became active after an operation looked and before it changed the disk
  clear,     \* POST /api/jobs/clear under way; since, a history: the index was
             \* cleared after the last walk of sc.scope began
  cache,     \* LIVE_LIBRARY_PAGE_CACHE of sc.scope
  reader,    \* a request for a live page
  left       \* requests not yet made

vars == <<sc, clear, at, stamp, rows, state, scan, reindex, op, marks, download, cache, reader, left>>

NoScan == [who |-> "none", pc |-> "free", root |-> Root, records |-> {}, last |-> Root, end |-> FALSE, whole |-> FALSE]
NoDownload == [status |-> "none", path |-> Gone, of |-> "none", hook |-> Gone, beside |-> FALSE]
NoPage == [pc |-> "none", stamp |-> 0, items |-> {}]

Init ==
  /\ sc \in Scenarios /\ at = sc.at /\ stamp = 0 /\ left = sc.requests
  /\ rows = [p \in Paths |-> "absent"]
  /\ state = [cursor |-> [s \in {Root, sc.scope} |-> Root], complete |-> FALSE,
              scanned |-> FALSE, indexing |-> FALSE]
  /\ scan = NoScan /\ reindex = [status |-> "none", first |-> TRUE, cleared |-> FALSE]
  /\ op = [kind |-> "none", from |-> Root, to |-> Root]
  /\ marks = {} /\ download = NoDownload /\ clear = [busy |-> FALSE, since |-> FALSE]
  /\ cache = NoPage /\ reader = NoPage

-----------------------------------------------------------------------------
(* Paths and the file system.                                              *)

Parent(p) == SubSeq(p, 1, Len(p) - 1)
(* Mutant: only what lies below the path. *)
OnlyBelow(p, q) == IsAt(p, q)
Overlap(p, q) == IsAt(p, q) \/ IsAt(q, p)

(* Order of the texts of two paths. *)
Less(p, q) ==
  \E i \in 1..Len(q) : /\ \A k \in 1..(i - 1) : k <= Len(p) /\ p[k] = q[k]
                       /\ i > Len(p) \/ p[i] < q[i]

There(o) == at[o] # Gone
Existing == {at[o] : o \in {x \in Objects : There(x)}}
Who(p) == CHOOSE o \in Objects : at[o] = p
IsFile(p) == sc.kind[Who(p)] = "file"
IsCard(p) == sc.kind[Who(p)] = "card" /\ \E q \in Existing : IsAt(p, q) /\ IsFile(q)
(* library_index_record_for_path: a card with content, or a file outside.  *)
Indexable(p) ==
  p \in Existing /\ \/ IsCard(p)
                    \/ IsFile(p) /\ \A q \in Existing : IsAt(q, p) => ~IsCard(q)
Items(root) == {p \in Existing : IsAt(root, p) /\ Indexable(p)}
Fresh == {p \in Paths : rows[p] = "fresh"}

(* Order in which the scan meets two paths: folder by folder, and in each  *)
(* the folders before the files.                                           *)
Before(p, q) ==
  IF Parent(p) # Parent(q) THEN Less(Parent(p), Parent(q))
  ELSE IF IsFile(p) # IsFile(q) THEN IsFile(q) ELSE Less(p, q)
FirstOf(S, n) == {p \in S : Cardinality({q \in S : Before(q, p)}) < n}
LastOf(S) == CHOOSE p \in S : \A q \in S \ {p} : Before(q, p)

(* iter_library_scan_paths from a cursor. *)
ToScan(root, cursor) == {p \in Existing : IsAt(root, p) /\ Less(cursor, p)}
(* The cursor of a batch can go past p before the walk meets it: something *)
(* met before p, at the end of the first batch or later, follows it in the *)
(* order of the cursor.                                                    *)
Overtaken(root, p) ==
  \E q \in ToScan(root, Root) \ FirstOf(ToScan(root, Root), sc.batch - 1) : Before(q, p) /\ ~Less(q, p)

-----------------------------------------------------------------------------
(* Scans, one at a time.                                                   *)

Marked(some, as) == [p \in Paths |-> IF p \in some THEN as ELSE rows[p]]
Stale(some) == [p \in Paths |-> IF p \in some /\ rows[p] # "absent" THEN "stale" ELSE rows[p]]

Lock(who, root) == scan.who = "none" /\ scan' = [NoScan EXCEPT !.who = who, !.pc = "walk", !.root = root]
Scanner(who, pc) == scan.who = who /\ scan.pc = pc
Goto(pc) == scan' = [scan EXCEPT !.pc = pc]
Indexing(value) == [state EXCEPT !.indexing = value]

IndexerBegins ==
  /\ Lock("indexer", Root)
  /\ state' = Indexing(TRUE)
  /\ UNCHANGED <<sc, clear, at, stamp, rows, reindex, op, marks, download, cache, reader, left>>

(* The first batch of a reindex job clears its scope; that of the whole    *)
(* library clears the scan state too.                                      *)
ReindexBegins ==
  /\ reindex.status = "running"
  /\ Lock("reindex", sc.scope)
  /\ rows' = IF reindex.first THEN Marked({p \in Paths : IsAt(sc.scope, p)}, "absent") ELSE rows
  /\ state' = LET s == IF reindex.first THEN [state.cursor EXCEPT ![sc.scope] = Root] ELSE state.cursor
              IN  [state EXCEPT !.indexing = TRUE, !.cursor = s,
                                !.scanned = @ /\ ~(reindex.first /\ sc.scope = Root)]
  /\ UNCHANGED <<sc, clear, at, stamp, reindex, op, marks, download, cache, reader, left>>

SyncBegins ==
  /\ "sync" \in sc.events /\ left > 0 /\ left' = left - 1
  /\ Lock("sync", sc.scope)
  /\ UNCHANGED <<sc, clear, at, stamp, rows, state, reindex, op, marks, download, cache, reader>>

(* One batch is read.  A sync starts at the beginning, and marks what is   *)
(* no item any more.                                                       *)
Cursor == IF scan.who = "sync" THEN Root ELSE state.cursor[scan.root]
(* Mutant: a full batch counts as the end. *)
EndOfFull(batch, all) == Cardinality(batch) <= sc.batch
ReachedEnd(batch, all) ==
  IF scan.who = "sync" THEN batch = all ELSE Cardinality(batch) < sc.batch

Walk ==
  /\ scan.pc = "walk" /\ scan.who # "refresh"
  /\ LET all == ToScan(scan.root, Cursor)
         batch == FirstOf(all, IF scan.who = "sync" THEN sc.budget ELSE sc.batch)
     IN  /\ scan' = [scan EXCEPT !.pc = "write", !.records = {p \in batch : Indexable(p)},
                                 !.last = IF batch = {} THEN Cursor ELSE LastOf(batch),
                                 !.end = ReachedEnd(batch, all), !.whole = Cursor = Root]
         /\ rows' = IF scan.who = "sync" THEN Stale({p \in batch : ~Indexable(p)}) ELSE rows
  /\ UNCHANGED <<sc, clear, at, stamp, state, reindex, op, marks, download, cache, reader, left>>

(* Rows, cursor and flags are written one after another.                  *)
Write ==
  /\ scan.pc = "write" /\ scan.who # "refresh"
  /\ rows' = Marked(scan.records, "fresh")
  /\ Goto(IF scan.who = "sync" THEN "prune" ELSE "cursor")
  /\ UNCHANGED <<sc, clear, at, stamp, state, reindex, op, marks, download, cache, reader, left>>

NextCursor == IF scan.end THEN Root ELSE scan.last
(* History: a walk of the scope has begun, or a sync has seen all of it.   *)
Vouched == [clear EXCEPT !.since = @ /\ ~(scan.whole /\ scan.root = sc.scope /\ (scan.who = "sync" => scan.end))]
WriteCursor ==
  /\ scan.pc = "cursor"
  /\ state' = [state EXCEPT !.cursor[scan.root] = NextCursor,
                            !.complete = IF scan.root = Root THEN @ ELSE scan.end]
  /\ clear' = Vouched /\ Goto("flags")
  /\ UNCHANGED <<sc, at, stamp, rows, reindex, op, marks, download, cache, reader, left>>

(* A reindex job ends with the batch that reached the end.                 *)
WriteFlags ==
  /\ scan.pc = "flags"
  /\ state' = [state EXCEPT !.indexing = FALSE, !.scanned = TRUE]
  /\ IF scan.who = "indexer" THEN Goto("prune") /\ UNCHANGED <<reindex, cache>>
     ELSE /\ scan' = NoScan
          /\ reindex' = [reindex EXCEPT !.status = IF scan.end THEN "done" ELSE @, !.first = FALSE]
          /\ cache' = IF scan.end THEN NoPage ELSE cache
  /\ UNCHANGED <<sc, clear, at, stamp, rows, op, marks, download, reader, left>>

(* Mutant: no pruning. *)
NotPruned == rows
(* prune_missing_library_items looks at the first rows that are not stale, *)
(* in an order that stays (here that of the paths): as many as a batch has *)
(* for the indexer.                                                        *)
Looked(root, n) ==
  LET some == {p \in Fresh : IsAt(root, p)} IN {p \in some : Cardinality({q \in some : Less(q, p)}) < n}
Pruned == Stale(Looked(scan.root, IF scan.who = "sync" THEN sc.prune ELSE sc.batch) \ Existing)
Prune ==
  /\ scan.pc = "prune"
  /\ rows' = Pruned /\ scan' = NoScan
  /\ IF scan.who = "sync"
     THEN /\ state' = IF scan.root = Root THEN state ELSE [state EXCEPT !.complete = scan.end]
          /\ cache' = NoPage /\ clear' = Vouched
     ELSE UNCHANGED <<state, cache, clear>>
  /\ UNCHANGED <<sc, at, stamp, reindex, op, marks, download, reader, left>>

(* An exception anywhere in a scan: the indexer goes on, a job fails. *)
ScanFails ==
  /\ "fault" \in sc.events /\ scan.pc = "walk" /\ scan.who \in {"indexer", "reindex"}
  /\ left > 0 /\ left' = left - 1
  /\ scan' = NoScan /\ state' = Indexing(FALSE)
  /\ reindex' = IF scan.who = "reindex" THEN [reindex EXCEPT !.status = "failed"] ELSE reindex
  /\ cache' = IF scan.who = "reindex" THEN NoPage ELSE cache
  /\ UNCHANGED <<sc, clear, at, stamp, rows, op, marks, download, reader>>

(* The refresh after a download: the target, or the folder of a file. *)
RefreshBegins ==
  /\ download.hook # Gone /\ Lock("refresh", download.hook)
  /\ download' = [download EXCEPT !.hook = Gone]
  /\ UNCHANGED <<sc, clear, at, stamp, rows, state, reindex, op, marks, cache, reader, left>>

Refreshed(p) ==
  IF p \notin Existing THEN {}
  ELSE IF Indexable(p) THEN {p}
  ELSE {q \in {Parent(p)} : IsFile(p) /\ q \in Existing /\ IsCard(q)}
RefreshReads ==
  /\ Scanner("refresh", "walk")
  /\ scan' = [scan EXCEPT !.pc = "write", !.records = Refreshed(scan.root)]
  /\ UNCHANGED <<sc, clear, at, stamp, rows, state, reindex, op, marks, download, cache, reader, left>>
RefreshWrites ==
  /\ Scanner("refresh", "write")
  /\ rows' = IF scan.records = {} THEN Stale({scan.root}) ELSE Marked(scan.records, "fresh")
  /\ scan' = NoScan /\ cache' = NoPage
  /\ UNCHANGED <<sc, clear, at, stamp, state, reindex, op, marks, download, reader, left>>

-----------------------------------------------------------------------------
(* Reindex jobs: one active job per scope.                                 *)

RequestReindex ==
  /\ "reindex" \in sc.events /\ left > 0 /\ left' = left - 1
  /\ reindex.status \notin {"queued", "running", "paused"}
  /\ reindex' = [status |-> "queued", first |-> TRUE, cleared |-> FALSE]
  /\ UNCHANGED <<sc, clear, at, stamp, rows, state, scan, op, marks, download, cache, reader>>

StartReindex ==
  /\ reindex.status = "queued"
  /\ reindex' = [status |-> "running", first |-> TRUE, cleared |-> FALSE] /\ cache' = NoPage
  /\ UNCHANGED <<sc, clear, at, stamp, rows, state, scan, op, marks, download, reader, left>>

(* Paused between two batches; resumed it starts anew. *)
StopReindex ==
  /\ "stop" \in sc.events /\ reindex.status = "running" /\ scan.who # "reindex"
  /\ left > 0 /\ left' = left - 1
  /\ reindex' = [reindex EXCEPT !.status = "paused"] /\ cache' = NoPage
  /\ UNCHANGED <<sc, clear, at, stamp, rows, state, scan, op, marks, download, reader>>
ResumeReindex ==
  /\ reindex.status = "paused" /\ reindex' = [reindex EXCEPT !.status = "queued"]
  /\ UNCHANGED <<sc, clear, at, stamp, rows, state, scan, op, marks, download, cache, reader, left>>

-----------------------------------------------------------------------------
(* POST /api/jobs/clear, in the thread pool and without the scan lock: the *)
(* rows of jobs that are over, then the index and what is known of scans.  *)

ClearHistory ==
  /\ "clear" \in sc.events /\ ~clear.busy /\ left > 0 /\ left' = left - 1
  /\ clear' = [clear EXCEPT !.busy = TRUE]
  /\ reindex' = IF reindex.status \in {"done", "failed"} THEN [reindex EXCEPT !.status = "none"] ELSE reindex
  /\ download' = IF download.status \in {"done", "failed"} THEN [NoDownload EXCEPT !.hook = download.hook] ELSE download
  /\ UNCHANGED <<sc, at, stamp, rows, state, scan, op, marks, cache, reader>>

ClearIndex ==
  /\ clear.busy /\ clear' = [busy |-> FALSE, since |-> TRUE]
  /\ rows' = [p \in Paths |-> "absent"]
  /\ state' = [cursor |-> [s \in {Root, sc.scope} |-> Root], complete |-> FALSE, scanned |-> FALSE, indexing |-> FALSE]
  /\ scan' = [scan EXCEPT !.whole = FALSE] /\ reindex' = [reindex EXCEPT !.cleared = TRUE]
  /\ cache' = NoPage
  /\ UNCHANGED <<sc, at, stamp, op, marks, download, reader, left>>

-----------------------------------------------------------------------------
(* Files change: by the API, whose handlers run one after another, each in *)
(* three steps, the look for active jobs, the disk and the database; and by*)
(* other programs.                                                         *)

ActivePaths ==
  (IF download.status \in {"expected", "active"} THEN {download.path} ELSE {})
    \cup (IF reindex.status \in {"queued", "running", "paused"} THEN {sc.scope} ELSE {})
Mutable(p) == \A a \in ActivePaths : ~Overlap(p, a)

Stamped(some) == IF \E p \in some : Parent(p) = sc.scope \/ IsAt(p, sc.scope) THEN stamp + 1 ELSE stamp
MovedPath(p, from, to) == IF IsAt(from, p) THEN to \o SubSeq(p, Len(from) + 1, Len(p)) ELSE p
IsFolderThere(p) == p = Root \/ (p \in Existing /\ ~IsFile(p))

(* Mutant: an existing target is not looked for. *)
Replaceable(to) == TRUE
Vacant(to) == to \notin Existing

LookAtJobs(kind, o, to) ==
  /\ "move" \in sc.events /\ op.kind = "none" /\ There(o) /\ Mutable(at[o])
  /\ left > 0 /\ left' = left - 1
  /\ op' = [kind |-> kind, from |-> at[o], to |-> to]
  /\ UNCHANGED <<sc, clear, at, stamp, rows, state, scan, reindex, marks, download, cache, reader>>

(* A rename keeps the folder, a move the name; a request that is refused   *)
(* at once changes nothing and is left out.                                *)
CanMove(from, to) ==
  /\ from \in Existing /\ Vacant(to) /\ ~IsAt(from, to) /\ IsFolderThere(Parent(to))
  /\ Parent(to) = Parent(from) \/ to[Len(to)] = from[Len(from)]
  /\ \A p \in Existing : MovedPath(p, from, to) \in Paths    \* bound
MoveOnDisk ==
  /\ op.kind = "moving"
  /\ IF CanMove(op.from, op.to)
     THEN /\ at' = [x \in Objects |-> IF There(x) THEN MovedPath(at[x], op.from, op.to) ELSE Gone]
          /\ stamp' = Stamped({op.from, op.to}) /\ op' = [op EXCEPT !.kind = "move"]
     ELSE op' = [op EXCEPT !.kind = "none"] /\ UNCHANGED <<at, stamp>>
  /\ UNCHANGED <<sc, clear, rows, state, scan, reindex, marks, download, cache, reader, left>>

(* Mutant: what is inside the folder keeps its old path. *)
OnlyItself(p) == IF p = op.from THEN op.to ELSE p
Rewritten(p) == MovedPath(p, op.from, op.to)
MovedRows ==
  [p \in Paths |->
     LET was == {q \in Paths : IsAt(op.from, q) /\ Rewritten(q) = p /\ rows[q] # "absent"}
     IN  IF was # {} THEN "stale" ELSE IF IsAt(op.from, p) THEN "absent" ELSE rows[p]]
HasTarget == download.status \in {"active", "done", "failed"}
MoveInDatabase ==
  /\ op.kind = "move"
  /\ download' = [download EXCEPT !.path = IF HasTarget THEN Rewritten(@) ELSE @]
  /\ marks' = {<<Rewritten(m[1]), m[2]>> : m \in marks}
  /\ rows' = MovedRows
  /\ cache' = NoPage /\ op' = [op EXCEPT !.kind = "none"]
  /\ UNCHANGED <<sc, clear, at, stamp, state, scan, reindex, reader, left>>

Without(p) == [x \in Objects |-> IF There(x) /\ IsAt(p, at[x]) THEN Gone ELSE at[x]]
DeleteOnDisk ==
  /\ op.kind = "deleting"
  /\ at' = Without(op.from)
  /\ stamp' = IF op.from \in Existing THEN Stamped({op.from}) ELSE stamp
  /\ op' = [op EXCEPT !.kind = IF op.from \in Existing THEN "delete" ELSE "none"]
  /\ UNCHANGED <<sc, clear, rows, state, scan, reindex, marks, download, cache, reader, left>>

DeleteInDatabase ==
  /\ op.kind = "delete"
  /\ download' = [download EXCEPT !.path = IF HasTarget /\ IsAt(op.from, @) THEN Gone ELSE @]
  /\ marks' = {m \in marks : ~IsAt(op.from, m[1])}
  /\ rows' = Marked({p \in Paths : IsAt(op.from, p)}, "absent")
  /\ cache' = NoPage /\ op' = [op EXCEPT !.kind = "none"]
  /\ UNCHANGED <<sc, clear, at, stamp, state, scan, reindex, reader, left>>

(* Another program takes an object away, or puts it where it first was. *)
External(o) ==
  /\ "external" \in sc.events /\ left > 0 /\ left' = left - 1
  /\ IF There(o) THEN at' = Without(at[o]) /\ stamp' = Stamped({at[o]})
     ELSE /\ IsFolderThere(Parent(sc.at[o])) /\ sc.at[o] \notin Existing
          /\ at' = [at EXCEPT ![o] = sc.at[o]] /\ stamp' = Stamped({sc.at[o]})
  /\ UNCHANGED <<sc, clear, rows, state, scan, reindex, op, marks, download, cache, reader>>

(* A favorite or a note. *)
Mark(o) ==
  /\ "mark" \in sc.events /\ op.kind = "none" /\ There(o)
  /\ left > 0 /\ left' = left - 1
  /\ marks' = marks \cup {<<at[o], o>>}
  /\ UNCHANGED <<sc, clear, at, stamp, rows, state, scan, reindex, op, download, cache, reader>>

(* A download runs below one of the roots expected of its source, and then *)
(* in its target_dir.  Jobs are added and retried in the thread pool or by *)
(* another job, whatever operation is under way.                           *)
Beside == op.kind \in {"moving", "deleting"}
DownloadStarts(o) ==
  /\ "download" \in sc.events /\ There(o) /\ download.status = "none"
  /\ download' = [download EXCEPT !.status = "expected", !.path = at[o], !.beside = Beside]
  /\ UNCHANGED <<sc, clear, at, stamp, rows, state, scan, reindex, op, marks, cache, reader, left>>
TargetChosen(o) ==
  /\ download.status = "expected" /\ There(o) /\ IsAt(download.path, at[o])
  /\ download' = [download EXCEPT !.status = "active", !.path = at[o], !.of = o]
  /\ UNCHANGED <<sc, clear, at, stamp, rows, state, scan, reindex, op, marks, cache, reader, left>>
DownloadEnds ==
  /\ download.status = "active"
  /\ \/ download' = [download EXCEPT !.status = "done", !.hook = download.path]
     \/ download' = [download EXCEPT !.status = "failed"]
  /\ UNCHANGED <<sc, clear, at, stamp, rows, state, scan, reindex, op, marks, cache, reader, left>>
(* Its row still has the target_dir. *)
DownloadRetried ==
  /\ download.status = "failed" /\ download.path # Gone /\ left > 0 /\ left' = left - 1
  /\ download' = [download EXCEPT !.status = "active", !.beside = Beside]
  /\ UNCHANGED <<sc, clear, at, stamp, rows, state, scan, reindex, op, marks, cache, reader>>

-----------------------------------------------------------------------------
(* Pages.                                                                  *)

ScopeComplete(root) ==
  IF root = Root THEN state.scanned /\ state.cursor[Root] = Root /\ ~state.indexing
  ELSE state.complete
(* What an index page says of a scope. *)
PageStatus(root) ==
  IF \E p \in Fresh : IsAt(root, p) THEN "items"
  ELSE IF ScopeComplete(root) THEN "empty"
  ELSE IF root = Root /\ state.indexing THEN "indexing" ELSE "needs refresh"

(* A live page: signature, then cache or file system, then cache. *)
ReadSignature ==
  /\ "page" \in sc.events /\ reader.pc = "none" /\ IsFolderThere(sc.scope)
  /\ left > 0 /\ left' = left - 1
  /\ ~(cache.pc = "kept" /\ cache.stamp = stamp)
  /\ reader' = [NoPage EXCEPT !.pc = "read", !.stamp = stamp]
  /\ UNCHANGED <<sc, clear, at, stamp, rows, state, scan, reindex, op, marks, download, cache>>
ReadItems ==
  /\ reader.pc = "read"
  /\ reader' = [reader EXCEPT !.pc = "store", !.items = {p \in Existing : IsAt(sc.scope, p)}]
  /\ UNCHANGED <<sc, clear, at, stamp, rows, state, scan, reindex, op, marks, download, cache, left>>
(* Mutant: the signature is taken when the page is stored. *)
LateSignature == stamp
Signature == reader.stamp
StorePage ==
  /\ reader.pc = "store"
  /\ cache' = [pc |-> "kept", stamp |-> Signature, items |-> reader.items] /\ reader' = NoPage
  /\ UNCHANGED <<sc, clear, at, stamp, rows, state, scan, reindex, op, marks, download, left>>
PageExpires ==
  /\ cache.pc = "kept" /\ cache' = NoPage
  /\ UNCHANGED <<sc, clear, at, stamp, rows, state, scan, reindex, op, marks, download, reader, left>>

(* A restart: threads and caches are gone, a running job is queued again. *)
Crash ==
  /\ "crash" \in sc.events /\ left > 0 /\ left' = left - 1
  /\ scan' = NoScan /\ op' = [op EXCEPT !.kind = "none"] /\ cache' = NoPage /\ reader' = NoPage
  /\ reindex' = [reindex EXCEPT !.status = IF @ = "running" THEN "queued" ELSE @]
  /\ download' = [download EXCEPT !.hook = Gone] /\ clear' = [clear EXCEPT !.busy = FALSE]
  /\ UNCHANGED <<sc, at, stamp, rows, state, marks>>

-----------------------------------------------------------------------------
ScanStep == Walk \/ Write \/ WriteCursor \/ WriteFlags \/ Prune \/ RefreshReads \/ RefreshWrites
JobStep == ReindexBegins \/ StartReindex \/ RefreshBegins
HandlerStep == MoveOnDisk \/ DeleteOnDisk \/ MoveInDatabase \/ DeleteInDatabase \/ ClearIndex

Next ==
  \/ ScanStep \/ JobStep \/ HandlerStep \/ IndexerBegins \/ SyncBegins \/ ScanFails
  \/ RequestReindex \/ StopReindex \/ ResumeReindex \/ ClearHistory \/ DownloadEnds \/ DownloadRetried
  \/ ReadSignature \/ ReadItems \/ StorePage \/ PageExpires \/ Crash
  \/ \E o \in Objects : \/ LookAtJobs("deleting", o, Root) \/ External(o) \/ Mark(o)
                        \/ DownloadStarts(o) \/ TargetChosen(o)
                        \/ \E to \in Paths : CanMove(at[o], to) /\ LookAtJobs("moving", o, to)

Spec == Init /\ [][Next]_vars

(* Threads that hold the lock go on, the indexer comes back every interval,*)
(* queued jobs start, a handler that has begun goes on.                    *)
FairSpec ==
  Spec /\ WF_vars(ScanStep) /\ SF_vars(IndexerBegins) /\ SF_vars(JobStep) /\ WF_vars(HandlerStep)

-----------------------------------------------------------------------------
(* Properties.                                                             *)

Edited == sc.events \cap {"move", "external"} # {}

(* Every variable has its type.                                            *)
TypeOK ==
  /\ at \in [Objects -> Paths \cup {Gone}] /\ left \in 0..sc.requests
  /\ \A o, x \in Objects : There(o) /\ at[o] = at[x] => o = x
  /\ rows \in [Paths -> {"absent", "stale", "fresh"}]
  /\ scan.records \subseteq Paths
  /\ scan.pc \in {"free", "walk", "write", "cursor", "flags", "prune"}
  /\ \A m \in marks : m[1] \in Seq(Names)
  /\ state.cursor \in [{Root, sc.scope} -> Paths \cup {Root}]

(* Favorites, notes and the target directories of jobs name the same       *)
(* object through every rename and move and are forgotten with it, those   *)
(* of jobs that started during one too.  update_target_dir_prefix,         *)
(* update_favorite_path_prefix                                             *)
MarksFollow ==
  sc.events \cap {"external", "crash"} = {} /\ op.kind = "none" =>
    /\ \A m \in marks : at[m[2]] = m[1]
    /\ HasTarget => download.path = at[download.of]

(* What an active download writes to, contains or is in stays where it is: *)
(* no rename, move or deletion takes it, except the one that had looked    *)
(* for active jobs before this one was, and changed the disk after.        *)
(* has_active_jobs_under                                                   *)
ActiveUnmoved ==
  [][\A o \in Objects :
       /\ download.status \in {"expected", "active"} /\ ~download.beside /\ "external" \notin sc.events
       /\ There(o) /\ (IsAt(at[o], download.path) \/ IsAt(download.path, at[o]))
       => at'[o] = at[o]]_vars

(* A page calls a scope empty only when it has no items but such as the    *)
(* cursor of a batch may go past, whatever batches, syncs and jobs came in *)
(* between (between two scans; for the whole library with failed scans and *)
(* restarts as well), unless the index was cleared since the walk began    *)
(* that vouches for it.  library_index_scope_complete                      *)
EmptyIsEmpty ==
  /\ ~Edited /\ scan.who = "none" /\ ~clear.since
  /\ sc.scope = Root \/ sc.events \cap {"fault", "crash"} = {}
  /\ PageStatus(sc.scope) = "empty"
  => \A p \in Items(sc.scope) : Overtaken(sc.scope, p)

(* Once the files rest, the indexer finds every item that its cursor does  *)
(* not go past, also after a clear cut through its walk, and among the     *)
(* first rows, as many as a batch has, none is of a file that is gone.     *)
(* Rows behind as many present ones are never looked at again.             *)
(* library_indexer_loop                                                    *)
IndexCatchesUp ==
  <>[](/\ \A p \in Items(Root) : p \in Fresh \/ Overtaken(Root, p)
       /\ Looked(Root, sc.batch) \subseteq Existing)

(* A page kept for the present signature lists the entries the folder has  *)
(* now.  cached_selected_folder_live_items                                 *)
KeptIsCurrent ==
  cache.pc = "kept" /\ cache.stamp = stamp /\ IsFolderThere(sc.scope) =>
    {p \in cache.items : Parent(p) = sc.scope} = {p \in Existing : Parent(p) = sc.scope}

(* A reindex job that is done has left every item of its scope in the      *)
(* index, but such as the cursor of its batches may go past, unless the    *)
(* index was cleared since the job started.  run_library_reindex_job       *)
ReindexedIsIndexed ==
  ~Edited /\ reindex.status = "done" /\ ~reindex.cleared =>
    \A p \in Items(sc.scope) : p \in Fresh \/ Overtaken(sc.scope, p)

(* What the library says of the disk is so: the index, the live pages that *)
(* are kept, and the jobs that call themselves done.  api_library          *)
ClaimsAreTrue == EmptyIsEmpty /\ KeptIsCurrent /\ ReindexedIsIndexed

=============================================================================
