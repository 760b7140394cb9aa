------------------------- MODULE DownloadFilesProofs -------------------------
(***************************************************************************)
(* Files under their final names are whole, every part file can be found,  *)
(* and what stops a job takes no byte from it: first where the job's own   *)
(* thread writes the files, and at the end where it supervises a program   *)
(* that does, for every length of the program's output, every size of the  *)
(* pipe and of the queue and every scenario.                               *)
(***************************************************************************)
EXTENDS DownloadFiles, ExternalProcess, FiniteSetTheorems, TLAPS

Statuses == {"gone", "queued", "running", "paused", "pausing", "deleting", "canceling",
             "canceled", "failed", "done"}
\* Where a thread is: with one file, and there between the lock and the rename.
FilePCs == {"lock", "stat", "request", "relock", "open", "read", "replace", "size", "badurl",
            "badentry", "saved"}
Handling == {"manifest", "entry", "except"} \cup FilePCs
PCs == {"idle", "begin", "stop", "sweeping"} \cup Handling

(* The variables have their types.                                         *)
Row == [status : Statuses, dir : Dirs \cup {NoName}, file : Names \cup {NoName},
        regs : SUBSET PartKeys]
Thread == [pc : PCs, at : Nat \ {0}, alt : Nat \ {0}, dir : Dirs \cup {NoName},
           path : Paths \cup {NoFile}, existing : 0..Size, downloaded : 0..Size,
           saved : Nat, stop : {"go", "paused", "canceled", "deleted"}]
Sweep == [step : {"none", "partials", "reference", "remove", "row"}, job : Jobs \cup {NoFile},
          target : SUBSET Paths]
File == [url : Urls, has : SUBSET Chunks]
SweepsNamed == \A a \in Actors : sweep[a].step # "none" => sweep[a].job \in Jobs
Typed ==
  /\ plan \in [Jobs -> Plan]
  /\ \E s \in Scenarios : plan = s.plan /\ events = s.events
  /\ row \in [Jobs -> Row] /\ pending \subseteq Jobs /\ thr \in [Jobs -> Thread]
  /\ part \in [PartKeys -> (SUBSET Chunks) \cup {NoFile}]
  /\ final \in [Paths -> File \cup {NoFile}] /\ lock \in [Paths -> Jobs \cup {NoFile}]
  /\ sweep \in [Actors -> Sweep] /\ SweepsNamed
  /\ clear \in [Clients -> [on : BOOLEAN, left : SUBSET Jobs]]

(* A thread fetches an entry of its plan from one of its URLs, into a      *)
(* directory of its plan.  t: the thread, p: the plan.                     *)
PlaceFits(t, p) ==
  /\ t.pc = "entry" \/ t.pc \in FilePCs =>
       /\ t.dir \in p.dirs
       /\ t.at <= Len(p.entries) => t.alt <= Len(p.entries[t.at].urls)
  /\ t.pc \in FilePCs => t.at <= Len(p.entries) /\ t.path \in {t.dir} \X Names
  /\ t.pc = "relock" =>
       t.existing = 0 /\ Disposition[p.entries[t.at].urls[t.alt]] \in Names
  /\ t.pc \in {"idle", "begin", "manifest"} => t.alt = 1
  /\ t.pc = "stop" => t.stop # "go"
Placed == \A j \in Jobs : PlaceFits(thr[j], plan[j])

(* No part is unlinked between a thread's look at it and its open.         *)
PartsStay ==
  \A j \in Jobs : thr[j].pc \in {"request", "open"} /\ thr[j].existing # 0 =>
    part[PartPath(j)] # NoFile

(* A part is the beginning of its body, as long as its thread takes it for. *)
Beginning(c) == \E n \in 0..Size : c = 1..n
PartFits(t, c) ==
  /\ t.pc \in {"request", "open"} /\ t.existing # 0 => c = 1..t.existing
  /\ t.pc = "read" => c \in {NoFile, 1..t.downloaded}
  /\ t.pc = "replace" => c \in {NoFile, Chunks}
PartsFit ==
  /\ \A k \in PartKeys : part[k] # NoFile => Beginning(part[k])
  /\ \A j \in Jobs : thr[j].pc \in FilePCs => PartFits(thr[j], part[PartPath(j)])

(* A thread that has begun has a row that is not at rest.                  *)
RowsBusy ==
  \A j \in Jobs : thr[j].pc \notin {"idle", "begin"} =>
    row[j].status \in {"running", "pausing", "deleting", "gone"}

-----------------------------------------------------------------------------
(* Where removals and threads of a job keep apart.                         *)

SweepsApart ==
  /\ \A a \in Actors : sweep[a].step # "none" =>
       /\ sweep[a].job \in Jobs
       /\ sweep[a].target \subseteq plan[sweep[a].job].dirs \X Names
       /\ IF a \in Jobs THEN sweep[a].job = a /\ thr[a].pc = "sweeping"
                        ELSE thr[sweep[a].job].pc = "idle"
  /\ \A c \in Clients : clear[c].on => \A j \in Jobs : thr[j].pc = "idle"
RowsPlaced ==
  \A j \in Jobs : /\ row[j].dir \in plan[j].dirs \cup {NoName}
                  /\ thr[j].pc # "idle" => ~Gone(j)

-----------------------------------------------------------------------------
(* What is known of the parts of a job, whatever its removals overlap.     *)

(* A thread that runs beside a removal is on record, and only such a       *)
(* thread outlives its row.                                                *)
RemovalsSeen ==
  /\ \A j \in Jobs : sweep[j].step # "none" => sweep[j].job = j /\ thr[j].pc = "sweeping"
  /\ \A c \in Clients, j \in Jobs :
       (sweep[c].step # "none" /\ sweep[c].job = j) \/ clear[c].on =>
         j \in beside \/ thr[j].pc = "idle"
  /\ \A j \in Jobs : thr[j].pc # "idle" /\ Gone(j) => j \in beside

(* The row names the thread's directory, and registers what lies in it; a  *)
(* handler that does not overwrite the metadata registers every part.      *)
RowsKnow ==
  /\ \A j \in Jobs : thr[j].pc \in {"entry"} \cup FilePCs /\ ~Gone(j) => row[j].dir = thr[j].dir
  /\ \A j \in Jobs : ByDirectory(j) => \A k \in row[j].regs : k[2][1] = row[j].dir
  /\ \A k \in PartKeys : part[k] # NoFile /\ ~ByDirectory(k[1]) /\ ~Gone(k[1]) =>
       k \in row[k[1]].regs

(* Where a removal has passed, no part is left that can be found.          *)
Swept(j) == \A k \in PartKeys : k[1] = j /\ part[k] # NoFile => ~Found(k)
PartsSwept ==
  /\ \A a \in Actors : sweep[a].step \in {"reference", "remove", "row"} =>
       sweep[a].job \in beside \/ Swept(sweep[a].job)
  /\ \A c \in Clients, j \in Jobs : clear[c].on /\ InactiveRow(j) /\ j \notin clear[c].left =>
       j \in beside \/ Swept(j)

-----------------------------------------------------------------------------
(* The variables keep their types.                                         *)

\* The row and the thread of a job, and its plan.
LEMMA AtThread ==
  ASSUME Typed, NEW j \in Jobs
  PROVE  /\ thr[j] \in Thread /\ row[j] \in Row /\ plan[j] \in Plan
         /\ DOMAIN thr = Jobs /\ DOMAIN row = Jobs
BY DEF Typed

\* The entry and the URL a thread is at.
LEMMA AtEntry ==
  ASSUME Typed, Placed, NEW j \in Jobs,
         thr[j].pc \in FilePCs \/ (thr[j].pc = "entry" /\ ~AllEntriesTried(j))
  PROVE  /\ thr[j].at \in 1..Len(plan[j].entries) /\ Entry(j) \in FileEntry
         /\ thr[j].alt \in 1..Len(Entry(j).urls) /\ Url(j) \in Urls
         /\ thr[j].dir \in plan[j].dirs /\ thr[j].dir \in Dirs
<1>1. thr[j] \in Thread /\ plan[j] \in Plan BY AtThread
<1>2. PICK t : t = thr[j] OBVIOUS
<1>3. PICK p : p = plan[j] OBVIOUS
<1>4. /\ t.at \in Nat \ {0} /\ t.alt \in Nat \ {0}
      /\ p.entries \in Seq(FileEntry) /\ p.dirs \subseteq Dirs
  BY <1>1, <1>2, <1>3 DEF Thread, Plan
<1>5. t.at <= Len(p.entries) /\ t.alt <= Len(p.entries[t.at].urls) /\ t.dir \in p.dirs
  <2>1. PlaceFits(t, p) BY <1>2, <1>3 DEF Placed
  <2>2. CASE t.pc \in FilePCs BY <2>1, <2>2 DEF PlaceFits
  <2>3. CASE t.pc = "entry" /\ ~(t.at > Len(p.entries))
    BY <2>1, <2>3, <1>4 DEF PlaceFits
  <2> QED BY <2>2, <2>3, <1>2, <1>3 DEF AllEntriesTried
<1>6. t.at \in 1..Len(p.entries) BY <1>4, <1>5
<1>7. PICK e \in FileEntry : e = p.entries[t.at] BY <1>4, <1>6
<1>8. e.urls \in Seq(Urls) BY DEF FileEntry
<1>9. t.alt \in 1..Len(e.urls) BY <1>4, <1>5, <1>7, <1>8
<1>10. e.urls[t.alt] \in Urls BY <1>8, <1>9
<1> QED BY <1>2, <1>3, <1>4, <1>5, <1>6, <1>7, <1>9, <1>10 DEF Entry, Url

\* A thread between the lock and the rename has a path and a part of its own.
LEMMA AtFile ==
  ASSUME Typed, Placed, NEW j \in Jobs, thr[j].pc \in FilePCs
  PROVE  /\ thr[j].path \in Paths /\ thr[j].path[1] = thr[j].dir /\ thr[j].path[2] \in Names
         /\ PartPath(j) \in PartKeys /\ PartPath(j)[1] = j
         /\ PartPath(j)[2] = thr[j].path
<1>1. thr[j].path \in {thr[j].dir} \X Names BY DEF Placed, PlaceFits
<1>2. thr[j].dir \in Dirs /\ Url(j) \in Urls BY AtEntry
<1> QED BY <1>1, <1>2 DEF Paths, PartKeys, PartPath

(* One thread moves.                                                       *)

\* Records of threads: t is where a thread was, p its plan.
LEMMA PcFits ==
  ASSUME NEW t \in Thread, NEW p \in Plan, PlaceFits(t, p), NEW pc \in PCs,
         pc \in {"idle", "begin", "manifest"} => t.alt = 1,
         \/ pc \notin {"entry", "stop"} \cup FilePCs
         \/ t.pc \in FilePCs /\ pc \in FilePCs \ {"relock"}
  PROVE  [t EXCEPT !.pc = pc] \in Thread /\ PlaceFits([t EXCEPT !.pc = pc], p)
BY DEF Thread, PlaceFits, FilePCs

\* A thread that is stopped fits its plan.
LEMMA StopFits ==
  ASSUME NEW t \in Thread, NEW p \in Plan, NEW stop \in {"paused", "canceled", "deleted"}
  PROVE  /\ [t EXCEPT !.pc = "stop", !.stop = stop] \in Thread
         /\ PlaceFits([t EXCEPT !.pc = "stop", !.stop = stop], p)
BY DEF Thread, PlaceFits, PCs, FilePCs

\* A loop over the entries goes on with the first URL of the next one.
LEMMA NextFits ==
  ASSUME NEW t \in Thread, NEW p \in Plan, PlaceFits(t, p), t.pc = "entry" \/ t.pc \in FilePCs,
         NEW gain \in {0, 1},
         NEW u, u = [t EXCEPT !.pc = "entry", !.at = @ + 1, !.alt = 1, !.saved = @ + gain]
  PROVE  u \in Thread /\ PlaceFits(u, p)
<1>1. /\ t.at + 1 \in Nat \ {0} /\ 1 \in Nat \ {0} /\ t.saved + gain \in Nat
      /\ "entry" \in PCs /\ t.dir \in p.dirs
  BY DEF Thread, PCs, Handling, PlaceFits
<1>2. /\ u.pc = "entry" /\ u.at = t.at + 1 /\ u.alt = 1 /\ u.dir = t.dir
  BY DEF Thread
<1>3. u \in Thread BY <1>1 DEF Thread
<1>4. u.at <= Len(p.entries) => 1 <= Len(p.entries[u.at].urls)
  <2> SUFFICES ASSUME u.at <= Len(p.entries) PROVE 1 <= Len(p.entries[u.at].urls) OBVIOUS
  <2>1. p.entries \in Seq(FileEntry) /\ u.at \in 1..Len(p.entries) BY <1>1, <1>2 DEF Plan
  <2>2. PICK e \in FileEntry : e = p.entries[u.at] BY <2>1
  <2>3. e.urls \in Seq(Urls) /\ e.urls # <<>> BY DEF FileEntry
  <2> QED BY <2>2, <2>3
<1> QED BY <1>1, <1>2, <1>3, <1>4 DEF PlaceFits, FilePCs

\* A stream has the path that its handler or the server named.
LEMMA PathFits ==
  ASSUME NEW t \in Thread, NEW p \in Plan, PlaceFits(t, p), NEW n \in Names,
         (t.pc = "entry" /\ t.at <= Len(p.entries)) \/ t.pc \in FilePCs,
         NEW pc \in FilePCs \ {"relock"}
  PROVE  /\ [t EXCEPT !.pc = pc, !.path = <<t.dir, n>>] \in Thread
         /\ PlaceFits([t EXCEPT !.pc = pc, !.path = <<t.dir, n>>], p)
<1>1. t.dir \in p.dirs /\ p.dirs \subseteq Dirs BY DEF PlaceFits, Plan
<1>2. <<t.dir, n>> \in Paths /\ pc \in PCs BY <1>1 DEF Paths, PCs, Handling
<1>3. PICK u : u = [t EXCEPT !.pc = pc, !.path = <<t.dir, n>>] OBVIOUS
<1>4. /\ u \in Thread /\ u.pc = pc /\ u.path = <<t.dir, n>>
      /\ u.dir = t.dir /\ u.at = t.at /\ u.alt = t.alt
  BY <1>2, <1>3 DEF Thread
<1>5. t.at <= Len(p.entries) /\ t.alt <= Len(p.entries[t.at].urls) BY DEF PlaceFits
<1>6. pc \notin {"idle", "begin", "manifest", "entry", "relock", "stop"} BY DEF FilePCs
<1>7. <<t.dir, n>> \in {t.dir} \X Names OBVIOUS
<1> QED BY <1>1, <1>3, <1>4, <1>5, <1>6, <1>7 DEF PlaceFits

\* The counts of a stream are in their range.
LEMMA CountFits ==
  ASSUME NEW t \in Thread, NEW p \in Plan, PlaceFits(t, p), t.pc \in FilePCs,
         NEW pc \in FilePCs, NEW n \in 0..Size,
         pc = "relock" => n = 0 /\ Disposition[p.entries[t.at].urls[t.alt]] \in Names
  PROVE  /\ [t EXCEPT !.pc = pc, !.existing = n] \in Thread
         /\ PlaceFits([t EXCEPT !.pc = pc, !.existing = n], p)
         /\ pc # "relock" => /\ [t EXCEPT !.pc = pc, !.downloaded = n] \in Thread
                             /\ PlaceFits([t EXCEPT !.pc = pc, !.downloaded = n], p)
<1>1. pc \in PCs BY DEF PCs, Handling
<1> QED BY <1>1 DEF Thread, PlaceFits, FilePCs

\* A failed URL is followed by the next of the entry, if there is one.
LEMMA AltFits ==
  ASSUME NEW t \in Thread, NEW p \in Plan, PlaceFits(t, p), t.pc \in FilePCs,
         t.alt < Len(p.entries[t.at].urls)
  PROVE  /\ [t EXCEPT !.pc = "entry", !.alt = @ + 1] \in Thread
         /\ PlaceFits([t EXCEPT !.pc = "entry", !.alt = @ + 1], p)
<1>1. t.at \in 1..Len(p.entries) BY DEF Thread, Plan, PlaceFits
<1>2. PICK e \in FileEntry : e = p.entries[t.at] BY <1>1 DEF Plan
<1>3. t.alt + 1 \in Nat \ {0} /\ t.alt + 1 <= Len(e.urls) BY <1>2 DEF Thread, FileEntry
<1>4. "entry" \in PCs /\ t.dir \in p.dirs BY DEF PCs, Handling, PlaceFits
<1> QED BY <1>2, <1>3, <1>4 DEF Thread, PlaceFits, FilePCs

\* A handler begins with its first entry, in a directory of its plan.
LEMMA BeginFits ==
  ASSUME NEW t \in Thread, NEW p \in Plan, PlaceFits(t, p), t.pc = "manifest", NEW d \in p.dirs
  PROVE  /\ [t EXCEPT !.pc = "entry", !.dir = d] \in Thread
         /\ PlaceFits([t EXCEPT !.pc = "entry", !.dir = d], p)
<1>1. t.alt = 1 /\ d \in Dirs /\ "entry" \in PCs BY DEF PlaceFits, Plan, PCs, Handling
<1>2. t.at <= Len(p.entries) => 1 <= Len(p.entries[t.at].urls)
  <2> SUFFICES ASSUME t.at <= Len(p.entries) PROVE 1 <= Len(p.entries[t.at].urls) OBVIOUS
  <2>1. p.entries \in Seq(FileEntry) /\ t.at \in 1..Len(p.entries) BY DEF Plan, Thread
  <2>2. PICK e \in FileEntry : e = p.entries[t.at] BY <2>1
  <2>3. e.urls \in Seq(Urls) /\ e.urls # <<>> BY DEF FileEntry
  <2> QED BY <2>2, <2>3
<1> QED BY <1>1, <1>2 DEF Thread, PlaceFits, FilePCs

\* A thread that is not there fits every plan.
LEMMA IdleFits == ASSUME NEW p PROVE Idle \in Thread /\ PlaceFits(Idle, p)
BY SizeAssumption DEF Idle, Thread, PlaceFits, PCs, FilePCs

\* A part has at most Size chunks.
LEMMA SizesFit ==
  ASSUME Typed, NEW k \in PartKeys PROVE SizeOfPart(k) \in 0..Size
<1>1. CASE part[k] = NoFile BY <1>1, SizeAssumption DEF SizeOfPart
<1>2. CASE part[k] # NoFile
  <2>1. part[k] \in SUBSET Chunks BY <1>2 DEF Typed
  <2>2. IsFiniteSet(1..Size) /\ Cardinality(1..Size) = Size
    BY FS_Interval, SizeAssumption
  <2>3. IsFiniteSet(part[k]) /\ Cardinality(part[k]) <= Size BY <2>1, <2>2, FS_Subset DEF Chunks
  <2>4. Cardinality(part[k]) \in Nat BY <2>3, FS_CardinalityType
  <2> QED BY <1>2, <2>3, <2>4, SizeAssumption DEF SizeOfPart
<1> QED BY <1>1, <1>2

\* A step of a thread moves that thread, to a place of its plan.
Moved(j, u) == thr' = [thr EXCEPT ![j] = u]
Fits(j, u) == Moved(j, u) /\ u \in Thread /\ PlaceFits(u, plan[j])
\* Whatever its step, a thread stays in its plan, and the others stay put.
LEMMA ThreadMoves ==
  ASSUME Typed, Placed, NEW j \in Jobs, ThreadStep(j)
  PROVE  \/ \E u : Fits(j, u)
         \/ thr' = thr
<1>t. thr[j] \in Thread /\ plan[j] \in Plan /\ thr \in [Jobs -> Thread] /\ DOMAIN thr = Jobs
      /\ PlaceFits(thr[j], plan[j])
  BY AtThread DEF Typed, Placed
<1> PICK t \in Thread : t = thr[j] BY <1>t
<1> PICK p \in Plan : p = plan[j] BY <1>t
<1>p. PlaceFits(t, p) BY <1>t
<1>1. ASSUME NEW pc \in PCs, Goto(j, pc),
             pc \in {"idle", "begin", "manifest"} => t.alt = 1,
             \/ pc \notin {"entry", "stop"} \cup FilePCs
             \/ t.pc \in FilePCs /\ pc \in FilePCs \ {"relock"}
      PROVE  \E u : Fits(j, u)
  <2>1. Moved(j, [t EXCEPT !.pc = pc]) BY <1>t, <1>1 DEF Goto, Moved
  <2> QED BY <2>1, <1>1, <1>p, PcFits DEF Fits
<1>2. ASSUME NEW gain \in {0, 1}, NextEntry(j, gain), t.pc = "entry" \/ t.pc \in FilePCs
      PROVE  \E u : Fits(j, u)
  <2>1. PICK u : u = [t EXCEPT !.pc = "entry", !.at = @ + 1, !.alt = 1, !.saved = @ + gain]
    OBVIOUS
  <2>2. Moved(j, u) BY <1>t, <1>2, <2>1 DEF NextEntry, Moved
  <2> QED BY <2>1, <2>2, <1>2, <1>p, NextFits DEF Fits
<1>3. ASSUME NEW stop \in {"paused", "canceled", "deleted"},
             thr' = [thr EXCEPT ![j].pc = "stop", ![j].stop = stop]
      PROVE  \E u : Fits(j, u)
  <2>1. Moved(j, [t EXCEPT !.pc = "stop", !.stop = stop]) BY <1>t, <1>3 DEF Moved
  <2> QED BY <2>1, <1>3, StopFits DEF Fits
<1>4. ASSUME thr' = [thr EXCEPT ![j] = Idle] PROVE \E u : Fits(j, u)
  BY <1>4, IdleFits DEF Fits, Moved
<1>c. CheckJobControl(j) \in {"go", "paused", "canceled", "deleted"} BY DEF CheckJobControl
<1>5. CASE RunJob(j)
  BY <1>5, <1>1, <1>4, <1>p DEF RunJob, PlaceFits, PCs, Handling, FilePCs
<1>6. CASE StopsBetweenStreams(j)
  BY <1>6, <1>3, <1>c DEF StopsBetweenStreams
<1>7. CASE StopsInStream(j)
  BY <1>7, <1>3, <1>c DEF StopsInStream
<1>8. CASE FetchJsonFails(j)
  BY <1>8, <1>1 DEF FetchJsonFails, PCs, Handling, FilePCs
<1>9. CASE NothingSaved(j)
  BY <1>9, <1>1 DEF NothingSaved, PCs, Handling, FilePCs
<1>10. CASE RequiredFails(j)
  BY <1>10, <1>1 DEF RequiredFails, PCs, Handling, FilePCs
<1>11. CASE Acquire(j)
  BY <1>11, <1>1 DEF Acquire, Raises, Goto, PCs, Handling, FilePCs
<1>12. CASE RequestFails(j)
  BY <1>12, <1>1 DEF RequestFails, Raises, Goto, PCs, Handling, FilePCs
<1>13. CASE RangeNotSatisfiable(j)
  BY <1>13, <1>1 DEF RangeNotSatisfiable, Raises, Goto, PCs, Handling, FilePCs
<1>14. CASE PartialContent(j)
  BY <1>14, <1>1 DEF PartialContent, Raises, Goto, PCs, Handling, FilePCs
<1>15. CASE BodyEnds(j)
  BY <1>15, <1>1 DEF BodyEnds, Raises, Goto, PCs, Handling, FilePCs
<1>16. CASE FinalSize(j)
  BY <1>16, <1>1 DEF FinalSize, Raises, Goto, PCs, Handling, FilePCs
<1>17. CASE TrackFails(j)
  BY <1>17, <1>2 DEF TrackFails, FailedEntry, FilePCs
<1>18. CASE CoverFails(j)
  BY <1>18, <1>2 DEF CoverFails, FailedEntry, FilePCs
<1>19. CASE PreviewFails(j)
  BY <1>19, <1>2 DEF PreviewFails, FailedEntry, FilePCs
<1>20. CASE GenericSaved(j)
  BY <1>20, <1>2 DEF GenericSaved, SavedEntry, NameOfSaved, FilePCs
<1>21. CASE PageSaved(j)
  BY <1>21, <1>2 DEF PageSaved, SavedEntry, NameOfSaved, FilePCs
<1>22. CASE ModelFileSaved(j)
  BY <1>22, <1>2 DEF ModelFileSaved, SavedEntry, NameOfSaved, FilePCs
<1>23. CASE TrackSaved(j)
  BY <1>23, <1>2 DEF TrackSaved, SavedEntry, NameOfSaved, FilePCs
<1>24. CASE CoverSaved(j)
  BY <1>24, <1>2 DEF CoverSaved, SavedEntry, NameOfSaved, FilePCs
<1>25. CASE PreviewSaved(j)
  BY <1>25, <1>2 DEF PreviewSaved, SavedEntry, NameOfSaved, FilePCs
<1>26. CASE ValidationRejects(j)
  BY <1>26, <1>2 DEF ValidationRejects, FilePCs
<1>27. CASE Finish(j)
  BY <1>27, <1>4 DEF Finish
<1>28. CASE HandleControlStop(j)
  BY <1>28, <1>4 DEF HandleControlStop
<1>29. CASE RunnerExcept(j)
  BY <1>29, <1>3, <1>4, <1>c DEF RunnerExcept, CheckJobControl
<1>30. CASE HandleDeleted(j)
  BY <1>30, <1>1 DEF HandleDeleted, PCs, Handling, FilePCs
<1>31. CASE SweepPartials(j)
  BY <1>31 DEF SweepPartials
<1>32. CASE SweepReference(j)
  BY <1>32 DEF SweepReference
<1>33. CASE SweepRemove(j)
  BY <1>33 DEF SweepRemove
<1>34. CASE SweepRow(j)
  BY <1>34, <1>4 DEF SweepRow
<1>b. ASSUME NEW source, Begins(j, source) PROVE \E u : Fits(j, u)
  <2>1. PICK d \in p.dirs : thr' = [thr EXCEPT ![j].pc = "entry", ![j].dir = d]
    BY <1>b DEF Begins
  <2>2. Moved(j, [t EXCEPT !.pc = "entry", !.dir = d]) BY <1>t, <2>1 DEF Moved
  <2> QED BY <2>2, <1>b, <1>p, BeginFits DEF Fits, Begins
<1>k. CASE KeepsExisting(j)
  <2>1. NextEntry(j, 1) /\ t.pc = "entry"
    BY <1>t, <1>k DEF KeepsExisting, Kept, NextEntry, Thread
  <2> QED BY <2>1, <1>2
<1>s. CASE StreamBegins(j)
  <2>1. t.pc = "entry" /\ t.at <= Len(p.entries)
    BY <1>t, <1>s DEF StreamBegins, AllEntriesTried, Thread, Plan
  <2>2. Entry(j).name \in Names /\ Url(j) \in Urls /\ Disposition[Url(j)] \in Names \cup {NoName}
    BY <1>s, AtEntry, DispositionAssumption DEF StreamBegins, FileEntry
  <2>3. PICK n \in Names : thr' = [thr EXCEPT ![j].pc = "lock", ![j].path = <<thr[j].dir, n>>]
    BY <1>s, <2>2 DEF StreamBegins
  <2>4. Moved(j, [t EXCEPT !.pc = "lock", !.path = <<t.dir, n>>])
    BY <1>t, <2>3 DEF Moved
  <2> QED BY <2>1, <2>4, <1>p, PathFits DEF Fits, FilePCs
<1>e. CASE Stat(j) \/ FullContent(j)
  <2>1. t.pc \in FilePCs BY <1>e DEF Stat, FullContent, FilePCs
  <2>3. PICK pc \in FilePCs, n \in 0..Size :
           /\ thr' = [thr EXCEPT ![j].pc = pc, ![j].existing = n]
           /\ pc = "relock" => n = 0 /\ Disposition[Url(j)] \in Names
    <3>1. CASE Stat(j)
      <4>1. SizeOfPart(PartPath(j)) \in 0..Size BY <2>1, SizesFit, AtFile
      <4> QED BY <3>1, <4>1 DEF Stat, FilePCs
    <3>2. CASE FullContent(j)
      <4>1. 0 \in 0..Size BY SizeAssumption
      <4>2. PICK pc \in {"relock", "open"} :
              /\ thr' = [thr EXCEPT ![j].existing = 0, ![j].pc = pc]
              /\ pc = "relock" => Disposition[Url(j)] # NoName
        BY <3>2 DEF FullContent
      <4>3. thr' = [thr EXCEPT ![j].pc = pc, ![j].existing = 0] BY <1>t, <4>2 DEF Thread
      <4>4. Disposition[Url(j)] \in Names \cup {NoName}
        BY <3>2, <2>1, AtEntry, DispositionAssumption
      <4> QED BY <4>1, <4>2, <4>3, <4>4 DEF FilePCs
    <3> QED BY <1>e, <3>1, <3>2
  <2>4. Moved(j, [t EXCEPT !.pc = pc, !.existing = n]) BY <1>t, <2>3 DEF Moved
  <2> QED BY <2>1, <2>3, <2>4, <1>p, CountFits DEF Fits, Url, Entry
<1>l. CASE Relock(j)
  <2>1. t.pc \in FilePCs /\ Url(j) \in Urls /\ Disposition[Url(j)] \in Names
    BY <1>l, <1>p, AtEntry DEF Relock, FilePCs, PlaceFits, Url, Entry
  <2>2. Moved(j, [t EXCEPT !.pc = "open", !.path = <<t.dir, Disposition[Url(j)]>>])
    BY <1>t, <1>l DEF Relock, Moved
  <2> QED BY <2>1, <2>2, <1>p, PathFits DEF Fits, FilePCs
<1>d. CASE RegisterAndOpen(j) \/ ReadChunk(j)
  <2>1. t.pc \in FilePCs /\ "read" \in FilePCs BY <1>d DEF RegisterAndOpen, ReadChunk, FilePCs
  <2>2. PICK n \in 0..Size : thr' = [thr EXCEPT ![j].pc = "read", ![j].downloaded = n]
    <3>1. CASE RegisterAndOpen(j) BY <1>t, <3>1 DEF RegisterAndOpen, Thread
    <3>2. CASE ReadChunk(j)
      <4>1. t.downloaded + 1 \in 0..Size /\ t.pc = "read"
        BY <1>t, <3>2, SizeAssumption DEF ReadChunk, Thread
      <4>2. thr' = [thr EXCEPT ![j].pc = "read", ![j].downloaded = t.downloaded + 1]
        BY <1>t, <3>2, <4>1 DEF ReadChunk, Thread
      <4> QED BY <4>1, <4>2
    <3> QED BY <1>d, <3>1, <3>2
  <2>3. Moved(j, [t EXCEPT !.pc = "read", !.downloaded = n]) BY <1>t, <2>2 DEF Moved
  <2> QED BY <2>1, <2>3, <1>p, CountFits DEF Fits
<1>r. CASE Replace(j)
  BY <1>1, <1>r DEF Replace, Raises, Goto, PCs, Handling, FilePCs
<1>u. CASE TryNextUrl(j)
  <2>1. CASE thr' = [thr EXCEPT ![j].pc = "entry", ![j].alt = @ + 1]
             /\ thr[j].alt < Len(Entry(j).urls)
    <3>1. Moved(j, [t EXCEPT !.pc = "entry", !.alt = @ + 1]) BY <1>t, <2>1 DEF Moved
    <3> QED BY <3>1, <2>1, <1>u, <1>p, AltFits DEF Fits, TryNextUrl, Entry, FilePCs
  <2>2. CASE Goto(j, "badentry")
    BY <1>1, <1>u, <2>2 DEF TryNextUrl, PCs, Handling, FilePCs
  <2> QED BY <1>u, <2>1, <2>2 DEF TryNextUrl
<1> QED BY <1>b, <1>k, <1>s, <1>e, <1>l, <1>d, <1>r, <1>u, <1>5, <1>6, <1>7, <1>8, <1>9, <1>10, <1>11, <1>12, <1>13, <1>14, <1>15, <1>16, <1>17, <1>18, <1>19, <1>20, <1>21, <1>22, <1>23, <1>24, <1>25, <1>26, <1>27, <1>28, <1>29, <1>30, <1>31, <1>32, <1>33, <1>34
   DEF ThreadStep, Sweeping, GenericBegins, AsmroneBegins, CivitaiBegins, HitomiBegins

-----------------------------------------------------------------------------
(* Which steps of a thread touch the rows and the files.                   *)

\* The steps of a thread that touch part files.
LEMMA WhoWritesParts ==
  ASSUME NEW j, ThreadStep(j)
  PROVE  \/ part' = part
         \/ StopsInStream(j) \/ FullContent(j) \/ Relock(j) \/ RegisterAndOpen(j) \/ ReadChunk(j)
         \/ Replace(j) \/ SweepPartials(j) \/ SweepRemove(j)
BY DEF ThreadStep, Sweeping, RunJob, StopsBetweenStreams, FetchJsonFails, GenericBegins,
   AsmroneBegins, CivitaiBegins, HitomiBegins, Begins, KeepsExisting, StreamBegins, Acquire, Stat,
   RequestFails, RangeNotSatisfiable, PartialContent, BodyEnds, FinalSize, TryNextUrl,
   RequiredFails, TrackFails, CoverFails, PreviewFails, GenericSaved, PageSaved, ModelFileSaved,
   TrackSaved, CoverSaved, PreviewSaved, NameOfSaved, ValidationRejects, NothingSaved, Finish,
   RunnerExcept, HandleControlStop, HandleDeleted, SweepReference, SweepRow, files

\* The steps of a thread that touch final files.
LEMMA WhoWritesFinals ==
  ASSUME NEW j, ThreadStep(j)
  PROVE  final' = final \/ Replace(j) \/ ValidationRejects(j) \/ SweepRemove(j)
BY DEF ThreadStep, Sweeping, RunJob, StopsBetweenStreams, FetchJsonFails, GenericBegins,
   AsmroneBegins, CivitaiBegins, HitomiBegins, Begins, KeepsExisting, StreamBegins, Acquire, Stat,
   RequestFails, RangeNotSatisfiable, PartialContent, BodyEnds, FinalSize, TryNextUrl,
   RequiredFails, TrackFails, CoverFails, PreviewFails, GenericSaved, PageSaved, ModelFileSaved,
   TrackSaved, CoverSaved, PreviewSaved, NameOfSaved, NothingSaved, Finish,
   RunnerExcept, HandleControlStop, HandleDeleted, SweepReference, SweepRow, files,
   StopsInStream, FullContent, Relock, RegisterAndOpen, ReadChunk, SweepPartials

\* The steps of a thread that write a row.
LEMMA WhoWritesRows ==
  ASSUME NEW j, ThreadStep(j)
  PROVE  \/ row' = row
         \/ RunJob(j) \/ GenericBegins(j) \/ AsmroneBegins(j) \/ CivitaiBegins(j)
         \/ HitomiBegins(j) \/ RegisterAndOpen(j) \/ PreviewSaved(j) \/ Finish(j)
         \/ RunnerExcept(j) \/ HandleControlStop(j) \/ SweepRow(j)
         \/ \E n \in {NoName, thr[j].path[2]} :
              thr[j].pc = "saved" /\ Update(j, [row[j] EXCEPT !.file = n])
BY DEF ThreadStep, Sweeping, StopsBetweenStreams, FetchJsonFails, KeepsExisting, StreamBegins,
   Acquire, Stat, RequestFails, RangeNotSatisfiable, PartialContent, BodyEnds, FinalSize,
   TryNextUrl, RequiredFails, TrackFails, CoverFails, PreviewFails, GenericSaved, PageSaved,
   ModelFileSaved, TrackSaved, CoverSaved, NameOfSaved, SavedEntry, ValidationRejects,
   NothingSaved, HandleDeleted, SweepReference, SweepPartials, SweepRemove,
   StopsInStream, FullContent, Relock, ReadChunk, Replace

\* What no thread touches; who writes the removals and the locks.
LEMMA WhoElse ==
  ASSUME NEW j, ThreadStep(j)
  PROVE  /\ UNCHANGED <<plan, events, beside, pending, clear>>
         /\ sweep' = sweep \/ HandleDeleted(j) \/ Sweeping(j)
         /\ lock' = lock \/ Release(j) \/ Acquire(j) \/ Relock(j)
BY DEF ThreadStep, Sweeping, RunJob, StopsBetweenStreams, FetchJsonFails, GenericBegins,
   AsmroneBegins, CivitaiBegins, HitomiBegins, Begins, KeepsExisting, StreamBegins, Acquire, Stat,
   RequestFails, RangeNotSatisfiable, PartialContent, BodyEnds, FinalSize, TryNextUrl,
   RequiredFails, TrackFails, CoverFails, PreviewFails, GenericSaved, PageSaved, ModelFileSaved,
   TrackSaved, CoverSaved, PreviewSaved, NameOfSaved, ValidationRejects, NothingSaved, Finish,
   RunnerExcept, HandleControlStop, HandleDeleted, SweepReference, SweepRow, SweepPartials,
   SweepRemove, StopsInStream, FullContent, Relock, RegisterAndOpen, ReadChunk, Replace, Raises, files

\* A deleted row is a row.
LEMMA NoRowTyped == NoRow \in Row BY DEF NoRow, Row, Statuses

-----------------------------------------------------------------------------
(* The types of the rows, the threads and the files.                       *)

\* An UPDATE keeps the table well typed.
LEMMA UpdateKeepsType ==
  ASSUME Typed, NEW j \in Jobs, NEW r, r \in Row \/ Gone(j), Update(j, r)
  PROVE  row' \in [Jobs -> Row]
BY AtThread DEF Typed, Update

\* A thread leaves the table well typed.
LEMMA ThreadRows ==
  ASSUME Typed, Placed, NEW j \in Jobs, ThreadStep(j)
  PROVE  row' \in [Jobs -> Row]
<1>t. thr[j] \in Thread /\ row[j] \in Row /\ row \in [Jobs -> Row]
  BY AtThread DEF Typed
<1> PICK r \in Row : r = row[j] BY <1>t
<1>0. CASE row' = row BY <1>0, <1>t
<1>s. ASSUME NEW s \in Statuses, Update(j, [row[j] EXCEPT !.status = s])
      PROVE  row' \in [Jobs -> Row]
  <2>1. [r EXCEPT !.status = s] \in Row BY DEF Row
  <2> QED BY <2>1, <1>s, UpdateKeepsType
<1>1. CASE RunJob(j) BY <1>0, <1>s, <1>1 DEF RunJob, Statuses
<1>b. CASE \/ GenericBegins(j) \/ AsmroneBegins(j) \/ CivitaiBegins(j) \/ HitomiBegins(j)
  <2>1. thr'[j].dir \in Dirs \cup {NoName}
    <3>1. PICK source : Begins(j, source)
      BY <1>b DEF GenericBegins, AsmroneBegins, CivitaiBegins, HitomiBegins
    <3>2. plan[j].dirs \subseteq Dirs BY AtThread DEF Plan
    <3>3. PICK d \in Dirs : thr' = [thr EXCEPT ![j].pc = "entry", ![j].dir = d]
      BY <3>1, <3>2 DEF Begins
    <3> QED BY <3>3, AtThread DEF Thread
  <2>2. PICK d \in Dirs \cup {NoName} : d = thr'[j].dir BY <2>1
  <2>3. [r EXCEPT !.dir = d] \in Row BY DEF Row
  <2>4. [r EXCEPT !.dir = d, !.regs = {}] \in Row BY DEF Row
  <2>5. \/ Update(j, [r EXCEPT !.dir = d]) \/ Update(j, [r EXCEPT !.dir = d, !.regs = {}])
    BY <1>b, <2>2 DEF GenericBegins, AsmroneBegins, CivitaiBegins, HitomiBegins, SetTarget,
       SetTargetAndMetadata
  <2> QED BY <2>3, <2>4, <2>5, UpdateKeepsType
<1>2. CASE RegisterAndOpen(j)
  <2>1. PICK k \in PartKeys : k = PartPath(j) BY <1>2, AtFile DEF RegisterAndOpen, FilePCs
  <2>2. PICK n \in Names : n = thr[j].path[2] BY <1>2, AtFile DEF RegisterAndOpen, FilePCs
  <2>3. r.regs \cup {k} \in SUBSET PartKeys BY DEF Row
  <2>4. [r EXCEPT !.regs = r.regs \cup {k}, !.file = n] \in Row BY <2>3 DEF Row
  <2>5. Update(j, [r EXCEPT !.regs = r.regs \cup {k}, !.file = n])
    BY <1>2, <2>1, <2>2 DEF RegisterAndOpen, Row
  <2> QED BY <2>4, <2>5, UpdateKeepsType
<1>3. CASE PreviewSaved(j)
  <2>1. [r EXCEPT !.regs = {}] \in Row BY DEF Row
  <2> QED BY <2>1, <1>3, UpdateKeepsType DEF PreviewSaved
<1>4. CASE Finish(j) BY <1>s, <1>4 DEF Finish, Statuses
<1>5. CASE RunnerExcept(j) BY <1>0, <1>s, <1>5 DEF RunnerExcept, Statuses
<1>6. CASE HandleControlStop(j)
  <2>1. PICK t \in Thread : t = thr[j] BY <1>t
  <2>2. t.stop # "go" BY <2>1, <1>6 DEF HandleControlStop, Placed, PlaceFits
  <2>3. t.stop \in {"paused", "canceled"} BY <2>1, <2>2, <1>6 DEF HandleControlStop, Thread
  <2> QED BY <2>1, <2>3, <1>s, <1>6 DEF HandleControlStop, Statuses
<1>7. CASE SweepRow(j) BY <1>t, <1>7, NoRowTyped DEF SweepRow
<1>8. ASSUME NEW n \in {NoName, thr[j].path[2]}, thr[j].pc = "saved",
             Update(j, [row[j] EXCEPT !.file = n])
      PROVE  row' \in [Jobs -> Row]
  <2>1. n \in Names \cup {NoName} BY <1>8, AtFile DEF FilePCs
  <2>2. [r EXCEPT !.file = n] \in Row BY <2>1 DEF Row
  <2> QED BY <2>2, <1>8, UpdateKeepsType
<1> QED BY <1>0, <1>1, <1>b, <1>2, <1>3, <1>4, <1>5, <1>6, <1>7, <1>8, WhoWritesRows

\* Files that are removed.
PartFile == (SUBSET Chunks) \cup {NoFile}
Unlinked(k) == part'[k] \in {part[k], NoFile}
\* Parts that are removed are gone, and only they.
LEMMA WithoutUnlinks ==
  ASSUME Typed, NEW K, part' = Without(K)
  PROVE  /\ part' \in [PartKeys -> PartFile]
         /\ \A k \in PartKeys : part'[k] = IF k \in K THEN NoFile ELSE part[k]
BY DEF Typed, Without, PartFile

\* The removal of a directory unlinks what is under it, and only that.
LEMMA RemoveLocalUnlinks ==
  ASSUME Typed, NEW j, NEW target, NEW parts \in [PartKeys -> PartFile],
         RemoveLocal(j, target, parts)
  PROVE  /\ part' \in [PartKeys -> PartFile] /\ final' \in [Paths -> File \cup {NoFile}]
         /\ \A k \in PartKeys :
              part'[k] = IF ByDirectory(j) /\ k[2] \in target THEN NoFile ELSE parts[k]
         /\ \A p \in Paths : final'[p] \in {final[p], NoFile}
BY DEF Typed, RemoveLocal, PartFile

\* Only opening and reading put anything into a part, and only the deletion
\* of a directory touches the parts of others.
LEMMA ThreadParts ==
  ASSUME Typed, Placed, NEW j \in Jobs, ThreadStep(j)
  PROVE  /\ part' \in [PartKeys -> PartFile]
         /\ \A k \in PartKeys :
              Unlinked(k) \/ (k = PartPath(j) /\ (RegisterAndOpen(j) \/ ReadChunk(j)))
         /\ \A k \in PartKeys :
              \/ k[1] = j \/ part'[k] = part[k]
              \/ SweepPartials(j) /\ k[1] = sweep[j].job
              \/ SweepRemove(j) /\ ByDirectory(sweep[j].job) /\ k[2] \in sweep[j].target
<1>t. part \in [PartKeys -> PartFile] BY DEF Typed, PartFile
<1>0. CASE part' = part BY <1>0, <1>t DEF Unlinked
<1>1. CASE StopsInStream(j)
  <2>1. PartPath(j) \in PartKeys /\ PartPath(j)[1] = j
    BY <1>1, AtFile DEF StopsInStream, FilePCs
  <2> DEFINE K == {PartPath(j)} \cup PartialsOf(j)
  <2>2. \A k \in K : k[1] = j BY <2>1 DEF PartialsOf
  <2>3. part' = Without(K) \/ part' = part BY <1>1 DEF StopsInStream
  <2> HIDE DEF K
  <2>4. CASE part' = Without(K) BY <2>2, <2>4, WithoutUnlinks DEF Unlinked
  <2> QED BY <2>3, <2>4, <1>0
<1>2. CASE FullContent(j)
  <2>1. PartPath(j) \in PartKeys /\ PartPath(j)[1] = j
    BY <1>2, AtFile DEF FullContent, FilePCs
  <2>2. CASE part' = Without({PartPath(j)})
    BY <2>1, <2>2, WithoutUnlinks DEF Unlinked
  <2> QED BY <2>2, <1>0, <1>2 DEF FullContent
<1>3. CASE Relock(j)
  <2> DEFINE K == {<<j, <<thr[j].dir, Disposition[Url(j)]>>, Url(j)>>}
  <2>1. part' = Without(K) BY <1>3 DEF Relock
  <2>2. \A k \in K : k[1] = j OBVIOUS
  <2> HIDE DEF K
  <2> QED BY <2>1, <2>2, WithoutUnlinks DEF Unlinked
<1>4. CASE RegisterAndOpen(j)
  <2>1. PartPath(j) \in PartKeys /\ PartPath(j)[1] = j
    BY <1>4, AtFile DEF RegisterAndOpen, FilePCs
  <2>2. PICK k \in PartKeys : k = PartPath(j) BY <2>1
  <2>3. PICK c \in PartFile : part' = [part EXCEPT ![k] = c]
    <3>1. {} \in PartFile /\ part[k] \in PartFile BY <1>t DEF PartFile
    <3> QED BY <1>4, <2>2, <3>1 DEF RegisterAndOpen
  <2> QED BY <1>4, <2>1, <2>2, <2>3, <1>t DEF Unlinked
<1>5. CASE ReadChunk(j)
  <2>1. PartPath(j) \in PartKeys /\ PartPath(j)[1] = j
    BY <1>5, AtFile DEF ReadChunk, FilePCs
  <2>2. PICK k \in PartKeys : k = PartPath(j) BY <2>1
  <2>3. thr[j].downloaded + 1 \in Chunks
    BY <1>5, AtThread, SizeAssumption DEF ReadChunk, Chunks, Thread
  <2>4. PICK c \in PartFile : part' = [part EXCEPT ![k] = c]
    <3>1. part[k] \in PartFile BY <1>t
    <3>2. part[k] # NoFile => part[k] \cup {thr[j].downloaded + 1} \in PartFile
      BY <2>3, <3>1 DEF PartFile
    <3> QED BY <1>5, <2>2, <3>1, <3>2 DEF ReadChunk
  <2> QED BY <1>5, <2>1, <2>2, <2>4, <1>t DEF Unlinked
<1>6. CASE Replace(j)
  <2>1. PartPath(j) \in PartKeys /\ PartPath(j)[1] = j
    BY <1>6, AtFile DEF Replace, FilePCs
  <2>2. CASE part' = Without({PartPath(j)})
    BY <2>1, <2>2, WithoutUnlinks DEF Unlinked
  <2> QED BY <2>2, <1>0, <1>6 DEF Replace
<1>7. CASE SweepPartials(j)
  <2>1. \A k \in PartialsOf(sweep[j].job) : k[1] = sweep[j].job BY DEF PartialsOf
  <2>2. part' = Without(PartialsOf(sweep[j].job)) BY <1>7 DEF SweepPartials
  <2> QED BY <1>7, <2>1, <2>2, WithoutUnlinks DEF Unlinked
<1>8. CASE SweepRemove(j)
  BY <1>8, <1>t, RemoveLocalUnlinks DEF SweepRemove, Unlinked
<1> QED BY <1>0, <1>1, <1>2, <1>3, <1>4, <1>5, <1>6, <1>7, <1>8, WhoWritesParts

\* A final file is a part that was renamed.
LEMMA ThreadFinals ==
  ASSUME Typed, Placed, NEW j \in Jobs, ThreadStep(j)
  PROVE  /\ final' \in [Paths -> File \cup {NoFile}]
         /\ \A p \in Paths :
              \/ final'[p] \in {final[p], NoFile}
              \/ Replace(j) /\ final'[p] = [url |-> Url(j), has |-> part[PartPath(j)]]
<1>t. final \in [Paths -> File \cup {NoFile}] /\ part \in [PartKeys -> PartFile]
  BY DEF Typed, PartFile
<1>0. CASE final' = final BY <1>0, <1>t
<1>1. CASE Replace(j)
  <2>1. PartPath(j) \in PartKeys /\ thr[j].path \in Paths /\ Url(j) \in Urls
    BY <1>1, AtFile, AtEntry DEF Replace, FilePCs
  <2>2. PICK k \in PartKeys : k = PartPath(j) BY <2>1
  <2>3. PICK p \in Paths : p = thr[j].path BY <2>1
  <2>4. part[k] # NoFile => [url |-> Url(j), has |-> part[k]] \in File
    BY <1>t, <2>1 DEF File, PartFile
  <2>5. CASE part[k] # NoFile
             /\ final' = [final EXCEPT ![p] = [url |-> Url(j), has |-> part[k]]]
    <3>1. PICK f \in File : f = [url |-> Url(j), has |-> part[k]] BY <2>4, <2>5
    <3> QED BY <1>1, <1>t, <2>2, <2>5, <3>1
  <2> QED BY <1>0, <1>1, <2>2, <2>3, <2>5 DEF Replace
<1>2. CASE ValidationRejects(j) BY <1>2, <1>t DEF ValidationRejects
<1>3. CASE SweepRemove(j)
  <2>1. part \in [PartKeys -> PartFile] BY <1>t
  <2> QED BY <1>3, <2>1, RemoveLocalUnlinks DEF SweepRemove
<1> QED BY <1>0, <1>1, <1>2, <1>3, WhoWritesFinals

\* A removal that goes on or ends is well typed.
LEMMA StepKeepsType ==
  ASSUME Typed, NEW a \in Actors, NEW step \in {"none", "partials", "reference", "remove", "row"},
         NEW target \in SUBSET Paths,
         \/ Step(a, step)
         \/ sweep' = [sweep EXCEPT ![a].step = step, ![a].target = target]
         \/ sweep' = [sweep EXCEPT ![a] = NoSweep]
  PROVE  sweep' \in [Actors -> Sweep]
<1>1. sweep \in [Actors -> Sweep] /\ sweep[a] \in Sweep BY DEF Typed
<1> PICK w \in Sweep : w = sweep[a] BY <1>1
<1>2. [w EXCEPT !.step = step] \in Sweep BY DEF Sweep
<1>3. [w EXCEPT !.step = step, !.target = target] \in Sweep BY DEF Sweep
<1>4. NoSweep \in Sweep BY DEF NoSweep, Sweep
<1>5. PICK u \in Sweep : sweep' = [sweep EXCEPT ![a] = u]
  <2>1. CASE Step(a, step)
    <3>1. sweep' = [sweep EXCEPT ![a] = [w EXCEPT !.step = step]] BY <2>1, <1>1 DEF Step
    <3> QED BY <3>1, <1>2
  <2>2. CASE sweep' = [sweep EXCEPT ![a].step = step, ![a].target = target]
    <3>1. sweep' = [sweep EXCEPT ![a] = [w EXCEPT !.step = step, !.target = target]]
      BY <2>2, <1>1
    <3> QED BY <3>1, <1>3
  <2> QED BY <2>1, <2>2, <1>4
<1> QED BY <1>1, <1>5

\* What is removed with a job: its directory, or one file of it.
LEMMA TargetTyped ==
  ASSUME Typed, NEW j \in Jobs
  PROVE  LocalTarget(j) \subseteq ({row[j].dir} \ {NoName}) \X Names
         /\ LocalTarget(j) \in SUBSET Paths
<1>1. row[j].dir \in Dirs \cup {NoName} /\ row[j].file \in Names \cup {NoName}
  BY AtThread DEF Row
<1> QED BY <1>1 DEF LocalTarget, Paths

\* A removal leaves everything well typed.
LEMMA SweepingTyped ==
  ASSUME Typed, NEW a \in Actors, Sweeping(a)
  PROVE  sweep' \in [Actors -> Sweep] /\ SweepsNamed'
<1>t. sweep \in [Actors -> Sweep] /\ SweepsNamed BY DEF Typed
<1>1. CASE SweepPartials(a)
  <2>1. sweep' \in [Actors -> Sweep] BY <1>1, StepKeepsType DEF SweepPartials
  <2> QED BY <2>1, <1>t, <1>1 DEF SweepPartials, Step, SweepsNamed
<1>2. CASE SweepReference(a)
  <2>1. LocalTarget(sweep[a].job) \in SUBSET Paths
    BY <1>2, <1>t, TargetTyped DEF SweepReference, SweepsNamed
  <2>2. PICK step \in {"row", "remove"}, target \in SUBSET Paths :
          sweep' = [sweep EXCEPT ![a].step = step, ![a].target = target]
    BY <1>2, <2>1 DEF SweepReference
  <2>3. sweep' \in [Actors -> Sweep] BY <2>2, StepKeepsType
  <2> QED BY <2>2, <2>3, <1>t, <1>2 DEF SweepReference, SweepsNamed
<1>3. CASE SweepRemove(a)
  <2>1. sweep' \in [Actors -> Sweep] BY <1>3, StepKeepsType DEF SweepRemove
  <2> QED BY <2>1, <1>t, <1>3 DEF SweepRemove, Step, SweepsNamed
<1>4. CASE SweepRow(a)
  <2>1. sweep' \in [Actors -> Sweep] /\ sweep' = [sweep EXCEPT ![a] = NoSweep]
    BY <1>4, StepKeepsType DEF SweepRow
  <2> QED BY <2>1, <1>t DEF SweepsNamed, NoSweep
<1> QED BY <1>1, <1>2, <1>3, <1>4 DEF Sweeping

\* A thread leaves everything well typed.
LEMMA ThreadTyped ==
  ASSUME Typed, Placed, NEW j \in Jobs, ThreadStep(j)
  PROVE  Typed' /\ Placed'
<1>1. UNCHANGED <<plan, events, pending, clear>> BY WhoElse
<1>2. thr' \in [Jobs -> Thread] /\ Placed'
  <2>1. CASE thr' = thr BY <2>1, <1>1 DEF Typed, Placed
  <2>2. ASSUME NEW u, Fits(j, u) PROVE thr' \in [Jobs -> Thread] /\ Placed'
    BY <2>2, <1>1 DEF Typed, Fits, Moved, Placed
  <2> QED BY <2>1, <2>2, ThreadMoves
<1>3. row' \in [Jobs -> Row] BY ThreadRows
<1>4. part' \in [PartKeys -> PartFile] BY ThreadParts
<1>5. final' \in [Paths -> File \cup {NoFile}] BY ThreadFinals
<1>6. lock' \in [Paths -> Jobs \cup {NoFile}]
  <2>t. lock \in [Paths -> Jobs \cup {NoFile}] BY DEF Typed
  <2>1. CASE Release(j) BY <2>t, <2>1 DEF Release
  <2>2. CASE Acquire(j) BY <2>t, <2>2 DEF Acquire
  <2>3. CASE Relock(j) BY <2>t, <2>3 DEF Relock
  <2> QED BY <2>t, <2>1, <2>2, <2>3, WhoElse
<1>7. sweep' \in [Actors -> Sweep] /\ SweepsNamed'
  <2>t. sweep \in [Actors -> Sweep] /\ SweepsNamed BY DEF Typed
  <2>1. CASE HandleDeleted(j)
    <3> DEFINE w == [step |-> "partials", job |-> j, target |-> {}]
    <3>1. w \in Sweep /\ w.job \in Jobs BY DEF Sweep
    <3>2. sweep' = [sweep EXCEPT ![j] = w] BY <2>1 DEF HandleDeleted
    <3> HIDE DEF w
    <3> QED BY <3>1, <3>2, <2>t DEF SweepsNamed
  <2>2. CASE Sweeping(j) BY <2>2, SweepingTyped DEF Actors
  <2> QED BY <2>t, <2>1, <2>2, WhoElse DEF SweepsNamed
<1> QED BY <1>1, <1>2, <1>3, <1>4, <1>5, <1>6, <1>7 DEF Typed, PartFile

\* The steps of requests, of the scheduler and of a crash.
LEMMA OtherTyped ==
  ASSUME Typed, Placed,
         \/ \E j \in Jobs : RunnerStart(j) \/ Request(j) \/ EnqueueExistingJobs(j)
         \/ \E c \in Clients : ClientStep(c)
         \/ Crash
  PROVE  Typed' /\ Placed'
<1>t. /\ plan \in [Jobs -> Plan]
      /\ \E s \in Scenarios : plan = s.plan /\ events = s.events
      /\ row \in [Jobs -> Row] /\ pending \subseteq Jobs /\ thr \in [Jobs -> Thread]
      /\ part \in [PartKeys -> PartFile]
      /\ final \in [Paths -> File \cup {NoFile}] /\ lock \in [Paths -> Jobs \cup {NoFile}]
      /\ sweep \in [Actors -> Sweep] /\ SweepsNamed
      /\ clear \in [Clients -> [on : BOOLEAN, left : SUBSET Jobs]]
  BY DEF Typed, PartFile
<1>s. ASSUME NEW j \in Jobs, NEW s \in Statuses, Update(j, [row[j] EXCEPT !.status = s])
      PROVE  row' \in [Jobs -> Row]
  <2>1. row[j] \in Row BY AtThread
  <2>2. [row[j] EXCEPT !.status = s] \in Row BY <2>1 DEF Row
  <2> QED BY <2>2, <1>s, UpdateKeepsType
<1>1. ASSUME NEW j \in Jobs, RunnerStart(j) PROVE Typed' /\ Placed'
  <2>1. PICK t \in Thread : t = thr[j] BY <1>t
  <2>2. [t EXCEPT !.pc = "begin"] \in Thread /\ PlaceFits([t EXCEPT !.pc = "begin"], plan[j])
    BY <1>1, <1>t, <2>1, PcFits, ZenonT(60) DEF RunnerStart, PCs, FilePCs, Placed, PlaceFits
  <2>3. thr' = [thr EXCEPT ![j] = [t EXCEPT !.pc = "begin"]]
    BY <1>1, <1>t, <2>1 DEF RunnerStart, Goto
  <2>4. thr' \in [Jobs -> Thread] /\ Placed' BY <1>1, <1>t, <2>2, <2>3 DEF Placed, RunnerStart
  <2> QED BY <1>1, <1>t, <2>4 DEF RunnerStart, Typed, PartFile, SweepsNamed, files
<1>2. ASSUME NEW j \in Jobs, Request(j) PROVE Typed' /\ Placed'
  <2>1. row' \in [Jobs -> Row]
    BY <1>2, <1>s DEF Request, ApiPauseJob, ApiResumeOrRetryJob, DeleteRunning, Statuses
  <2>2. UNCHANGED <<plan, events, thr, files, sweep, clear>> /\ pending' \subseteq Jobs
    BY <1>2, <1>t DEF Request, ApiPauseJob, ApiResumeOrRetryJob, DeleteRunning
  <2> QED BY <1>t, <2>1, <2>2 DEF Typed, PartFile, SweepsNamed, files, Placed
<1>3. ASSUME NEW j \in Jobs, EnqueueExistingJobs(j) PROVE Typed' /\ Placed'
  <2>1. Without(PartialsOf(j)) \in [PartKeys -> PartFile] BY <1>t DEF Without, PartFile
  <2>2. part' \in [PartKeys -> PartFile] /\ final' \in [Paths -> File \cup {NoFile}]
    BY <1>3, <2>1, RemoveLocalUnlinks DEF EnqueueExistingJobs
  <2>3. row' \in [Jobs -> Row] BY <1>3, <1>t, NoRowTyped DEF EnqueueExistingJobs
  <2> QED BY <1>3, <1>t, <2>2, <2>3 DEF EnqueueExistingJobs, Typed, PartFile, SweepsNamed, Placed
<1>4. ASSUME NEW c \in Clients, ClientStep(c) PROVE Typed' /\ Placed'
  <2>1. CASE ClearLists(c)
    <3>1. [on |-> TRUE, left |-> {j \in Jobs : InactiveRow(j)}]
             \in [on : BOOLEAN, left : SUBSET Jobs]
      OBVIOUS
    <3>2. clear' \in [Clients -> [on : BOOLEAN, left : SUBSET Jobs]]
      BY <1>t, <2>1, <3>1 DEF ClearLists
    <3> QED BY <1>t, <2>1, <3>2 DEF ClearLists, Typed, PartFile, SweepsNamed, Placed, files
  <2>2. CASE ClearRows(c)
    <3>1. clear' \in [Clients -> [on : BOOLEAN, left : SUBSET Jobs]]
      BY <1>t, <2>2 DEF ClearRows, NoClear
    <3>2. row' \in [Jobs -> Row] BY <1>t, <2>2, NoRowTyped DEF ClearRows
    <3> QED BY <1>t, <2>2, <3>1, <3>2 DEF ClearRows, Typed, PartFile, SweepsNamed, Placed, files
  <2>3. CASE Sweeping(c)
    <3>1. sweep' \in [Actors -> Sweep] /\ SweepsNamed' BY <2>3, SweepingTyped DEF Actors
    <3>2. thr' = thr /\ UNCHANGED <<plan, events, pending, clear, lock>>
      BY <2>3, NoFileAssumption DEF Sweeping, SweepPartials, SweepReference, SweepRemove, SweepRow,
         files
    <3>3. row' \in [Jobs -> Row]
      BY <2>3, <1>t, NoRowTyped DEF Sweeping, SweepPartials, SweepReference, SweepRemove, SweepRow
    <3>4. part' \in [PartKeys -> PartFile] /\ final' \in [Paths -> File \cup {NoFile}]
      <4>1. CASE SweepPartials(c) BY <1>t, <4>1, WithoutUnlinks DEF SweepPartials
      <4>2. CASE SweepRemove(c) BY <1>t, <4>2, RemoveLocalUnlinks DEF SweepRemove
      <4>3. CASE SweepReference(c) \/ SweepRow(c)
        BY <1>t, <4>3 DEF SweepReference, SweepRow, files
      <4> QED BY <2>3, <4>1, <4>2, <4>3 DEF Sweeping
    <3> QED BY <1>t, <3>1, <3>2, <3>3, <3>4 DEF Typed, PartFile, Placed
  <2>4. ASSUME NEW j \in Jobs, DeleteIdle(c, j) PROVE Typed' /\ Placed'
    <3> DEFINE w == [step |-> "partials", job |-> j, target |-> {}]
    <3>1. w \in Sweep /\ w.job \in Jobs BY DEF Sweep
    <3>2. sweep' = [sweep EXCEPT ![c] = w] BY <2>4 DEF DeleteIdle
    <3> HIDE DEF w
    <3>3. sweep' \in [Actors -> Sweep] /\ SweepsNamed'
      BY <3>1, <3>2, <1>t DEF SweepsNamed
    <3> QED BY <1>t, <2>4, <3>3 DEF DeleteIdle, Typed, PartFile, Placed, files
  <2>5. ASSUME NEW j \in Jobs, ClearPartials(c, j) PROVE Typed' /\ Placed'
    <3>1. clear' \in [Clients -> [on : BOOLEAN, left : SUBSET Jobs]]
      BY <1>t, <2>5 DEF ClearPartials
    <3>2. part' \in [PartKeys -> PartFile] BY <2>5, WithoutUnlinks DEF ClearPartials
    <3> QED BY <1>t, <2>5, <3>1, <3>2 DEF ClearPartials, Typed, PartFile, SweepsNamed, Placed
  <2> QED BY <1>4, <2>1, <2>2, <2>3, <2>4, <2>5 DEF ClientStep
<1>5. CASE Crash
  <2>1. thr' \in [Jobs -> Thread] /\ Placed' BY <1>5, IdleFits DEF Crash, Placed
  <2>2. row' \in [Jobs -> Row]
    <3>1. ASSUME NEW j \in Jobs PROVE row'[j] \in Row
      <4>1. PICK r \in Row : r = row[j] BY <1>t
      <4>2. PICK s \in Statuses : row'[j] = [r EXCEPT !.status = s]
        BY <1>5, <4>1 DEF Crash, Statuses, Row
      <4> QED BY <4>2 DEF Row
    <3> QED BY <1>5, <3>1 DEF Crash
  <2>3. sweep' \in [Actors -> Sweep] /\ SweepsNamed'
    BY <1>5 DEF Crash, NoSweep, Sweep, SweepsNamed
  <2>4. clear' \in [Clients -> [on : BOOLEAN, left : SUBSET Jobs]]
    BY <1>5 DEF Crash, NoClear
  <2>5. lock' \in [Paths -> Jobs \cup {NoFile}] /\ pending' \subseteq Jobs BY <1>5 DEF Crash
  <2> QED BY <1>5, <1>t, <2>1, <2>2, <2>3, <2>4, <2>5 DEF Crash, Typed, PartFile
<1> QED BY <1>1, <1>2, <1>3, <1>4, <1>5

\* The actions, by who takes them.
LEMMA StepKinds ==
  ASSUME Next
  PROVE  \/ \E j \in Jobs : ThreadStep(j)
         \/ \E j \in Jobs : RunnerStart(j) \/ Request(j) \/ EnqueueExistingJobs(j)
         \/ \E c \in Clients : ClientStep(c)
         \/ Crash
BY DEF Next

\* The initial states are well typed.
LEMMA TypedInit == ASSUME Init PROVE Typed /\ Placed
<1>1. \E s \in Scenarios : plan = s.plan /\ events = s.events BY DEF Init
<1>2. plan \in [Jobs -> Plan] BY <1>1, PlanAssumption
<1>4. row \in [Jobs -> Row]
  BY NoRowTyped DEF Init, NoRow, Row, Statuses
<1>5. thr \in [Jobs -> Thread] /\ Placed BY IdleFits DEF Init, Placed
<1>6. pending \subseteq Jobs /\ part \in [PartKeys -> PartFile]
      /\ final \in [Paths -> File \cup {NoFile}] /\ lock \in [Paths -> Jobs \cup {NoFile}]
  BY DEF Init, PartFile
<1>7. sweep \in [Actors -> Sweep] /\ SweepsNamed
  BY DEF Init, NoSweep, Sweep, SweepsNamed
<1>8. clear \in [Clients -> [on : BOOLEAN, left : SUBSET Jobs]] BY DEF Init, NoClear
<1> QED BY <1>1, <1>2, <1>4, <1>5, <1>6, <1>7, <1>8 DEF Typed, PartFile

\* A thread that has not begun takes one step of its own: run_job.
LEMMA LeavesBegin ==
  ASSUME Typed, Placed, NEW j \in Jobs, ThreadStep(j), thr[j].pc \in {"idle", "begin"},
         thr'[j].pc \notin {"idle", "begin"}
  PROVE  RunJob(j) /\ thr'[j].pc = "manifest"
<1>t. thr \in [Jobs -> Thread] BY DEF Typed
<1>1. RunJob(j) \/ Sweeping(j)
  BY DEF ThreadStep, StopsBetweenStreams, FetchJsonFails, GenericBegins,
   AsmroneBegins, CivitaiBegins, HitomiBegins, Begins, KeepsExisting, StreamBegins, Acquire, Stat,
   RequestFails, RangeNotSatisfiable, PartialContent, BodyEnds, FinalSize, TryNextUrl,
   RequiredFails, TrackFails, CoverFails, PreviewFails, GenericSaved, PageSaved, ModelFileSaved,
   TrackSaved, CoverSaved, PreviewSaved, NameOfSaved, ValidationRejects, NothingSaved, Finish,
   RunnerExcept, HandleControlStop, HandleDeleted, StopsInStream, FullContent, Relock,
   RegisterAndOpen, ReadChunk, Replace, ControlPoints, Kept, AllEntriesTried, SavedEntry, FailedEntry
<1>2. CASE Sweeping(j)
  BY <1>2, <1>t DEF Sweeping, SweepPartials, SweepReference, SweepRemove, SweepRow, Idle
<1>3. CASE RunJob(j) BY <1>3, <1>t DEF RunJob, Goto, Idle, Thread
<1> QED BY <1>1, <1>2, <1>3

\* Every step leaves everything well typed.
LEMMA KeepsTypes ==
  ASSUME Typed, Placed, [Next]_vars PROVE Typed' /\ Placed'
<1>1. CASE UNCHANGED vars BY <1>1 DEF vars, Typed, SweepsNamed, Placed
<1> QED BY <1>1, StepKinds, ThreadTyped, OtherTyped

\* Jobs are added to those that ran beside a removal, and none is taken out.
LEMMA BesideGrows ==
  ASSUME [Next]_vars PROVE beside \subseteq beside' /\ beside' \subseteq beside \cup Jobs
<1>1. ASSUME NEW j \in Jobs, ThreadStep(j) PROVE beside' = beside BY <1>1, WhoElse
<1>2. ASSUME NEW j \in Jobs, RunnerStart(j) \/ Request(j) \/ EnqueueExistingJobs(j)
      PROVE  beside \subseteq beside' /\ beside' \subseteq beside \cup Jobs
  BY <1>2 DEF RunnerStart, Request, ApiPauseJob, ApiResumeOrRetryJob, DeleteRunning,
     EnqueueExistingJobs
<1>3. ASSUME NEW c \in Clients, ClientStep(c)
      PROVE  beside \subseteq beside' /\ beside' \subseteq beside \cup Jobs
  BY <1>3 DEF ClientStep, ClearLists, ClearRows, Sweeping, SweepPartials, SweepReference,
     SweepRemove, SweepRow, DeleteIdle, ClearPartials, Busy
<1>4. CASE Crash \/ UNCHANGED vars BY <1>4 DEF Crash, vars
<1> QED BY <1>1, <1>2, <1>3, <1>4, StepKinds

(* The variables always have their types.                                  *)
THEOREM Typing == Spec => []TypeOK
<1>1. Typed /\ Placed /\ beside \subseteq Jobs => TypeOK
  <2> SUFFICES ASSUME Typed, Placed, beside \subseteq Jobs PROVE TypeOK OBVIOUS
  <2>1. \A j \in Jobs : thr[j] \in Thread /\ row[j] \in Row BY AtThread
  <2>2. \A k \in PartKeys : part[k] = NoFile \/ part[k] \subseteq Chunks
    <3>1. \A k \in PartKeys : part[k] \in (SUBSET Chunks) \cup {NoFile} BY DEF Typed
    <3> QED BY <3>1
  <2>3. \A p \in Paths : /\ final[p] = NoFile \/ final[p].url \in Urls
                         /\ lock[p] \in Jobs \cup {NoFile}
    BY DEF Typed, File
  <2>4. \A a \in Actors : sweep[a].step \in {"none", "partials", "reference", "remove", "row"}
    BY DEF Typed, Sweep
  <2>5. \A c \in Clients : clear[c].left \subseteq Jobs BY DEF Typed
  <2>6. (\E s \in Scenarios : plan = s.plan /\ events = s.events) /\ pending \subseteq Jobs
    BY DEF Typed
  <2>7. \A j \in Jobs :
          /\ row[j].status \in Statuses
          /\ row[j].dir \in Dirs \cup {NoName} /\ row[j].file \in Names \cup {NoName}
          /\ row[j].regs \subseteq PartKeys
    BY <2>1 DEF Row
  <2>8. \A j \in Jobs :
          /\ thr[j].pc \in PCs /\ thr[j].path \in Paths \cup {NoFile}
          /\ thr[j].existing \in 0..Size /\ thr[j].downloaded \in 0..Size
    BY <2>1 DEF Thread
  <2> QED BY <2>2, <2>3, <2>4, <2>5, <2>6, <2>7, <2>8
          DEF TypeOK, Statuses, PCs, Handling, FilePCs
<1>2. Init => beside \subseteq Jobs BY DEF Init
<1>3. beside \subseteq Jobs /\ [Next]_vars => (beside \subseteq Jobs)' BY BesideGrows
<1> QED BY <1>1, <1>2, <1>3, TypedInit, KeepsTypes, PTL DEF Spec

-----------------------------------------------------------------------------
(* What stops a job takes no byte from it.                                 *)

\* What a step of a thread does to the statuses and to the other threads.
LEMMA ThreadStatus ==
  ASSUME Typed, Placed, NEW j \in Jobs, ThreadStep(j)
  PROVE  /\ \A o \in Jobs \ {j} : thr'[o] = thr[o]
         /\ \A o \in Jobs : \/ row'[o].status = row[o].status
                            \/ SweepRow(j) /\ o = sweep[j].job /\ row'[o].status = "gone"
                            \/ o = j /\ row'[o].status = "running" /\ thr[o].pc = "begin"
                            \/ o = j /\ thr'[o].pc = "idle" /\ thr[o].pc # "idle"
<1>t. row \in [Jobs -> Row] /\ thr \in [Jobs -> Thread] BY DEF Typed
<1>1. \A o \in Jobs \ {j} : thr'[o] = thr[o]
  <2>1. ASSUME NEW u, Fits(j, u) PROVE \A o \in Jobs \ {j} : thr'[o] = thr[o]
    BY <2>1, <1>t DEF Fits, Moved
  <2> QED BY <2>1, ThreadMoves
<1>2. \A o \in Jobs : \/ row'[o].status = row[o].status
                      \/ SweepRow(j) /\ o = sweep[j].job /\ row'[o].status = "gone"
                      \/ o = j /\ row'[o].status = "running" /\ thr[o].pc = "begin"
                      \/ o = j /\ thr'[o].pc = "idle" /\ thr[o].pc # "idle"
  <2>0. CASE row' = row BY <2>0
  <2>1. ASSUME NEW r, Update(j, r), r.status = row[j].status
        PROVE  \A o \in Jobs : row'[o].status = row[o].status
    BY <2>1, <1>t DEF Update
  <2>2. CASE RunJob(j) BY <2>0, <2>2, <1>t DEF RunJob, Update, Gone, Row
  <2>3. CASE GenericBegins(j) \/ AsmroneBegins(j) \/ CivitaiBegins(j) \/ HitomiBegins(j)
    <3>1. PICK r \in Row : r = row[j] BY <1>t
    <3>2. PICK d : d = thr'[j].dir OBVIOUS
    <3>3. /\ [r EXCEPT !.dir = d].status = r.status
          /\ [r EXCEPT !.dir = d, !.regs = {}].status = r.status
      BY DEF Row
    <3>4. Update(j, [r EXCEPT !.dir = d]) \/ Update(j, [r EXCEPT !.dir = d, !.regs = {}])
      BY <2>3, <3>1, <3>2 DEF GenericBegins, AsmroneBegins, CivitaiBegins, HitomiBegins, SetTarget,
         SetTargetAndMetadata
    <3> QED BY <3>1, <3>3, <3>4, <2>1
  <2>4. CASE RegisterAndOpen(j) \/ PreviewSaved(j)
    <3>1. PICK r \in Row : r = row[j] BY <1>t
    <3>2. PICK regs : regs = r.regs \cup {PartPath(j)} OBVIOUS
    <3>3. PICK n : n = thr[j].path[2] OBVIOUS
    <3>4. /\ [r EXCEPT !.regs = regs, !.file = n].status = r.status
          /\ [r EXCEPT !.regs = {}].status = r.status
      BY DEF Row
    <3>5. Update(j, [r EXCEPT !.regs = regs, !.file = n]) \/ Update(j, [r EXCEPT !.regs = {}])
      BY <2>4, <3>1, <3>2, <3>3 DEF RegisterAndOpen, PreviewSaved, Row
    <3> QED BY <3>1, <3>4, <3>5, <2>1
  <2>5. CASE Finish(j) \/ HandleControlStop(j) \/ (RunnerExcept(j) /\ row' # row)
    <3>1. PICK r : Update(j, r)
      BY <2>5 DEF Finish, HandleControlStop, RunnerExcept
    <3>2. thr' = [thr EXCEPT ![j] = Idle] /\ thr[j].pc # "idle"
      BY <2>5 DEF Finish, HandleControlStop, RunnerExcept, AllEntriesTried
    <3>3. thr'[j].pc = "idle" BY <3>2, <1>t DEF Idle
    <3>4. \A o \in Jobs \ {j} : row'[o] = row[o] BY <3>1, <1>t DEF Update
    <3> QED BY <3>2, <3>3, <3>4
  <2>6. CASE SweepRow(j) BY <2>6, <1>t DEF SweepRow, NoRow
  <2>7. ASSUME NEW n, Update(j, [row[j] EXCEPT !.file = n])
        PROVE  \A o \in Jobs : row'[o].status = row[o].status
    <3>1. row[j] \in Row BY <1>t
    <3>2. [row[j] EXCEPT !.file = n].status = row[j].status BY <3>1 DEF Row
    <3> QED BY <3>2, <2>1, <2>7
  <2> QED BY <2>0, <2>2, <2>3, <2>4, <2>5, <2>6, <2>7, WhoWritesRows
<1> QED BY <1>1, <1>2

\* A thread that has begun keeps its row from rest, whatever the requests.
LEMMA RowsBusyStep ==
  ASSUME Typed, Placed, RowsBusy, [Next]_vars PROVE RowsBusy'
<1>t. row \in [Jobs -> Row] /\ thr \in [Jobs -> Thread] BY DEF Typed
<1> SUFFICES ASSUME NEW o \in Jobs, thr'[o].pc \notin {"idle", "begin"}
             PROVE  row'[o].status \in {"running", "pausing", "deleting", "gone"}
  BY DEF RowsBusy
<1>0. CASE UNCHANGED vars BY <1>0 DEF vars, RowsBusy
<1>1. ASSUME NEW j \in Jobs, ThreadStep(j)
      PROVE  row'[o].status \in {"running", "pausing", "deleting", "gone"}
  <2>1. CASE thr[o].pc \notin {"idle", "begin"} BY <1>1, <2>1, ThreadStatus DEF RowsBusy
  <2>2. CASE thr[o].pc \in {"idle", "begin"}
    <3>1. o = j BY <1>1, <2>2, ThreadStatus
    <3>2. RunJob(j) /\ thr'[j].pc = "manifest" BY <1>1, <2>2, <3>1, LeavesBegin
    <3> QED BY <3>1, <3>2, <1>t DEF RunJob, Update, Gone, Goto, Idle, Row
  <2> QED BY <2>1, <2>2
<1>2. ASSUME NEW j \in Jobs, RunnerStart(j)
      PROVE  row'[o].status \in {"running", "pausing", "deleting", "gone"}
  <2>1. thr'[j].pc = "begin" BY <1>2, <1>t DEF RunnerStart, Goto, Thread
  <2>2. o # j /\ thr'[o] = thr[o] /\ row' = row BY <1>2, <1>t, <2>1 DEF RunnerStart, Goto
  <2> QED BY <2>2 DEF RowsBusy
<1>3. ASSUME NEW j \in Jobs, Request(j)
      PROVE  row'[o].status \in {"running", "pausing", "deleting", "gone"}
  <2>1. row[o].status \in {"running", "pausing", "deleting", "gone"}
    BY <1>3 DEF RowsBusy, Request, ApiPauseJob, ApiResumeOrRetryJob, DeleteRunning
  <2>2. row[j] \in Row BY <1>t
  <2>3. CASE o # j
    BY <1>3, <1>t, <2>1, <2>3 DEF Request, ApiPauseJob, ApiResumeOrRetryJob, DeleteRunning, Update
  <2>4. CASE o = j
    BY <1>3, <1>t, <2>1, <2>2, <2>4 DEF Request, ApiPauseJob, ApiResumeOrRetryJob, DeleteRunning,
       Update, Gone, Row
  <2> QED BY <2>3, <2>4
<1>4. ASSUME NEW j \in Jobs, EnqueueExistingJobs(j)
      PROVE  row'[o].status \in {"running", "pausing", "deleting", "gone"}
  BY <1>4, <1>t DEF EnqueueExistingJobs, NoRow, RowsBusy
<1>5. ASSUME NEW c \in Clients, ClientStep(c)
      PROVE  row'[o].status \in {"running", "pausing", "deleting", "gone"}
  <2>1. thr' = thr /\ row'[o].status \in {row[o].status, "gone"}
    BY <1>5, <1>t, NoFileAssumption DEF ClientStep, ClearLists, ClearRows, Sweeping, SweepPartials,
       SweepReference, SweepRemove, SweepRow, DeleteIdle, ClearPartials, NoRow
  <2> QED BY <2>1 DEF RowsBusy
<1>6. CASE Crash BY <1>6 DEF Crash, Idle
<1> QED BY <1>0, <1>1, <1>2, <1>3, <1>4, <1>5, <1>6, StepKinds

(* Neither a stop nor the time until a retry takes a byte of a part.       *)
THEOREM StopsKeepBytes == Spec => StopKeepsBytes
<1>1. Init => RowsBusy BY DEF Init, RowsBusy, Idle
<1>2. Typed /\ Placed /\ RowsBusy /\ [Next]_vars =>
        \A k \in PartKeys :
          LET j == k[1]
              stops == thr[j].pc # "stop" /\ thr'[j].pc = "stop" /\ thr'[j].stop = "paused"
          IN  part[k] # NoFile /\ (row[j].status \in {"paused", "failed"} \/ stops)
                => \/ part'[k] # NoFile /\ part[k] \subseteq part'[k]
                   \/ \E a \in Actors : sweep[a].job = j \/ k[2] \in sweep[a].target
                   \/ \E c \in Clients : j \in clear[c].left
                   \/ Booting
  <2> DEFINE stops(j) == thr[j].pc # "stop" /\ thr'[j].pc = "stop" /\ thr'[j].stop = "paused"
             kept(k) == part'[k] # NoFile /\ part[k] \subseteq part'[k]
             removing(k) == \/ \E a \in Actors : sweep[a].job = k[1] \/ k[2] \in sweep[a].target
                            \/ \E c \in Clients : k[1] \in clear[c].left
                            \/ Booting
  <2> SUFFICES ASSUME Typed, Placed, RowsBusy, [Next]_vars, NEW k \in PartKeys, part[k] # NoFile,
                      row[k[1]].status \in {"paused", "failed"} \/ stops(k[1])
               PROVE  kept(k) \/ removing(k)
    OBVIOUS
  <2>t. /\ k[1] \in Jobs /\ thr \in [Jobs -> Thread] /\ part \in [PartKeys -> PartFile]
        /\ \A a \in Jobs \cup Clients : a \in Actors
    BY DEF PartKeys, Typed, PartFile, Actors
  <2>0. CASE part'[k] = part[k] BY <2>0
  <2>1. ASSUME NEW o \in Jobs, ThreadStep(o) PROVE kept(k) \/ removing(k)
    <3>1. CASE o # k[1]
      <4>1. CASE SweepPartials(o) /\ k[1] = sweep[o].job BY <4>1, <2>t
      <4>2. CASE SweepRemove(o) /\ k[2] \in sweep[o].target BY <4>2, <2>t
      <4> QED BY <2>0, <2>1, <3>1, <4>1, <4>2, ThreadParts
    <3>2. CASE o = k[1]
      <4>1. ASSUME thr[o].pc \in FilePCs, thr'[o].pc # "stop" PROVE FALSE
        BY <2>t, <3>2, <4>1 DEF RowsBusy, FilePCs
      <4>2. CASE StopsInStream(o)
        <5>1. thr'[o].stop = CheckJobControl(o) /\ thr[o].pc \in FilePCs
          BY <4>2, <2>t DEF StopsInStream, FilePCs, Thread
        <5>2. stops(o) BY <3>2, <5>1 DEF RowsBusy, FilePCs
        <5>3. part' = part BY <4>2, <5>1, <5>2 DEF StopsInStream, DropsPart
        <5> QED BY <2>0, <5>3
      <4>3. CASE FullContent(o) \/ Relock(o) \/ RegisterAndOpen(o) \/ Replace(o)
        <5>1. thr[o].pc \in FilePCs /\ thr'[o].pc # "stop"
          BY <4>3, <2>t DEF FullContent, Relock, RegisterAndOpen, Replace, Raises, Goto, FilePCs,
             Thread
        <5> QED BY <4>1, <5>1
      <4>4. CASE ReadChunk(o)
        <5>1. CASE k # PartPath(o) BY <4>4, <5>1, <2>0, <2>t DEF ReadChunk
        <5>2. CASE k = PartPath(o)
          <6>1. thr[o].downloaded + 1 \in Chunks
            BY <4>4, AtThread, SizeAssumption DEF ReadChunk, Chunks, Thread
          <6>2. part[k] \in SUBSET Chunks BY <2>t DEF PartFile
          <6>3. part'[k] = part[k] \cup {thr[o].downloaded + 1}
            BY <4>4, <5>2, <2>t DEF ReadChunk
          <6>4. part'[k] \in SUBSET Chunks BY <6>1, <6>2, <6>3
          <6> QED BY <6>3, <6>4, NoFileAssumption
        <5> QED BY <5>1, <5>2
      <4>5. CASE SweepPartials(o)
        <5>1. part' = Without(PartialsOf(sweep[o].job)) BY <4>5 DEF SweepPartials
        <5>2. k \in PartialsOf(sweep[o].job) => k[1] = sweep[o].job BY DEF PartialsOf
        <5>3. CASE k \in PartialsOf(sweep[o].job) BY <5>2, <5>3, <2>t
        <5>4. CASE k \notin PartialsOf(sweep[o].job) BY <5>1, <5>4, <2>0, WithoutUnlinks
        <5> QED BY <5>3, <5>4
      <4>6. CASE SweepRemove(o)
        <5>1. CASE k[2] \in sweep[o].target BY <5>1, <2>t
        <5>2. CASE k[2] \notin sweep[o].target
          BY <4>6, <5>2, <2>0, <2>t, RemoveLocalUnlinks DEF SweepRemove
        <5> QED BY <5>1, <5>2
      <4> QED BY <2>0, <2>1, <4>2, <4>3, <4>4, <4>5, <4>6, WhoWritesParts
    <3> QED BY <3>1, <3>2
  <2>2. ASSUME NEW c \in Clients, ClientStep(c) PROVE kept(k) \/ removing(k)
    <3>1. CASE SweepPartials(c)
      <4>1. part' = Without(PartialsOf(sweep[c].job)) BY <3>1 DEF SweepPartials
      <4>2. k \in PartialsOf(sweep[c].job) => k[1] = sweep[c].job BY DEF PartialsOf
      <4>3. CASE k \in PartialsOf(sweep[c].job) BY <4>2, <4>3, <2>t
      <4>4. CASE k \notin PartialsOf(sweep[c].job) BY <4>1, <4>4, <2>0, WithoutUnlinks
      <4> QED BY <4>3, <4>4
    <3>2. CASE SweepRemove(c)
      <4>1. CASE k[2] \in sweep[c].target BY <4>1, <2>t
      <4>2. CASE k[2] \notin sweep[c].target
        BY <3>2, <4>2, <2>0, <2>t, RemoveLocalUnlinks DEF SweepRemove
      <4> QED BY <4>1, <4>2
    <3>3. ASSUME NEW j \in Jobs, ClearPartials(c, j) PROVE kept(k) \/ removing(k)
      <4>1. part' = Without(PartialsOf(j)) /\ j \in clear[c].left BY <3>3 DEF ClearPartials
      <4>2. k \in PartialsOf(j) => k[1] = j BY DEF PartialsOf
      <4>3. CASE k \in PartialsOf(j) BY <4>1, <4>2, <4>3
      <4>4. CASE k \notin PartialsOf(j) BY <4>1, <4>4, <2>0, WithoutUnlinks
      <4> QED BY <4>3, <4>4
    <3>4. \/ part' = part \/ SweepPartials(c) \/ SweepRemove(c)
          \/ \E j \in Jobs : ClearPartials(c, j)
      BY <2>2 DEF ClientStep, ClearLists, ClearRows, Sweeping, SweepReference, SweepRow, DeleteIdle,
         files
    <3> QED BY <2>0, <3>1, <3>2, <3>3, <3>4
  <2>3. ASSUME NEW j \in Jobs, RunnerStart(j) \/ Request(j) PROVE part' = part
    BY <2>3 DEF RunnerStart, Request, ApiPauseJob, ApiResumeOrRetryJob, DeleteRunning, files
  <2>4. ASSUME NEW j \in Jobs, EnqueueExistingJobs(j) PROVE removing(k)
    BY <2>4 DEF EnqueueExistingJobs, Booting
  <2>5. CASE Crash \/ UNCHANGED vars BY <2>0, <2>5 DEF Crash, vars
  <2> QED BY <2>0, <2>1, <2>2, <2>3, <2>4, <2>5, StepKinds
<1> QED BY <1>1, <1>2, TypedInit, KeepsTypes, RowsBusyStep, PTL DEF Spec, StopKeepsBytes

-----------------------------------------------------------------------------
(* A part is the beginning of its body, and what is renamed is all of it.  *)

\* The other steps write no part and start threads only.
LEMMA OtherSteps ==
  ASSUME Typed,
         \/ \E j \in Jobs : RunnerStart(j) \/ Request(j) \/ EnqueueExistingJobs(j)
         \/ \E c \in Clients : ClientStep(c)
         \/ Crash
  PROVE  /\ plan' = plan /\ events' = events /\ \A k \in PartKeys : Unlinked(k)
         /\ \A p \in Paths : final'[p] \in {final[p], NoFile}
         /\ \A j \in Jobs : thr'[j] = thr[j] \/ thr'[j].pc \in {"idle", "begin"}
<1>t. thr \in [Jobs -> Thread] /\ part \in [PartKeys -> PartFile] BY DEF Typed, PartFile
<1>1. ASSUME NEW j \in Jobs, RunnerStart(j) \/ Request(j)
      PROVE  /\ UNCHANGED <<plan, events, part, final>>
             /\ \A o \in Jobs : thr'[o] = thr[o] \/ thr'[o].pc \in {"idle", "begin"}
  BY <1>1, <1>t DEF RunnerStart, Goto, Request, ApiPauseJob, ApiResumeOrRetryJob, DeleteRunning,
     files, Thread
<1>2. ASSUME NEW j \in Jobs, EnqueueExistingJobs(j)
      PROVE  /\ UNCHANGED <<plan, events, thr>> /\ \A k \in PartKeys : Unlinked(k)
             /\ \A p \in Paths : final'[p] \in {final[p], NoFile}
  <2> DEFINE K == PartialsOf(j)
  <2>1. /\ Without(K) \in [PartKeys -> PartFile]
        /\ \A k \in PartKeys : Without(K)[k] \in {part[k], NoFile}
    BY <1>t DEF Without, PartFile
  <2>2. UNCHANGED <<plan, events, thr>> BY <1>2 DEF EnqueueExistingJobs
  <2>3. PICK target : RemoveLocal(j, target, Without(K)) BY <1>2 DEF EnqueueExistingJobs
  <2> HIDE DEF K
  <2> QED BY <2>1, <2>2, <2>3, RemoveLocalUnlinks DEF Unlinked
<1>3. ASSUME NEW c \in Clients, ClientStep(c)
      PROVE  /\ UNCHANGED <<plan, events, thr>> /\ \A k \in PartKeys : Unlinked(k)
             /\ \A p \in Paths : final'[p] \in {final[p], NoFile}
  <2>1. UNCHANGED <<plan, events, thr>>
    BY <1>3, NoFileAssumption DEF ClientStep, ClearLists, ClearRows, Sweeping, SweepPartials,
       SweepReference, SweepRemove, SweepRow, DeleteIdle, ClearPartials
  <2>2. \/ UNCHANGED <<part, final>>
        \/ SweepRemove(c)
        \/ final' = final /\ \E K : part' = Without(K)
    BY <1>3 DEF ClientStep, ClearLists, ClearRows, Sweeping, SweepPartials, SweepReference,
       SweepRow, DeleteIdle, ClearPartials, files
  <2>3. CASE SweepRemove(c)
    BY <2>1, <2>3, <1>t, RemoveLocalUnlinks DEF SweepRemove, Unlinked
  <2>4. ASSUME NEW K, part' = Without(K) PROVE \A k \in PartKeys : Unlinked(k)
    BY <2>4, WithoutUnlinks DEF Unlinked
  <2> QED BY <2>1, <2>2, <2>3, <2>4 DEF Unlinked
<1>4. CASE Crash BY <1>4 DEF Crash, Idle, Unlinked
<1> QED BY <1>1, <1>2, <1>3, <1>4 DEF Unlinked

\* A beginning is as long as it says.
LEMMA BeginningSize == ASSUME NEW n \in Nat PROVE Cardinality(1..n) = n
BY FS_Interval

\* How a thread comes to work on its part.
LEMMA ArrivesAtPart ==
  ASSUME Typed, Placed, NEW j \in Jobs, ThreadStep(j),
         thr'[j].pc \in {"request", "relock", "open", "read", "replace"}
  PROVE  \/ Stat(j) \/ PartialContent(j) \/ FullContent(j) \/ Relock(j) \/ RegisterAndOpen(j)
         \/ ReadChunk(j) \/ BodyEnds(j)
         \/ thr'[j] = thr[j] /\ Sweeping(j)
<1>t. thr \in [Jobs -> Thread] BY DEF Typed
<1>1. CASE \/ RunJob(j) \/ StopsBetweenStreams(j) \/ FetchJsonFails(j)
           \/ GenericBegins(j) \/ AsmroneBegins(j) \/ CivitaiBegins(j) \/ HitomiBegins(j)
           \/ StreamBegins(j) \/ Acquire(j) \/ StopsInStream(j)
  BY <1>1, <1>t DEF RunJob, Goto, Idle, StopsBetweenStreams, FetchJsonFails, GenericBegins,
     AsmroneBegins, CivitaiBegins, HitomiBegins, Begins, StreamBegins, Acquire,
     StopsInStream, Thread
<1>2. CASE \/ KeepsExisting(j) \/ ValidationRejects(j)
           \/ TrackFails(j) \/ CoverFails(j) \/ PreviewFails(j) \/ GenericSaved(j) \/ PageSaved(j)
           \/ ModelFileSaved(j) \/ TrackSaved(j) \/ CoverSaved(j) \/ PreviewSaved(j)
  <2>1. CASE KeepsExisting(j) \/ ValidationRejects(j)
    BY <1>t, <2>1 DEF KeepsExisting, Kept, ValidationRejects, NextEntry, Thread
  <2>2. CASE TrackFails(j) \/ CoverFails(j) \/ PreviewFails(j)
    BY <1>t, <2>2 DEF TrackFails, CoverFails, PreviewFails, NextEntry, Thread
  <2>3. CASE GenericSaved(j) \/ PageSaved(j) \/ ModelFileSaved(j)
    BY <1>t, <2>3 DEF GenericSaved, PageSaved, ModelFileSaved, NameOfSaved, NextEntry, Thread
  <2>4. CASE TrackSaved(j) \/ CoverSaved(j) \/ PreviewSaved(j)
    BY <1>t, <2>4 DEF TrackSaved, CoverSaved, PreviewSaved, NameOfSaved, NextEntry, Thread
  <2> QED BY <1>2, <2>1, <2>2, <2>3, <2>4
<1>3. CASE \/ RequestFails(j) \/ RangeNotSatisfiable(j) \/ Replace(j) \/ FinalSize(j)
           \/ TryNextUrl(j) \/ RequiredFails(j) \/ NothingSaved(j) \/ Finish(j)
           \/ RunnerExcept(j) \/ HandleControlStop(j) \/ HandleDeleted(j)
  BY <1>3, <1>t DEF RequestFails, RangeNotSatisfiable, Replace, FinalSize, Raises, TryNextUrl, Goto,
     RequiredFails, NothingSaved, Finish, RunnerExcept, HandleControlStop, HandleDeleted, Idle,
     Thread
<1>4. CASE Sweeping(j)
  BY <1>4, <1>t DEF Sweeping, SweepPartials, SweepReference, SweepRemove, SweepRow, Idle
<1> QED BY <1>1, <1>2, <1>3, <1>4 DEF ThreadStep

\* A thread that opens or reads is not where it was.
LEMMA Advances ==
  ASSUME Typed, NEW j \in Jobs, RegisterAndOpen(j) \/ ReadChunk(j)
  PROVE  thr'[j] # thr[j]
<1>t. thr \in [Jobs -> Thread] /\ thr[j] \in Thread BY DEF Typed
<1>1. CASE RegisterAndOpen(j)
  <2>1. thr[j].pc = "open" /\ thr'[j].pc = "read" BY <1>1, <1>t DEF RegisterAndOpen, Thread
  <2> QED BY <2>1
<1>2. CASE ReadChunk(j)
  <2>1. thr'[j].downloaded = thr[j].downloaded + 1 /\ thr[j].downloaded \in Int
    BY <1>2, <1>t, SizeAssumption DEF ReadChunk, Thread
  <2> QED BY <2>1
<1> QED BY <1>1, <1>2

\* A thread that stays with its entry, its URL and its path keeps its part.
LEMMA SamePart ==
  ASSUME Typed, Placed, NEW j \in Jobs,
         \/ Stat(j) \/ PartialContent(j) \/ FullContent(j) \/ RegisterAndOpen(j) \/ ReadChunk(j)
         \/ BodyEnds(j)
  PROVE  PartPath(j)' = PartPath(j)
<1>t. thr \in [Jobs -> Thread] /\ thr[j] \in Thread BY DEF Typed
<1>1. thr'[j].at = thr[j].at /\ thr'[j].alt = thr[j].alt /\ thr'[j].path = thr[j].path
  <2>1. CASE Stat(j) BY <2>1, <1>t DEF Stat, Thread
  <2>2. CASE PartialContent(j) BY <2>2, <1>t DEF PartialContent, Goto, Thread
  <2>3. CASE FullContent(j) BY <2>3, <1>t DEF FullContent, Thread
  <2>4. CASE RegisterAndOpen(j) BY <2>4, <1>t DEF RegisterAndOpen, Thread
  <2>5. CASE ReadChunk(j) BY <2>5, <1>t DEF ReadChunk, Thread
  <2>6. CASE BodyEnds(j) BY <2>6, <1>t DEF BodyEnds, Raises, Goto, Thread
  <2> QED BY <2>1, <2>2, <2>3, <2>4, <2>5, <2>6
<1>2. plan' = plan
  BY DEF Stat, PartialContent, FullContent, RegisterAndOpen, ReadChunk, BodyEnds
<1> QED BY <1>1, <1>2 DEF PartPath, Url, Entry

\* What others do to a part of a thread only takes it away.
LEMMA FitsUnlinked ==
  ASSUME NEW t, NEW c, NEW d, PartFits(t, c), d \in {c, NoFile},
         t.pc \in {"request", "open"} /\ t.existing # 0 => d # NoFile
  PROVE  PartFits(t, d)
BY DEF PartFits

\* The thread's own steps between its look at the part and the rename.
LEMMA FitsOwn ==
  ASSUME Typed, Placed, PartsFit, NEW j \in Jobs, ThreadStep(j), thr'[j].pc \in FilePCs,
         ~(thr'[j] = thr[j] /\ Sweeping(j))
  PROVE  PartFits(thr'[j], part[PartPath(j)]') /\ part[PartPath(j)]' = part'[PartPath(j)']
<1>t. /\ thr \in [Jobs -> Thread] /\ thr[j] \in Thread /\ part \in [PartKeys -> PartFile]
      /\ plan' = plan
  BY AtThread, WhoElse DEF Typed, PartFile
<1>1. CASE thr'[j].pc \notin {"request", "relock", "open", "read", "replace"}
  BY <1>1 DEF PartFits
<1>2. CASE Stat(j) \/ PartialContent(j) \/ FullContent(j) \/ RegisterAndOpen(j) \/ ReadChunk(j)
           \/ BodyEnds(j)
  <2>1. PartPath(j)' = PartPath(j) /\ thr[j].pc \in FilePCs
    BY <1>2, SamePart, ZenonT(60) DEF Stat, PartialContent, FullContent, RegisterAndOpen, ReadChunk, BodyEnds,
       FilePCs
  <2>2. PartPath(j) \in PartKeys BY <2>1, AtFile
  <2> PICK k \in PartKeys : k = PartPath(j) BY <2>2
  <2> PICK t \in Thread : t = thr[j] BY <1>t
  <2>3. /\ part[k] \in PartFile /\ PartFits(t, part[k])
        /\ part[k] # NoFile => Beginning(part[k])
    BY <1>t, <2>1 DEF PartsFit
  <2>4. PartFits(thr'[j], part'[k])
    <3>1. CASE Stat(j)
      <4>1. thr'[j].pc = "request" /\ thr'[j].existing = SizeOfPart(k) /\ part' = part
        BY <3>1, <1>t DEF Stat, files, Thread
      <4>2. SizeOfPart(k) # 0 => part[k] = 1..SizeOfPart(k)
        <5>1. SUFFICES ASSUME SizeOfPart(k) # 0 PROVE part[k] = 1..SizeOfPart(k) OBVIOUS
        <5>2. PICK n \in 0..Size : part[k] = 1..n BY <5>1, <2>3 DEF SizeOfPart, Beginning
        <5>3. Cardinality(1..n) = n BY SizeAssumption, BeginningSize
        <5> QED BY <5>1, <5>2, <5>3 DEF SizeOfPart
      <4> QED BY <4>1, <4>2 DEF PartFits
    <3>2. CASE PartialContent(j)
      <4>1. thr'[j].pc = "open" /\ thr'[j].existing = t.existing /\ part' = part
            /\ t.pc = "request"
        BY <3>2, <1>t DEF PartialContent, Goto, files, Thread
      <4> QED BY <4>1, <2>3 DEF PartFits
    <3>3. CASE FullContent(j)
      <4>1. thr'[j].pc \in {"relock", "open"} /\ thr'[j].existing = 0
        BY <3>3, <1>t DEF FullContent, Thread
      <4> QED BY <4>1 DEF PartFits
    <3>4. CASE RegisterAndOpen(j)
      <4>1. /\ t.pc = "open" /\ thr'[j].pc = "read" /\ thr'[j].downloaded = t.existing
            /\ part'[k] = IF t.existing = 0 \/ part[k] = NoFile THEN {} ELSE part[k]
        BY <3>4, <1>t DEF RegisterAndOpen, Thread
      <4>2. t.existing # 0 => part'[k] = 1..t.existing
        <5>1. t.existing # 0 => part[k] = 1..t.existing BY <4>1, <2>3 DEF PartFits
        <5>2. t.existing # 0 => 1..t.existing \in SUBSET Chunks
          BY SizeAssumption DEF Chunks, Thread
        <5> QED BY <4>1, <5>1, <5>2, NoFileAssumption
      <4>3. 1..0 = {} OBVIOUS
      <4> QED BY <4>1, <4>2, <4>3 DEF PartFits
    <3>5. CASE ReadChunk(j)
      <4>1. /\ t.pc = "read" /\ thr'[j].pc = "read" /\ thr'[j].downloaded = t.downloaded + 1
            /\ part'[k] = IF part[k] = NoFile THEN NoFile ELSE part[k] \cup {t.downloaded + 1}
        BY <3>5, <1>t DEF ReadChunk, Thread
      <4>2. t.downloaded \in Nat BY SizeAssumption DEF Thread
      <4>3. (1..t.downloaded) \cup {t.downloaded + 1} = 1..(t.downloaded + 1) BY <4>2
      <4> QED BY <4>1, <4>3, <2>3 DEF PartFits
    <3>6. CASE BodyEnds(j)
      <4>1. part' = part /\ t.pc = "read" BY <3>6 DEF BodyEnds
      <4>2. thr'[j].pc = "replace" => t.downloaded = Size
        BY <3>6, <1>t, SizeAssumption DEF BodyEnds, Raises, Thread
      <4>3. thr'[j].pc \in {"replace", "badurl"}
        BY <3>6, <1>t DEF BodyEnds, Raises, Goto, Thread
      <4> QED BY <4>1, <4>2, <4>3, <2>3 DEF PartFits, Chunks
    <3> QED BY <1>2, <3>1, <3>2, <3>3, <3>4, <3>5, <3>6
  <2> QED BY <2>1, <2>4
<1>3. CASE Relock(j)
  <2>1. thr'[j].pc = "open" /\ thr'[j].existing = 0
    BY <1>3, <1>t DEF Relock, Thread, Placed, PlaceFits
  <2> QED BY <2>1 DEF PartFits
<1> QED BY <1>1, <1>2, <1>3, ArrivesAtPart

\* A part stays a beginning of its body, while no part goes under a thread.
LEMMA PartsFitStep ==
  ASSUME Typed, Placed, PartsFit, PartsStay', [Next]_vars PROVE PartsFit'
<1>t. /\ thr \in [Jobs -> Thread] /\ Typed' /\ Placed'
      /\ \A j \in Jobs : PlaceFits(thr[j], plan[j])
  BY KeepsTypes DEF Typed, Placed
<1>0. CASE UNCHANGED vars BY <1>0 DEF vars, PartsFit, PartPath, Url, Entry
<1>b. ASSUME plan' = plan, NEW o \in Jobs, thr'[o] = thr[o], thr[o].pc \in FilePCs,
             Unlinked(PartPath(o))
      PROVE  PartFits(thr'[o], part[PartPath(o)]')
  <2>1. PartPath(o)' = PartPath(o) BY <1>b DEF PartPath, Url, Entry
  <2>2. PartFits(thr[o], part[PartPath(o)]) BY <1>b DEF PartsFit
  <2>3. thr[o].pc \in {"request", "open"} /\ thr[o].existing # 0 => part'[PartPath(o)] # NoFile
    BY <1>b, <2>1 DEF PartsStay
  <2> QED BY <1>b, <2>1, <2>2, <2>3, FitsUnlinked DEF Unlinked
<1>1. CASE \/ \E j \in Jobs : RunnerStart(j) \/ Request(j) \/ EnqueueExistingJobs(j)
           \/ \E c \in Clients : ClientStep(c)
           \/ Crash
  <2>1. /\ plan' = plan /\ \A k \in PartKeys : Unlinked(k)
        /\ \A j \in Jobs : thr'[j] = thr[j] \/ thr'[j].pc \in {"idle", "begin"}
    BY <1>1, OtherSteps
  <2>2. ASSUME NEW o \in Jobs, thr'[o].pc \in FilePCs
        PROVE  PartFits(thr'[o], part[PartPath(o)]')
    <3>1. thr'[o] = thr[o] BY <2>1, <2>2 DEF FilePCs
    <3>2. PartPath(o) \in PartKeys BY <2>2, <3>1, AtFile
    <3> QED BY <1>b, <2>1, <2>2, <3>1, <3>2
  <2>3. \A k \in PartKeys : part'[k] # NoFile => Beginning(part'[k])
    BY <2>1 DEF Unlinked, PartsFit
  <2> QED BY <2>2, <2>3 DEF PartsFit
<1>2. ASSUME NEW j \in Jobs, ThreadStep(j) PROVE PartsFit'
  <2>0. plan' = plan /\ \A o \in Jobs \ {j} : thr'[o] = thr[o] BY <1>2, WhoElse, ThreadStatus
  <2>1. ASSUME NEW k \in PartKeys, part'[k] # NoFile PROVE Beginning(part'[k])
    <3>1. CASE Unlinked(k) BY <2>1, <3>1 DEF Unlinked, PartsFit
    <3>2. CASE k = PartPath(j) /\ (RegisterAndOpen(j) \/ ReadChunk(j))
      <4>1. thr'[j].pc = "read" BY <3>2, <1>t DEF RegisterAndOpen, ReadChunk, Thread
      <4>2. PartPath(j)' = PartPath(j)
        BY <3>2, SamePart
      <4>3. ~(thr'[j] = thr[j] /\ Sweeping(j))
        BY <3>2, <1>t, Advances
      <4>4. PartFits(thr'[j], part'[k]) BY <1>2, <3>2, <4>1, <4>2, <4>3, FitsOwn DEF FilePCs
      <4>5. part'[k] = 1..thr'[j].downloaded BY <2>1, <4>1, <4>4 DEF PartFits
      <4>6. thr'[j].downloaded \in 0..Size BY <1>t DEF Typed, Thread
      <4> QED BY <4>5, <4>6 DEF Beginning
    <3> QED BY <1>2, <3>1, <3>2, ThreadParts
  <2>2. ASSUME NEW o \in Jobs, thr'[o].pc \in FilePCs
        PROVE  PartFits(thr'[o], part[PartPath(o)]')
    <3>1. CASE o # j
      <4>1. thr'[o] = thr[o] BY <2>0, <3>1
      <4>2. PartPath(o) \in PartKeys /\ PartPath(o)[1] = o BY <2>2, <4>1, AtFile
      <4>3. PartPath(o) # PartPath(j) BY <3>1 DEF PartPath
      <4>4. Unlinked(PartPath(o)) BY <1>2, <4>2, <4>3, ThreadParts
      <4> QED BY <1>b, <2>0, <2>2, <4>1, <4>4
    <3>2. CASE o = j /\ thr'[j] = thr[j] /\ Sweeping(j)
      <4>1. PartPath(j) \in PartKeys BY <2>2, <3>2, AtFile
      <4>2. Unlinked(PartPath(j)) BY <1>2, <4>1, <3>2, ThreadParts, Advances
      <4> QED BY <1>b, <2>0, <2>2, <3>2, <4>2
    <3>3. CASE o = j /\ ~(thr'[j] = thr[j] /\ Sweeping(j))
      BY <1>2, <2>2, <3>3, FitsOwn
    <3> QED BY <3>1, <3>2, <3>3
  <2> QED BY <2>1, <2>2 DEF PartsFit
<1> QED BY <1>0, <1>1, <1>2, StepKinds

(* A file under its final name is whole, as long as no part is unlinked    *)
(* between a thread's look at it and its open.                             *)
THEOREM FinalsStayWhole == Spec /\ []PartsStay => []FinalWhole
<1>1. Init => PartsFit /\ FinalWhole
  BY DEF Init, PartsFit, FinalWhole, Idle, FilePCs
<1>2. Typed /\ Placed /\ PartsFit /\ FinalWhole /\ [Next]_vars => FinalWhole'
  <2> SUFFICES ASSUME Typed, Placed, PartsFit, FinalWhole, [Next]_vars,
                      NEW p \in Paths, final'[p] # NoFile
               PROVE  final'[p].has = Chunks
    BY DEF FinalWhole
  <2>0. CASE final'[p] = final[p] BY <2>0 DEF FinalWhole
  <2>1. ASSUME NEW j \in Jobs, ThreadStep(j) PROVE final'[p].has = Chunks
    <3>1. CASE Replace(j) /\ final'[p] = [url |-> Url(j), has |-> part[PartPath(j)]]
      <4>1. PartFits(thr[j], part[PartPath(j)]) /\ thr[j].pc = "replace"
        BY <3>1 DEF Replace, PartsFit, FilePCs
      <4>2. part[PartPath(j)] \in {NoFile, Chunks} BY <4>1 DEF PartFits
      <4>3. CASE part[PartPath(j)] = NoFile BY <2>0, <3>1, <4>3 DEF Replace
      <4>4. CASE part[PartPath(j)] = Chunks BY <3>1, <4>4
      <4> QED BY <4>2, <4>3, <4>4
    <3> QED BY <2>0, <2>1, <3>1, ThreadFinals
  <2>2. CASE UNCHANGED vars BY <2>0, <2>2 DEF vars
  <2> QED BY <2>0, <2>1, <2>2, StepKinds, OtherSteps
<1> QED BY <1>1, <1>2, TypedInit, KeepsTypes, PartsFitStep, PTL DEF Spec

-----------------------------------------------------------------------------
(* Removals keep away from threads.                                        *)

\* What RemovalsApart says of the plan of a behaviour.
LEMMA Apart ==
  ASSUME RemovalsApart, Typed
  PROVE  /\ "overlap" \notin events
         /\ \A j, o \in Jobs : j # o /\ ByDirectory(j) => plan[j].dirs \cap plan[o].dirs = {}
BY DEF RemovalsApart, Typed, ByDirectory

\* A thread that does not sweep is neither idle nor sweeping when it steps.
LEMMA BusyThreads ==
  ASSUME NEW j \in Jobs, ThreadStep(j), ~Sweeping(j)
  PROVE  thr[j].pc \notin {"idle", "sweeping"}
BY DEF ThreadStep, RunJob, StopsBetweenStreams, FetchJsonFails, GenericBegins,
   AsmroneBegins, CivitaiBegins, HitomiBegins, Begins, KeepsExisting, StreamBegins, Acquire, Stat,
   RequestFails, RangeNotSatisfiable, PartialContent, BodyEnds, FinalSize, TryNextUrl,
   RequiredFails, TrackFails, CoverFails, PreviewFails, GenericSaved, PageSaved, ModelFileSaved,
   TrackSaved, CoverSaved, PreviewSaved, NameOfSaved, ValidationRejects, NothingSaved, Finish,
   RunnerExcept, HandleControlStop, HandleDeleted, StopsInStream, FullContent, Relock,
   RegisterAndOpen, ReadChunk, Replace, ControlPoints, Kept, AllEntriesTried, SavedEntry, FailedEntry

\* A thread that sweeps does nothing else; one that is not there does nothing.
LEMMA SweepsOnly ==
  ASSUME Typed, SweepsApart, NEW j \in Jobs, ThreadStep(j)
  PROVE  thr[j].pc # "idle" /\ (thr[j].pc = "sweeping" => Sweeping(j))
<1>1. Sweeping(j) => sweep[j].step # "none"
  BY DEF Sweeping, SweepPartials, SweepReference, SweepRemove, SweepRow
<1>2. CASE Sweeping(j) BY <1>1, <1>2 DEF SweepsApart, Actors
<1>3. CASE ~Sweeping(j)
  <2>1. thr[j].pc \notin {"idle", "sweeping"} BY <1>3, BusyThreads
  <2> QED BY <2>1
<1> QED BY <1>2, <1>3

\* One removal, sweep[a], and the threads.
SweepFits(a) ==
  sweep[a].step # "none" =>
    /\ sweep[a].job \in Jobs
    /\ sweep[a].target \subseteq plan[sweep[a].job].dirs \X Names
    /\ IF a \in Jobs THEN sweep[a].job = a /\ thr[a].pc = "sweeping"
                     ELSE thr[sweep[a].job].pc = "idle"

\* A removal goes on with the job it was begun for.
LEMMA SweepingFits ==
  ASSUME Typed, RowsPlaced, NEW a \in Actors, Sweeping(a), SweepFits(a)
  PROVE  /\ plan' = plan /\ clear' = clear /\ \A b \in Actors \ {a} : sweep'[b] = sweep[b]
         /\ sweep'[a].step # "none" =>
              /\ thr' = thr /\ sweep'[a].job = sweep[a].job /\ sweep[a].step # "none"
              /\ sweep'[a].target \subseteq plan[sweep[a].job].dirs \X Names
<1>t. sweep \in [Actors -> Sweep] /\ sweep[a] \in Sweep BY DEF Typed
<1> PICK w \in Sweep : w = sweep[a] BY <1>t
<1>1. CASE SweepPartials(a) BY <1>1, <1>t DEF SweepPartials, Step, SweepFits, Sweep
<1>2. CASE SweepReference(a)
  <2>1. sweep[a].job \in Jobs BY <1>2 DEF SweepReference, SweepFits
  <2>2. LocalTarget(sweep[a].job) \subseteq plan[sweep[a].job].dirs \X Names
    BY <2>1, TargetTyped DEF RowsPlaced
  <2>3. PICK step \in {"row", "remove"}, target \in {{}, LocalTarget(sweep[a].job)} :
          sweep' = [sweep EXCEPT ![a].step = step, ![a].target = target]
    BY <1>2 DEF SweepReference
  <2>4. /\ sweep'[a].job = sweep[a].job /\ sweep'[a].target = target
        /\ \A b \in Actors \ {a} : sweep'[b] = sweep[b]
    BY <2>3, <1>t DEF Sweep
  <2>5. plan' = plan /\ clear' = clear /\ thr' = thr /\ sweep[a].step # "none"
    BY <1>2 DEF SweepReference
  <2> QED BY <2>2, <2>3, <2>4, <2>5
<1>3. CASE SweepRemove(a) BY <1>3, <1>t DEF SweepRemove, Step, SweepFits, Sweep
<1>4. CASE SweepRow(a) BY <1>4, <1>t DEF SweepRow, NoSweep
<1> QED BY <1>1, <1>2, <1>3, <1>4 DEF Sweeping

\* No thread starts in a removal, and no removal with a thread.
LEMMA SweepsApartStep ==
  ASSUME RemovalsApart, Typed, Placed, RowsPlaced, SweepsApart, [Next]_vars
  PROVE  SweepsApart'
<1>t. /\ thr \in [Jobs -> Thread] /\ sweep \in [Actors -> Sweep] /\ Jobs \cap Clients = {}
      /\ Actors = Jobs \cup Clients /\ \A a \in Actors : SweepFits(a)
      /\ \A c \in Clients : clear[c].on => \A j \in Jobs : thr[j].pc = "idle"
      /\ clear \in [Clients -> [on : BOOLEAN, left : SUBSET Jobs]]
  BY NoFileAssumption DEF Typed, Actors, SweepFits, SweepsApart
<1>0. CASE UNCHANGED <<plan, thr, sweep, clear>> BY <1>0 DEF SweepsApart
<1>s. ASSUME \A a \in Actors : SweepFits(a)',
             \A c \in Clients : clear'[c].on => \A j \in Jobs : thr'[j].pc = "idle"
      PROVE  SweepsApart'
  BY <1>s DEF SweepFits, SweepsApart
<1>1. ASSUME NEW j \in Jobs, ThreadStep(j) PROVE SweepsApart'
  <2>1. thr[j].pc # "idle" /\ (thr[j].pc = "sweeping" => Sweeping(j)) BY <1>1, SweepsOnly
  <2>2. /\ \A o \in Jobs \ {j} : thr'[o] = thr[o]
        /\ plan' = plan /\ clear' = clear
    BY <1>1, WhoElse, ThreadStatus
  <2>3. \A a \in Actors \ {j} : sweep'[a] = sweep[a]
    <3>1. CASE Sweeping(j) BY <3>1, <1>t, SweepingFits
    <3>2. CASE HandleDeleted(j) BY <3>2, <1>t DEF HandleDeleted
    <3> QED BY <1>1, <3>1, <3>2, WhoElse
  <2>4. ASSUME NEW a \in Actors \ {j} PROVE SweepFits(a)'
    <3>1. CASE a \in Jobs BY <2>2, <2>3, <2>4, <3>1, <1>t DEF SweepFits
    <3>2. CASE a \notin Jobs
      <4>1. sweep[a].step # "none" => sweep[a].job # j BY <2>1, <2>4, <3>2, <1>t DEF SweepFits
      <4>2. SweepFits(a) BY <1>t
      <4> QED BY <2>2, <2>3, <3>2, <4>1, <4>2 DEF SweepFits
    <3> QED BY <3>1, <3>2
  <2>5. SweepFits(j)'
    <3>1. CASE Sweeping(j)
      <4>1. sweep'[j].step # "none" =>
              /\ thr' = thr /\ sweep'[j].job = sweep[j].job /\ sweep[j].step # "none"
              /\ sweep'[j].target \subseteq plan[sweep[j].job].dirs \X Names
        BY <3>1, <1>t, SweepingFits
      <4>2. SweepFits(j) BY <1>t
      <4> QED BY <2>2, <4>1, <4>2 DEF SweepFits
    <3>2. CASE HandleDeleted(j)
      <4>1. sweep'[j] = [step |-> "partials", job |-> j, target |-> {}]
        BY <3>2, <1>t DEF HandleDeleted
      <4>2. thr'[j].pc = "sweeping" BY <3>2, <1>t DEF HandleDeleted, Goto, Thread
      <4> QED BY <4>1, <4>2 DEF SweepFits
    <3>3. CASE sweep' = sweep /\ ~Sweeping(j)
      <4>1. sweep[j].step = "none" BY <2>1, <3>3, <1>t DEF SweepFits
      <4> QED BY <3>3, <4>1 DEF SweepFits
    <3> QED BY <1>1, <3>1, <3>2, <3>3, WhoElse
  <2>6. \A c \in Clients : ~clear'[c].on BY <2>1, <2>2, <1>t
  <2> QED BY <2>4, <2>5, <2>6, <1>s
<1>2. ASSUME NEW j \in Jobs, RunnerStart(j) PROVE SweepsApart'
  <2>1. /\ \A c \in Clients : sweep[c].job # j /\ ~clear[c].on
        /\ thr[j].pc = "idle" /\ UNCHANGED <<plan, sweep, clear>>
        /\ \A o \in Jobs \ {j} : thr'[o] = thr[o]
    BY <1>2, <1>t, Apart DEF RunnerStart, Removed, Goto
  <2>2. ASSUME NEW a \in Actors PROVE SweepFits(a)'
    <3>1. SweepFits(a) BY <1>t
    <3> QED BY <2>1, <3>1, <1>t DEF SweepFits
  <2> QED BY <2>1, <2>2, <1>s
<1>3. ASSUME NEW j \in Jobs, Request(j) \/ EnqueueExistingJobs(j)
      PROVE  UNCHANGED <<plan, thr, sweep, clear>>
  BY <1>3 DEF Request, ApiPauseJob, ApiResumeOrRetryJob, DeleteRunning, EnqueueExistingJobs
<1>4. ASSUME NEW c \in Clients, ClientStep(c) PROVE SweepsApart'
  <2>c. c \in Actors /\ c \notin Jobs BY <1>t
  <2>1. CASE ClearLists(c)
    <3>1. \A j \in Jobs : thr[j].pc = "idle" BY <2>1, <1>t, Apart DEF ClearLists, MayOverlap, Busy
    <3>2. UNCHANGED <<plan, thr, sweep>> BY <2>1 DEF ClearLists
    <3> QED BY <3>1, <3>2, <1>t, <1>s DEF SweepFits
  <2>2. CASE ClearRows(c)
    <3>1. \A d \in Clients : clear'[d].on => clear[d].on BY <2>2, <1>t DEF ClearRows, NoClear
    <3>2. UNCHANGED <<plan, thr, sweep>> BY <2>2 DEF ClearRows
    <3> QED BY <3>1, <3>2, <1>t, <1>s DEF SweepFits
  <2>3. CASE Sweeping(c)
    <3>1. /\ plan' = plan /\ clear' = clear /\ \A b \in Actors \ {c} : sweep'[b] = sweep[b]
          /\ sweep'[c].step # "none" =>
               /\ thr' = thr /\ sweep'[c].job = sweep[c].job /\ sweep[c].step # "none"
               /\ sweep'[c].target \subseteq plan[sweep[c].job].dirs \X Names
      BY <2>3, <2>c, <1>t, SweepingFits
    <3>2. thr' = thr
      BY <2>3, <2>c DEF Sweeping, SweepPartials, SweepReference, SweepRemove, SweepRow
    <3>3. ASSUME NEW a \in Actors PROVE SweepFits(a)'
      <4>1. SweepFits(a) BY <1>t
      <4>2. CASE a = c BY <2>c, <3>1, <3>2, <4>1, <4>2 DEF SweepFits
      <4>3. CASE a # c BY <3>1, <3>2, <4>1, <4>3 DEF SweepFits
      <4> QED BY <4>2, <4>3
    <3> QED BY <3>1, <3>2, <3>3, <1>t, <1>s
  <2>4. ASSUME NEW j \in Jobs, DeleteIdle(c, j) PROVE SweepsApart'
    <3>1. thr[j].pc = "idle" /\ UNCHANGED <<plan, thr, clear>>
      BY <2>4, Apart DEF DeleteIdle, MayOverlap, Busy
    <3>2. /\ sweep'[c] = [step |-> "partials", job |-> j, target |-> {}]
          /\ \A b \in Actors \ {c} : sweep'[b] = sweep[b]
      BY <2>4, <2>c, <1>t DEF DeleteIdle
    <3>3. ASSUME NEW a \in Actors PROVE SweepFits(a)'
      <4>1. SweepFits(a) BY <1>t
      <4>2. CASE a = c BY <2>c, <3>1, <3>2, <4>2 DEF SweepFits
      <4>3. CASE a # c BY <3>1, <3>2, <4>1, <4>3 DEF SweepFits
      <4> QED BY <4>2, <4>3
    <3> QED BY <3>1, <3>3, <1>t, <1>s
  <2>5. ASSUME NEW j \in Jobs, ClearPartials(c, j) PROVE SweepsApart'
    <3>1. \A d \in Clients : clear'[d].on => clear[d].on
      <4>1. clear[c] \in [on : BOOLEAN, left : SUBSET Jobs] BY <1>t
      <4> QED BY <2>5, <4>1, <1>t DEF ClearPartials
    <3>2. UNCHANGED <<plan, thr, sweep>> BY <2>5 DEF ClearPartials
    <3> QED BY <3>1, <3>2, <1>t, <1>s DEF SweepFits
  <2> QED BY <1>4, <2>1, <2>2, <2>3, <2>4, <2>5 DEF ClientStep
<1>5. CASE Crash
  <2>1. /\ \A j \in Jobs : thr'[j].pc = "idle"
        /\ \A a \in Actors : sweep'[a].step = "none"
    BY <1>5 DEF Crash, Idle, NoSweep
  <2> QED BY <2>1, <1>s DEF SweepFits
<1>6. CASE UNCHANGED vars BY <1>0, <1>6 DEF vars
<1> QED BY <1>0, <1>1, <1>2, <1>3, <1>4, <1>5, <1>6, StepKinds

\* What a step of a thread does to the directories of the rows.
LEMMA ThreadDirs ==
  ASSUME Typed, Placed, NEW j \in Jobs, ThreadStep(j)
  PROVE  \A o \in Jobs : \/ row'[o].dir \in {row[o].dir, NoName}
                         \/ o = j /\ row'[o].dir = thr'[o].dir /\ thr'[o].pc = "entry"
<1>t. row \in [Jobs -> Row] /\ thr \in [Jobs -> Thread] BY DEF Typed
<1>0. CASE row' = row BY <1>0
<1>1. ASSUME NEW r, Update(j, r), r.dir = row[j].dir
      PROVE  \A o \in Jobs : row'[o].dir = row[o].dir
  BY <1>1, <1>t DEF Update
<1>2. PICK r \in Row : r = row[j] BY <1>t
<1>3. CASE RunJob(j) \/ Finish(j) \/ HandleControlStop(j) \/ (RunnerExcept(j) /\ row' # row)
  <2>1. ASSUME NEW s, Update(j, [row[j] EXCEPT !.status = s])
        PROVE  \A o \in Jobs : row'[o].dir = row[o].dir
    <3>1. [r EXCEPT !.status = s].dir = r.dir BY DEF Row
    <3> QED BY <1>1, <1>2, <2>1, <3>1
  <2>2. CASE RunJob(j) BY <1>0, <2>1, <2>2 DEF RunJob
  <2>3. CASE Finish(j) BY <2>1, <2>3 DEF Finish
  <2>4. CASE HandleControlStop(j) BY <2>1, <2>4 DEF HandleControlStop
  <2>5. CASE RunnerExcept(j) /\ row' # row BY <2>1, <2>5 DEF RunnerExcept
  <2> QED BY <1>3, <2>2, <2>3, <2>4, <2>5
<1>4. CASE GenericBegins(j) \/ AsmroneBegins(j) \/ CivitaiBegins(j) \/ HitomiBegins(j)
  <2>1. thr'[j].pc = "entry"
    BY <1>4, <1>t DEF GenericBegins, AsmroneBegins, CivitaiBegins, HitomiBegins, Begins, Thread
  <2>2. PICK d : d = thr'[j].dir OBVIOUS
  <2>3. /\ [r EXCEPT !.dir = d].dir = d /\ [r EXCEPT !.dir = d, !.regs = {}].dir = d
    BY DEF Row
  <2>4. Update(j, [r EXCEPT !.dir = d]) \/ Update(j, [r EXCEPT !.dir = d, !.regs = {}])
    BY <1>2, <1>4, <2>2 DEF GenericBegins, AsmroneBegins, CivitaiBegins, HitomiBegins, SetTarget,
       SetTargetAndMetadata
  <2> QED BY <1>t, <2>1, <2>2, <2>3, <2>4 DEF Update
<1>5. CASE RegisterAndOpen(j) \/ PreviewSaved(j)
  <2>1. PICK regs : regs = r.regs \cup {PartPath(j)} OBVIOUS
  <2>2. PICK n : n = thr[j].path[2] OBVIOUS
  <2>3. /\ [r EXCEPT !.regs = regs, !.file = n].dir = r.dir /\ [r EXCEPT !.regs = {}].dir = r.dir
    BY DEF Row
  <2>4. Update(j, [r EXCEPT !.regs = regs, !.file = n]) \/ Update(j, [r EXCEPT !.regs = {}])
    BY <1>2, <1>5, <2>1, <2>2 DEF RegisterAndOpen, PreviewSaved, Row
  <2> QED BY <1>1, <1>2, <2>3, <2>4
<1>6. CASE SweepRow(j) BY <1>6, <1>t DEF SweepRow, NoRow
<1>7. ASSUME NEW n, Update(j, [row[j] EXCEPT !.file = n])
      PROVE  \A o \in Jobs : row'[o].dir = row[o].dir
  <2>1. [r EXCEPT !.file = n].dir = r.dir BY DEF Row
  <2> QED BY <1>1, <1>2, <1>7, <2>1
<1> QED BY <1>0, <1>3, <1>4, <1>5, <1>6, <1>7, WhoWritesRows

\* A row names a directory of its plan, and outlives its thread.
LEMMA RowsPlacedStep ==
  ASSUME RemovalsApart, Typed, Placed, RowsPlaced, SweepsApart, [Next]_vars
  PROVE  RowsPlaced'
<1>t. /\ row \in [Jobs -> Row] /\ thr \in [Jobs -> Thread] /\ Jobs \cap Clients = {}
      /\ Actors = Jobs \cup Clients
  BY NoFileAssumption DEF Typed, Actors
<1>0. CASE UNCHANGED <<plan, row, thr>> BY <1>0 DEF RowsPlaced, Gone
<1> SUFFICES ASSUME NEW o \in Jobs
             PROVE  /\ row'[o].dir \in plan'[o].dirs \cup {NoName}
                    /\ thr'[o].pc # "idle" => row'[o].status # "gone"
  BY DEF RowsPlaced, Gone
<1>i. /\ row[o].dir \in plan[o].dirs \cup {NoName}
      /\ thr[o].pc # "idle" => row[o].status # "gone"
  BY DEF RowsPlaced, Gone
<1>1. ASSUME NEW j \in Jobs, ThreadStep(j)
      PROVE  /\ row'[o].dir \in plan'[o].dirs \cup {NoName}
             /\ thr'[o].pc # "idle" => row'[o].status # "gone"
  <2>1. plan' = plan /\ Placed' BY <1>1, WhoElse, ThreadTyped
  <2>2. row'[o].dir \in plan'[o].dirs \cup {NoName}
    <3>1. CASE row'[o].dir \in {row[o].dir, NoName} BY <1>i, <2>1, <3>1
    <3>2. CASE o = j /\ row'[o].dir = thr'[o].dir /\ thr'[o].pc = "entry"
      BY <2>1, <3>2 DEF Placed, PlaceFits
    <3> QED BY <1>1, <3>1, <3>2, ThreadDirs
  <2>3. thr[j].pc # "idle" BY <1>1, SweepsOnly
  <2>4. thr'[o].pc # "idle" => row'[o].status # "gone"
    <3>1. CASE SweepRow(j) /\ o = sweep[j].job
      <4>1. sweep[j].job = j BY <3>1, <1>t DEF SweepRow, SweepsApart
      <4>2. thr'[o].pc = "idle" BY <3>1, <4>1, <1>t DEF SweepRow, Idle
      <4> QED BY <4>2
    <3>2. CASE row'[o].status = row[o].status
      BY <1>i, <1>1, <2>3, <3>2, ThreadStatus
    <3> QED BY <1>1, <3>1, <3>2, ThreadStatus
  <2> QED BY <2>2, <2>4
<1>2. ASSUME NEW j \in Jobs, RunnerStart(j)
      PROVE  /\ row'[o].dir \in plan'[o].dirs \cup {NoName}
             /\ thr'[o].pc # "idle" => row'[o].status # "gone"
  BY <1>2, <1>i, <1>t DEF RunnerStart, Goto
<1>3. ASSUME NEW j \in Jobs, Request(j)
      PROVE  /\ row'[o].dir \in plan'[o].dirs \cup {NoName}
             /\ thr'[o].pc # "idle" => row'[o].status # "gone"
  <2>1. PICK r \in Row : r = row[j] BY <1>t
  <2>2. plan' = plan /\ thr' = thr
    BY <1>3 DEF Request, ApiPauseJob, ApiResumeOrRetryJob, DeleteRunning
  <2>3. PICK s \in Statuses \ {"gone"} : Update(j, [r EXCEPT !.status = s])
    BY <1>3, <2>1 DEF Request, ApiPauseJob, ApiResumeOrRetryJob, DeleteRunning, Statuses
  <2>4. [r EXCEPT !.status = s].dir = r.dir /\ [r EXCEPT !.status = s].status = s BY DEF Row
  <2>5. row'[o].dir = row[o].dir /\ (row[o].status # "gone" => row'[o].status # "gone")
    BY <1>t, <2>1, <2>3, <2>4 DEF Update, Gone
  <2> QED BY <1>i, <2>2, <2>5
<1>4. ASSUME NEW j \in Jobs, EnqueueExistingJobs(j)
      PROVE  /\ row'[o].dir \in plan'[o].dirs \cup {NoName}
             /\ thr'[o].pc # "idle" => row'[o].status # "gone"
  BY <1>4, <1>i, <1>t DEF EnqueueExistingJobs, NoRow
<1>5. ASSUME NEW c \in Clients, ClientStep(c)
      PROVE  /\ row'[o].dir \in plan'[o].dirs \cup {NoName}
             /\ thr'[o].pc # "idle" => row'[o].status # "gone"
  <2>1. thr' = thr /\ plan' = plan
    BY <1>5, <1>t DEF ClientStep, ClearLists, ClearRows, Sweeping, SweepPartials,
       SweepReference, SweepRemove, SweepRow, DeleteIdle, ClearPartials
  <2>2. CASE ClearRows(c)
    <3>1. \A j \in Jobs : thr[j].pc = "idle" BY <2>2 DEF ClearRows, SweepsApart
    <3> QED BY <1>i, <2>1, <2>2, <3>1 DEF ClearRows, NoRow
  <2>3. CASE SweepRow(c)
    <3>1. sweep[c].job \in Jobs /\ thr[sweep[c].job].pc = "idle"
      BY <2>3, <1>t DEF SweepRow, SweepsApart
    <3> QED BY <1>i, <1>t, <2>1, <2>3, <3>1 DEF SweepRow, NoRow
  <2>4. row' = row \/ ClearRows(c) \/ SweepRow(c)
    BY <1>5 DEF ClientStep, ClearLists, Sweeping, SweepPartials, SweepReference, SweepRemove,
       DeleteIdle, ClearPartials
  <2> QED BY <1>i, <2>1, <2>2, <2>3, <2>4
<1>6. CASE Crash
  <2>1. row'[o].dir = row[o].dir /\ plan' = plan /\ thr'[o].pc = "idle"
    <3>1. row[o] \in Row BY <1>t
    <3>2. PICK s : row'[o] = [row[o] EXCEPT !.status = s] BY <1>6 DEF Crash
    <3> QED BY <3>1, <3>2, <1>6 DEF Crash, Idle, Row
  <2> QED BY <1>i, <2>1
<1>7. CASE UNCHANGED vars BY <1>i, <1>7 DEF vars
<1> QED BY <1>1, <1>2, <1>3, <1>4, <1>5, <1>6, <1>7, StepKinds

\* A thread in its stream keeps its part.
LEMMA StreamKeepsPart ==
  ASSUME RemovalsApart, Typed, Placed, RowsPlaced, SweepsApart, [Next]_vars,
         NEW o \in Jobs, thr[o].pc \in FilePCs, ~ThreadStep(o), ~Crash
  PROVE  part'[PartPath(o)] = part[PartPath(o)]
<1>t. /\ part \in [PartKeys -> PartFile] /\ Actors = Jobs \cup Clients
      /\ PartPath(o) \in PartKeys /\ PartPath(o)[1] = o
      /\ PartPath(o)[2][1] \in plan[o].dirs
      /\ thr[o].pc \notin {"idle", "sweeping"}
  BY AtFile, AtEntry DEF Typed, PartFile, Actors, FilePCs
<1> PICK k \in PartKeys : k = PartPath(o) BY <1>t
<1>0. CASE part' = part BY <1>0
<1>1. ASSUME NEW K, \A x \in K : x[1] # o, part' = Without(K) PROVE part'[k] = part[k]
  BY <1>1, <1>t, WithoutUnlinks
<1>2. ASSUME NEW j \in Jobs, j # o, NEW target, target \subseteq plan[j].dirs \X Names,
             ByDirectory(j)
      PROVE  k[2] \notin target
  BY <1>2, <1>t, Apart
<1>3. ASSUME NEW j \in Jobs, ThreadStep(j) PROVE part'[k] = part[k]
  <2>1. j # o BY <1>3
  <2>2. CASE SweepPartials(j) /\ k[1] = sweep[j].job
    BY <1>t, <2>1, <2>2 DEF SweepPartials, SweepsApart
  <2>3. CASE SweepRemove(j) /\ ByDirectory(sweep[j].job) /\ k[2] \in sweep[j].target
    <3>1. sweep[j].job = j /\ sweep[j].target \subseteq plan[j].dirs \X Names
      BY <1>t, <2>3 DEF SweepRemove, SweepsApart
    <3> QED BY <1>2, <2>1, <2>3, <3>1
  <2> QED BY <1>3, <1>t, <2>1, <2>2, <2>3, ThreadParts
<1>4. ASSUME NEW c \in Clients, ClientStep(c) PROVE part'[k] = part[k]
  <2>1. CASE SweepPartials(c)
    <3>1. thr[sweep[c].job].pc = "idle"
      BY <2>1, <1>t, NoFileAssumption DEF SweepPartials, SweepsApart
    <3>2. \A x \in PartialsOf(sweep[c].job) : x[1] # o BY <1>t, <3>1 DEF PartialsOf
    <3> QED BY <1>1, <2>1, <3>2 DEF SweepPartials
  <2>2. CASE SweepRemove(c)
    <3>1. /\ thr[sweep[c].job].pc = "idle" /\ sweep[c].job \in Jobs
          /\ sweep[c].target \subseteq plan[sweep[c].job].dirs \X Names
      BY <2>2, <1>t, NoFileAssumption DEF SweepRemove, SweepsApart
    <3>2. ByDirectory(sweep[c].job) => k[2] \notin sweep[c].target BY <1>2, <1>t, <3>1
    <3> QED BY <2>2, <3>2, <1>t, RemoveLocalUnlinks DEF SweepRemove
  <2>3. ASSUME NEW j \in Jobs, ClearPartials(c, j) PROVE FALSE
    BY <2>3, <1>t DEF ClearPartials, SweepsApart
  <2>4. part' = part \/ SweepPartials(c) \/ SweepRemove(c) \/ \E j \in Jobs : ClearPartials(c, j)
    BY <1>4 DEF ClientStep, ClearLists, ClearRows, Sweeping, SweepReference, SweepRow, DeleteIdle,
       files
  <2> QED BY <1>0, <2>1, <2>2, <2>3, <2>4
<1>5. ASSUME NEW j \in Jobs, EnqueueExistingJobs(j) PROVE part'[k] = part[k]
  <2>1. j # o BY <1>5, <1>t DEF EnqueueExistingJobs
  <2> DEFINE target == IF IsReferenced(j) THEN {} ELSE LocalTarget(j)
  <2>2. Without(PartialsOf(j)) \in [PartKeys -> PartFile] BY <1>t DEF Without, PartFile
  <2>3. target \subseteq plan[j].dirs \X Names BY TargetTyped DEF RowsPlaced
  <2>4. RemoveLocal(j, target, Without(PartialsOf(j))) BY <1>5 DEF EnqueueExistingJobs
  <2> HIDE DEF target
  <2>5. ByDirectory(j) => k[2] \notin target BY <1>2, <2>1, <2>3
  <2>6. part'[k] = Without(PartialsOf(j))[k] BY <2>2, <2>4, <2>5, RemoveLocalUnlinks
  <2> QED BY <2>1, <2>6, <1>t DEF Without, PartialsOf
<1>6. ASSUME NEW j \in Jobs, RunnerStart(j) \/ Request(j) PROVE part' = part
  BY <1>6 DEF RunnerStart, Request, ApiPauseJob, ApiResumeOrRetryJob, DeleteRunning, files
<1>7. CASE UNCHANGED vars BY <1>0, <1>7 DEF vars
<1> QED BY <1>0, <1>3, <1>4, <1>5, <1>6, <1>7, StepKinds

\* Between the look at a part and its open nobody unlinks it.
LEMMA PartsStayStep ==
  ASSUME RemovalsApart, Typed, Placed, RowsPlaced, SweepsApart, PartsStay, [Next]_vars
  PROVE  PartsStay'
<1>t. thr \in [Jobs -> Thread] /\ plan' = plan
  <2>1. CASE UNCHANGED vars BY <2>1 DEF vars, Typed
  <2> QED BY <2>1, StepKinds, WhoElse, OtherSteps DEF Typed
<1> SUFFICES ASSUME NEW o \in Jobs, thr'[o].pc \in {"request", "open"}, thr'[o].existing # 0
             PROVE  part[PartPath(o)]' # NoFile
  BY DEF PartsStay
<1>1. CASE thr'[o] = thr[o] /\ ~ThreadStep(o)
  <2>1. PartPath(o)' = PartPath(o) BY <1>1, <1>t DEF PartPath, Url, Entry
  <2>2. ~Crash BY DEF Crash, Idle
  <2>3. part'[PartPath(o)] = part[PartPath(o)] BY <1>1, <2>2, StreamKeepsPart DEF FilePCs
  <2> QED BY <1>1, <2>1, <2>3 DEF PartsStay
<1>2. CASE ThreadStep(o)
  <2>1. CASE Stat(o)
    <3>1. thr'[o].existing = SizeOfPart(PartPath(o)) /\ part' = part
      BY <2>1, <1>t DEF Stat, files, Thread
    <3> QED BY <2>1, <3>1, SamePart DEF SizeOfPart
  <2>2. CASE PartialContent(o)
    <3>1. thr'[o].existing = thr[o].existing /\ part' = part /\ thr[o].pc = "request"
      BY <2>2, <1>t DEF PartialContent, Goto, files, Thread
    <3> QED BY <2>2, <3>1, SamePart DEF PartsStay
  <2>3. CASE FullContent(o) \/ Relock(o)
    <3>1. thr'[o].existing = 0
      BY <2>3, <1>t, ZenonT(60) DEF FullContent, Relock, Placed, PlaceFits, Thread
    <3> QED BY <3>1
  <2>4. CASE RegisterAndOpen(o) \/ ReadChunk(o) \/ BodyEnds(o)
    <3>1. thr'[o].pc \in {"read", "replace", "badurl"}
      BY <2>4, <1>t DEF RegisterAndOpen, ReadChunk, BodyEnds, Raises, Goto, Thread
    <3> QED BY <3>1
  <2>5. CASE thr'[o] = thr[o] /\ Sweeping(o)
    <3>1. sweep[o].step # "none"
      BY <2>5 DEF Sweeping, SweepPartials, SweepReference, SweepRemove, SweepRow
    <3> QED BY <2>5, <3>1 DEF SweepsApart, Actors
  <2> QED BY <1>2, <2>1, <2>2, <2>3, <2>4, <2>5, ArrivesAtPart
<1>3. thr'[o] = thr[o] \/ ThreadStep(o)
  <2>1. CASE UNCHANGED vars BY <2>1 DEF vars
  <2> QED BY <2>1, StepKinds, ThreadStatus, OtherSteps
<1> QED BY <1>1, <1>2, <1>3

(* Where removals and threads keep apart, every part stays under its       *)
(* thread, and every file under its final name is whole.                   *)
THEOREM FinalsAreWhole == ASSUME RemovalsApart PROVE Spec => []FinalWhole
<1>1. Init => RowsPlaced /\ SweepsApart /\ PartsStay
  BY DEF Init, RowsPlaced, SweepsApart, PartsStay, Idle, NoSweep, NoClear, NoRow
<1>2. Typed /\ Placed /\ RowsPlaced /\ SweepsApart /\ PartsStay /\ [Next]_vars
        => (RowsPlaced /\ SweepsApart /\ PartsStay)'
  BY RowsPlacedStep, SweepsApartStep, PartsStayStep
<1>3. Spec => []PartsStay
  BY <1>1, <1>2, TypedInit, KeepsTypes, PTL DEF Spec
<1> QED BY <1>3, FinalsStayWhole, PTL

-----------------------------------------------------------------------------
(* Every part file can be found.                                           *)

\* Only a thread that opens its part makes one.
LEMMA NewParts ==
  ASSUME Typed, Placed, [Next]_vars, NEW k \in PartKeys, part'[k] # NoFile
  PROVE  part[k] # NoFile \/ (RegisterAndOpen(k[1]) /\ k = PartPath(k[1]))
<1>t. part \in [PartKeys -> PartFile] BY DEF Typed, PartFile
<1>1. ASSUME NEW j \in Jobs, ThreadStep(j)
      PROVE  part[k] # NoFile \/ (RegisterAndOpen(k[1]) /\ k = PartPath(k[1]))
  <2>1. CASE Unlinked(k) BY <2>1 DEF Unlinked
  <2>2. CASE k = PartPath(j) /\ RegisterAndOpen(j)
    <3>1. PartPath(j)[1] = j BY <2>2, AtFile DEF RegisterAndOpen, FilePCs
    <3> QED BY <2>2, <3>1
  <2>3. CASE k = PartPath(j) /\ ReadChunk(j)
    BY <2>3, <1>t DEF ReadChunk
  <2> QED BY <1>1, <2>1, <2>2, <2>3, ThreadParts
<1>2. CASE UNCHANGED vars BY <1>2 DEF vars
<1> QED BY <1>1, <1>2, StepKinds, OtherSteps DEF Unlinked

\* What a step does to what a row tells of the parts of its job.
RowStays(o) ==
  row'[o].dir = row[o].dir /\ row'[o].regs = row[o].regs /\ (Gone(o)' <=> Gone(o))
RowTargets(o) ==
  /\ GenericBegins(o) \/ AsmroneBegins(o) \/ CivitaiBegins(o) \/ HitomiBegins(o)
  /\ ~Gone(o) /\ ~Gone(o)' /\ row'[o].dir = thr'[o].dir
  /\ row'[o].regs = IF ByDirectory(o) THEN {} ELSE row[o].regs
RowForgets(o) ==
  /\ thr[o].pc = "saved" /\ ByDirectory(o) /\ ~Gone(o) /\ ~Gone(o)'
  /\ row'[o].dir = row[o].dir /\ row'[o].regs = {}
RowRegisters(o) ==
  /\ RegisterAndOpen(o) /\ ~Gone(o) /\ ~Gone(o)'
  /\ row'[o].dir = row[o].dir /\ row'[o].regs = row[o].regs \cup {PartPath(o)}
RowRemoved(o) ==
  /\ row'[o] = NoRow
  /\ \/ \E a \in Actors : SweepRow(a) /\ o = sweep[a].job
     \/ EnqueueExistingJobs(o)
     \/ \E c \in Clients : ClearRows(c) /\ InactiveRow(o)

\* An UPDATE writes the one row, if it is there.
LEMMA UpdateWrites ==
  ASSUME Typed, NEW j \in Jobs, NEW r, Update(j, r)
  PROVE  /\ \A o \in Jobs \ {j} : RowStays(o)
         /\ IF Gone(j) THEN RowStays(j) ELSE row'[j] = r
BY DEF Typed, Update, RowStays, Gone

\* An UPDATE of other fields leaves what the row tells of parts.
LEMMA UpdateStays ==
  ASSUME Typed, NEW j \in Jobs, NEW r, Update(j, r), Gone(j) \/ r.status # "gone",
         r.dir = row[j].dir, r.regs = row[j].regs, NEW o \in Jobs
  PROVE  RowStays(o)
<1>1. CASE o # j \/ Gone(j) BY <1>1, UpdateWrites
<1>2. CASE o = j /\ ~Gone(j)
  <2>1. row'[j] = r BY <1>2, UpdateWrites
  <2> QED BY <1>2, <2>1 DEF RowStays, Gone
<1> QED BY <1>1, <1>2

\* A row that is there registers the part its thread opens.
LEMMA RegisterWrites ==
  ASSUME Typed, Placed, NEW j \in Jobs, RegisterAndOpen(j)
  PROVE  Gone(j) \/ (PartPath(j) \in row'[j].regs /\ ~Gone(j)')
<1>t. row \in [Jobs -> Row] BY DEF Typed
<1>1. PICK r \in Row : r = row[j] BY <1>t
<1>2. PICK regs : regs = r.regs \cup {PartPath(j)} OBVIOUS
<1>3. PICK n : n = thr[j].path[2] OBVIOUS
<1>4. PICK u : u = [r EXCEPT !.regs = regs, !.file = n] OBVIOUS
<1>5. u.status = r.status /\ u.regs = regs BY <1>4 DEF Row
<1>6. Update(j, u) BY <1>1, <1>2, <1>3, <1>4 DEF RegisterAndOpen, Row
<1> QED BY <1>1, <1>2, <1>5, <1>6, UpdateWrites DEF Gone

\* What a thread writes to its row, unless it deletes it.
LEMMA ThreadRowSteps ==
  ASSUME Typed, Placed, NEW j \in Jobs, ThreadStep(j), ~SweepRow(j), NEW o \in Jobs
  PROVE  RowStays(o) \/ RowTargets(o) \/ RowForgets(o) \/ RowRegisters(o)
<1>t. row \in [Jobs -> Row] /\ thr \in [Jobs -> Thread] /\ plan[j] \in Plan BY DEF Typed
<1>0. CASE row' = row BY <1>0 DEF RowStays, Gone
<1>1. PICK r \in Row : r = row[j] BY <1>t
<1>2. ASSUME NEW s \in Statuses \ {"gone"}, Update(j, [row[j] EXCEPT !.status = s])
      PROVE  RowStays(o)
  <2>1. PICK u : u = [r EXCEPT !.status = s] OBVIOUS
  <2>2. u.status = s /\ u.dir = r.dir /\ u.regs = r.regs BY <2>1 DEF Row
  <2> QED BY <1>1, <1>2, <2>1, <2>2, UpdateStays
<1>3. ASSUME NEW n, Update(j, [row[j] EXCEPT !.file = n]) PROVE RowStays(o)
  <2>1. PICK u : u = [r EXCEPT !.file = n] OBVIOUS
  <2>2. u.status = r.status /\ u.dir = r.dir /\ u.regs = r.regs BY <2>1 DEF Row
  <2> QED BY <1>1, <1>3, <2>1, <2>2, UpdateStays DEF Gone
<1>4. CASE RunJob(j) \/ Finish(j) \/ HandleControlStop(j) \/ (RunnerExcept(j) /\ row' # row)
  <2>1. thr[j].stop \in Statuses \ {"gone"} \/ thr[j].stop \in {"go", "deleted"}
    BY <1>t DEF Thread, Statuses
  <2>2. PlaceFits(thr[j], plan[j]) BY DEF Placed
  <2>3. CASE HandleControlStop(j)
    <3>1. thr[j].stop \in Statuses \ {"gone"}
      BY <2>1, <2>2, <2>3 DEF HandleControlStop, PlaceFits
    <3> QED BY <1>2, <2>3, <3>1 DEF HandleControlStop
  <2>4. CASE RunJob(j) BY <1>0, <1>2, <2>4 DEF RunJob, Statuses
  <2>5. CASE Finish(j) BY <1>2, <2>5 DEF Finish, Statuses
  <2>6. CASE RunnerExcept(j) /\ row' # row BY <1>2, <2>6 DEF RunnerExcept, Statuses
  <2> QED BY <1>4, <2>3, <2>4, <2>5, <2>6
<1>5. CASE GenericBegins(j) \/ AsmroneBegins(j) \/ CivitaiBegins(j) \/ HitomiBegins(j)
  <2>1. PICK d : d = thr'[j].dir OBVIOUS
  <2>2. CASE GenericBegins(j) \/ AsmroneBegins(j)
    <3>1. PICK u : u = [r EXCEPT !.dir = d] OBVIOUS
    <3>2. u.status = r.status /\ u.dir = d /\ u.regs = r.regs BY <3>1 DEF Row
    <3>3. Update(j, u) BY <1>1, <2>1, <2>2, <3>1 DEF GenericBegins, AsmroneBegins, SetTarget
    <3>4. ~ByDirectory(j) BY <2>2 DEF GenericBegins, AsmroneBegins, Begins, ByDirectory
    <3>5. CASE o = j /\ ~Gone(j)
      BY <1>1, <1>5, <2>1, <3>2, <3>3, <3>4, <3>5, UpdateWrites DEF RowTargets, Gone
    <3> QED BY <3>3, <3>5, UpdateWrites
  <2>3. CASE CivitaiBegins(j) \/ HitomiBegins(j)
    <3>1. PICK u : u = [r EXCEPT !.dir = d, !.regs = {}] OBVIOUS
    <3>2. u.status = r.status /\ u.dir = d /\ u.regs = {} BY <3>1 DEF Row
    <3>3. Update(j, u)
      BY <1>1, <2>1, <2>3, <3>1 DEF CivitaiBegins, HitomiBegins, SetTargetAndMetadata
    <3>4. ByDirectory(j) BY <2>3 DEF CivitaiBegins, HitomiBegins, Begins, ByDirectory
    <3>5. CASE o = j /\ ~Gone(j)
      BY <1>1, <1>5, <2>1, <3>2, <3>3, <3>4, <3>5, UpdateWrites DEF RowTargets, Gone
    <3> QED BY <3>3, <3>5, UpdateWrites
  <2> QED BY <1>5, <2>2, <2>3
<1>6. CASE RegisterAndOpen(j)
  <2>1. PICK regs : regs = r.regs \cup {PartPath(j)} OBVIOUS
  <2>2. PICK n : n = thr[j].path[2] OBVIOUS
  <2>3. PICK u : u = [r EXCEPT !.regs = regs, !.file = n] OBVIOUS
  <2>4. u.status = r.status /\ u.dir = r.dir /\ u.regs = regs BY <2>3 DEF Row
  <2>5. Update(j, u) BY <1>1, <1>6, <2>1, <2>2, <2>3 DEF RegisterAndOpen, Row
  <2>6. CASE o = j /\ ~Gone(j)
    BY <1>1, <1>6, <2>1, <2>4, <2>5, <2>6, UpdateWrites DEF RowRegisters, Gone
  <2> QED BY <2>5, <2>6, UpdateWrites
<1>7. CASE PreviewSaved(j)
  <2>1. PICK u : u = [r EXCEPT !.regs = {}] OBVIOUS
  <2>2. u.status = r.status /\ u.dir = r.dir /\ u.regs = {} BY <2>1 DEF Row
  <2>3. Update(j, u) /\ ByDirectory(j) /\ thr[j].pc = "saved"
    BY <1>1, <1>7, <2>1 DEF PreviewSaved, SavedEntry, ByDirectory
  <2>4. CASE o = j /\ ~Gone(j) BY <1>1, <2>2, <2>3, <2>4, UpdateWrites DEF RowForgets, Gone
  <2> QED BY <2>3, <2>4, UpdateWrites
<1> QED BY <1>0, <1>3, <1>4, <1>5, <1>6, <1>7, WhoWritesRows

\* What any step does to a row.
LEMMA RowSteps ==
  ASSUME Typed, Placed, [Next]_vars, NEW o \in Jobs
  PROVE  RowStays(o) \/ RowTargets(o) \/ RowForgets(o) \/ RowRegisters(o) \/ RowRemoved(o)
<1>t. row \in [Jobs -> Row] /\ Actors = Jobs \cup Clients BY DEF Typed, Actors
<1>0. ASSUME row'[o] = row[o] PROVE RowStays(o) BY <1>0 DEF RowStays, Gone
<1>1. ASSUME NEW a \in Actors, SweepRow(a) PROVE RowStays(o) \/ RowRemoved(o)
  BY <1>0, <1>1, <1>t DEF SweepRow, RowRemoved
<1>2. ASSUME NEW j \in Jobs, ThreadStep(j)
      PROVE  RowStays(o) \/ RowTargets(o) \/ RowForgets(o) \/ RowRegisters(o) \/ RowRemoved(o)
  BY <1>1, <1>2, <1>t, ThreadRowSteps
<1>3. ASSUME NEW j \in Jobs, Request(j) PROVE RowStays(o)
  <2>1. PICK r \in Row : r = row[j] BY <1>t
  <2>2. PICK s \in Statuses \ {"gone"} : Update(j, [r EXCEPT !.status = s])
    BY <1>3, <2>1 DEF Request, ApiPauseJob, ApiResumeOrRetryJob, DeleteRunning, Statuses
  <2>3. PICK u : u = [r EXCEPT !.status = s] OBVIOUS
  <2>4. u.status = s /\ u.dir = r.dir /\ u.regs = r.regs BY <2>3 DEF Row
  <2> QED BY <2>1, <2>2, <2>3, <2>4, UpdateStays
<1>4. ASSUME NEW j \in Jobs, RunnerStart(j) \/ EnqueueExistingJobs(j)
      PROVE  RowStays(o) \/ RowRemoved(o)
  BY <1>0, <1>4, <1>t DEF RunnerStart, EnqueueExistingJobs, RowRemoved
<1>5. ASSUME NEW c \in Clients, ClientStep(c) PROVE RowStays(o) \/ RowRemoved(o)
  <2>1. CASE ClearRows(c) BY <1>0, <2>1 DEF ClearRows, RowRemoved
  <2>2. row' = row \/ ClearRows(c) \/ SweepRow(c)
    BY <1>5 DEF ClientStep, ClearLists, Sweeping, SweepPartials, SweepReference, SweepRemove,
       DeleteIdle, ClearPartials
  <2> QED BY <1>0, <1>1, <1>t, <2>1, <2>2
<1>6. CASE Crash
  <2>1. PICK r \in Row : r = row[o] BY <1>t
  <2>2. PICK s : /\ row'[o] = [r EXCEPT !.status = s]
                 /\ s \in {r.status, "queued", "paused", "canceled"} /\ (s = r.status \/ ~Gone(o))
    BY <1>6, <2>1 DEF Crash, Gone
  <2>3. row'[o].status = s /\ row'[o].dir = r.dir /\ row'[o].regs = r.regs BY <2>2 DEF Row
  <2> QED BY <2>1, <2>2, <2>3 DEF RowStays, Gone
<1>7. CASE UNCHANGED vars BY <1>0, <1>7 DEF vars
<1> QED BY <1>2, <1>3, <1>4, <1>5, <1>6, <1>7, StepKinds

\* What a removed or an idle thread's row cannot be told.
LEMMA WriterIsBusy ==
  ASSUME NEW o, RowTargets(o) \/ RowForgets(o) \/ RowRegisters(o)
  PROVE  thr[o].pc \in {"manifest", "saved", "open"}
BY DEF RowTargets, RowForgets, RowRegisters, RegisterAndOpen, GenericBegins, AsmroneBegins,
   CivitaiBegins, HitomiBegins, Begins

\* A thread is busy, and does nothing else while it removes its job's files.
LEMMA SweeperSweeps ==
  ASSUME Typed, RemovalsSeen, NEW j \in Jobs, ThreadStep(j)
  PROVE  thr[j].pc # "idle" /\ (thr[j].pc = "sweeping" => Sweeping(j))
<1>1. Sweeping(j) => sweep[j].step # "none"
  BY DEF Sweeping, SweepPartials, SweepReference, SweepRemove, SweepRow
<1>2. CASE Sweeping(j) BY <1>1, <1>2 DEF RemovalsSeen
<1>3. CASE ~Sweeping(j)
  <2>1. thr[j].pc \notin {"idle", "sweeping"} BY <1>3, BusyThreads
  <2> QED BY <2>1
<1> QED BY <1>2, <1>3

\* A removal stays that of its job.
LEMMA SweepsOneJob ==
  ASSUME Typed, NEW a \in Actors, Sweeping(a)
  PROVE  /\ \A b \in Actors \ {a} : sweep'[b] = sweep[b]
         /\ sweep[a].step # "none"
         /\ sweep'[a].step # "none" => sweep'[a].job = sweep[a].job /\ thr' = thr
<1>t. sweep \in [Actors -> Sweep] BY DEF Typed
<1>1. CASE SweepPartials(a) BY <1>1, <1>t DEF SweepPartials, Step, Sweep
<1>2. CASE SweepReference(a)
  <2>1. PICK step, target :
          /\ sweep' = [sweep EXCEPT ![a].step = step, ![a].target = target]
          /\ sweep[a].step = "reference" /\ thr' = thr
    BY <1>2 DEF SweepReference
  <2> QED BY <2>1, <1>t DEF Sweep
<1>3. CASE SweepRemove(a) BY <1>3, <1>t DEF SweepRemove, Step, Sweep
<1>4. CASE SweepRow(a) BY <1>4, <1>t DEF SweepRow, NoSweep
<1> QED BY <1>1, <1>2, <1>3, <1>4 DEF Sweeping

\* A thread that runs when its row goes was on record.
LEMMA OutlivesRow ==
  ASSUME Typed, Placed, RemovalsSeen, [Next]_vars, NEW o \in Jobs,
         RowRemoved(o), thr[o].pc # "idle"
  PROVE  o \in beside \/ thr'[o].pc = "idle"
<1>t. Actors = Jobs \cup Clients /\ thr \in [Jobs -> Thread] BY DEF Actors, Typed
<1>1. ASSUME NEW a \in Actors, SweepRow(a), o = sweep[a].job
      PROVE  o \in beside \/ thr'[o].pc = "idle"
  <2>1. CASE a \in Jobs
    <3>1. o = a BY <1>1, <2>1 DEF SweepRow, RemovalsSeen
    <3> QED BY <1>1, <1>t, <3>1 DEF SweepRow, Idle
  <2>2. CASE a \in Clients BY <1>1, <2>2 DEF SweepRow, RemovalsSeen
  <2> QED BY <1>t, <2>1, <2>2
<1>2. ~EnqueueExistingJobs(o) BY DEF EnqueueExistingJobs
<1>3. ASSUME NEW c \in Clients, ClearRows(c) PROVE o \in beside
  BY <1>3 DEF ClearRows, RemovalsSeen
<1> QED BY <1>1, <1>2, <1>3 DEF RowRemoved

\* A thread that starts finds its row queued.
LEMMA ThreadStarts ==
  ASSUME Typed, Placed, RemovalsSeen, [Next]_vars, NEW o \in Jobs,
         thr[o].pc = "idle", thr'[o].pc # "idle"
  PROVE  RunnerStart(o)
<1>t. thr \in [Jobs -> Thread] BY DEF Typed
<1>1. ASSUME NEW j \in Jobs, ThreadStep(j) PROVE FALSE
  <2>1. o # j BY <1>1, SweeperSweeps
  <2> QED BY <1>1, <2>1, ThreadStatus
<1>2. ASSUME NEW j \in Jobs, Request(j) \/ EnqueueExistingJobs(j) PROVE FALSE
  BY <1>2 DEF Request, ApiPauseJob, ApiResumeOrRetryJob, DeleteRunning, EnqueueExistingJobs
<1>3. ASSUME NEW c \in Clients, ClientStep(c) PROVE FALSE
  BY <1>3, NoFileAssumption DEF ClientStep, ClearLists, ClearRows, Sweeping, SweepPartials,
     SweepReference, SweepRemove, SweepRow, DeleteIdle, ClearPartials
<1>4. ~Crash BY DEF Crash, Idle
<1>5. CASE UNCHANGED vars BY <1>5 DEF vars
<1>6. ASSUME NEW j \in Jobs, RunnerStart(j) PROVE RunnerStart(o)
  BY <1>6, <1>t DEF RunnerStart, Goto
<1> QED BY <1>1, <1>2, <1>3, <1>4, <1>5, <1>6, StepKinds

\* A removal by a request of job o, or of every idle one.
RemovedBy(c, o) == (sweep[c].step # "none" /\ sweep[c].job = o) \/ clear[c].on

\* A request's removal begins with the busy jobs on record.
LEMMA RemovalsBegin ==
  ASSUME Typed, Placed, RemovalsSeen, [Next]_vars, ~Crash, NEW c \in Clients, NEW o \in Jobs,
         RemovedBy(c, o)', ~RemovedBy(c, o)
  PROVE  thr' = thr /\ (thr[o].pc # "idle" => o \in beside')
<1>t. /\ sweep \in [Actors -> Sweep] /\ Actors = Jobs \cup Clients /\ Jobs \cap Clients = {}
      /\ clear \in [Clients -> [on : BOOLEAN, left : SUBSET Jobs]]
  BY NoFileAssumption DEF Typed, Actors
<1>1. ASSUME NEW j \in Jobs, ThreadStep(j) PROVE FALSE
  <2>1. clear' = clear BY <1>1, WhoElse
  <2>2. sweep'[c] = sweep[c]
    <3>1. CASE Sweeping(j) BY <1>t, <3>1, SweepsOneJob
    <3>2. CASE HandleDeleted(j) BY <1>t, <3>2 DEF HandleDeleted
    <3> QED BY <1>1, <3>1, <3>2, WhoElse
  <2> QED BY <2>1, <2>2 DEF RemovedBy
<1>2. ASSUME NEW j \in Jobs, RunnerStart(j) \/ Request(j) \/ EnqueueExistingJobs(j) PROVE FALSE
  BY <1>2 DEF RunnerStart, Request, ApiPauseJob, ApiResumeOrRetryJob, DeleteRunning,
     EnqueueExistingJobs, RemovedBy
<1>3. ASSUME NEW d \in Clients, ClientStep(d)
      PROVE  thr' = thr /\ (thr[o].pc # "idle" => o \in beside')
  <2>1. CASE ClearLists(d) BY <2>1 DEF ClearLists, Busy
  <2>2. CASE ClearRows(d) BY <1>t, <2>2 DEF ClearRows, NoClear, RemovedBy
  <2>3. CASE Sweeping(d)
    <3>1. clear' = clear
      BY <2>3 DEF Sweeping, SweepPartials, SweepReference, SweepRemove, SweepRow
    <3>2. CASE c = d BY <1>t, <2>3, <3>1, <3>2, SweepsOneJob DEF RemovedBy
    <3>3. CASE c # d BY <1>t, <2>3, <3>1, <3>3, SweepsOneJob DEF RemovedBy
    <3> QED BY <3>2, <3>3
  <2>4. ASSUME NEW j \in Jobs, DeleteIdle(d, j)
        PROVE  thr' = thr /\ (thr[o].pc # "idle" => o \in beside')
    <3>1. thr' = thr /\ clear' = clear /\ beside' = beside \cup ({j} \cap Busy)
      BY <2>4 DEF DeleteIdle
    <3>2. o = j
      <4>1. /\ sweep'[d] = [step |-> "partials", job |-> j, target |-> {}]
            /\ \A b \in Actors \ {d} : sweep'[b] = sweep[b]
        BY <1>t, <2>4 DEF DeleteIdle
      <4> QED BY <1>t, <3>1, <4>1 DEF RemovedBy
    <3> QED BY <3>1, <3>2 DEF Busy
  <2>5. ASSUME NEW j \in Jobs, ClearPartials(d, j) PROVE FALSE
    <3>1. sweep' = sweep /\ \A e \in Clients : clear'[e].on = clear[e].on
      BY <1>t, <2>5 DEF ClearPartials
    <3> QED BY <3>1 DEF RemovedBy
  <2> QED BY <1>3, <2>1, <2>2, <2>3, <2>4, <2>5 DEF ClientStep
<1>4. CASE UNCHANGED vars BY <1>4 DEF vars, RemovedBy
<1> QED BY <1>1, <1>2, <1>3, <1>4, StepKinds

\* The removals stay on record.
LEMMA RemovalsSeenStep ==
  ASSUME Typed, Placed, RemovalsSeen, [Next]_vars PROVE RemovalsSeen'
<1>t. /\ sweep \in [Actors -> Sweep] /\ Actors = Jobs \cup Clients /\ Jobs \cap Clients = {}
      /\ thr \in [Jobs -> Thread] /\ row \in [Jobs -> Row] /\ beside \subseteq beside'
  BY NoFileAssumption, BesideGrows DEF Typed, Actors
<1>1. ASSUME NEW o \in Jobs, sweep'[o].step # "none"
      PROVE  sweep'[o].job = o /\ thr'[o].pc = "sweeping"
  <2>0. CASE sweep'[o] = sweep[o] /\ thr'[o] = thr[o] BY <1>1, <2>0 DEF RemovalsSeen
  <2>1. ASSUME NEW j \in Jobs, ThreadStep(j)
        PROVE  sweep'[o].job = o /\ thr'[o].pc = "sweeping"
    <3>1. CASE Sweeping(j)
      <4>1. CASE o = j BY <1>1, <1>t, <3>1, <4>1, SweepsOneJob DEF RemovalsSeen
      <4>2. CASE o # j BY <1>t, <2>0, <2>1, <3>1, <4>2, SweepsOneJob, ThreadStatus
      <4> QED BY <4>1, <4>2
    <3>2. CASE HandleDeleted(j)
      <4>1. /\ sweep'[j] = [step |-> "partials", job |-> j, target |-> {}]
            /\ \A b \in Actors \ {j} : sweep'[b] = sweep[b]
        BY <1>t, <3>2 DEF HandleDeleted
      <4>2. thr'[j].pc = "sweeping" BY <1>t, <3>2 DEF HandleDeleted, Goto, Thread
      <4> QED BY <1>t, <2>0, <2>1, <4>1, <4>2, ThreadStatus
    <3>3. CASE sweep' = sweep /\ ~Sweeping(j)
      <4>1. o # j BY <1>1, <2>1, <3>3, SweeperSweeps DEF RemovalsSeen
      <4> QED BY <2>0, <2>1, <3>3, <4>1, ThreadStatus
    <3> QED BY <2>1, <3>1, <3>2, <3>3, WhoElse
  <2>2. ASSUME NEW j \in Jobs, RunnerStart(j)
        PROVE  sweep'[o].job = o /\ thr'[o].pc = "sweeping"
    <3>1. thr[j].pc = "idle" /\ sweep' = sweep BY <2>2 DEF RunnerStart
    <3>2. o # j BY <1>1, <3>1 DEF RemovalsSeen
    <3> QED BY <1>t, <2>0, <2>2, <3>1, <3>2 DEF RunnerStart, Goto
  <2>3. ASSUME NEW j \in Jobs, Request(j) \/ EnqueueExistingJobs(j)
        PROVE  sweep'[o].job = o /\ thr'[o].pc = "sweeping"
    BY <2>0, <2>3 DEF Request, ApiPauseJob, ApiResumeOrRetryJob, DeleteRunning,
       EnqueueExistingJobs
  <2>4. ASSUME NEW c \in Clients, ClientStep(c)
        PROVE  sweep'[o].job = o /\ thr'[o].pc = "sweeping"
    <3>1. thr' = thr
      BY <1>t, <2>4 DEF ClientStep, ClearLists, ClearRows, Sweeping, SweepPartials,
         SweepReference, SweepRemove, SweepRow, DeleteIdle, ClearPartials
    <3>2. CASE Sweeping(c) BY <1>t, <2>0, <3>1, <3>2, SweepsOneJob
    <3>3. CASE ~Sweeping(c)
      BY <1>t, <2>0, <2>4, <3>1, <3>3 DEF ClientStep, ClearLists, ClearRows, DeleteIdle,
         ClearPartials
    <3> QED BY <3>2, <3>3
  <2>5. ~Crash BY <1>1 DEF Crash, NoSweep, Actors
  <2>6. CASE UNCHANGED vars BY <2>0, <2>6 DEF vars
  <2> QED BY <2>1, <2>2, <2>3, <2>4, <2>5, <2>6, StepKinds
<1>2. ASSUME NEW c \in Clients, NEW o \in Jobs, RemovedBy(c, o)'
      PROVE  o \in beside' \/ thr'[o].pc = "idle"
  <2>1. ~Crash BY <1>2 DEF Crash, NoSweep, NoClear, RemovedBy, Actors
  <2>2. CASE ~RemovedBy(c, o) BY <1>2, <2>1, <2>2, RemovalsBegin
  <2>3. CASE RemovedBy(c, o)
    <3>1. o \in beside \/ thr[o].pc = "idle" BY <2>3 DEF RemovalsSeen, RemovedBy
    <3>2. CASE thr[o].pc = "idle" /\ thr'[o].pc # "idle"
      <4>1. RunnerStart(o) BY <3>2, ThreadStarts
      <4>2. Removed(o) BY <2>3 DEF Removed, RemovedBy
      <4> QED BY <4>1, <4>2 DEF RunnerStart
    <3> QED BY <1>t, <3>1, <3>2
  <2> QED BY <2>2, <2>3
<1>3. ASSUME NEW o \in Jobs, thr'[o].pc # "idle", Gone(o)' PROVE o \in beside'
  <2>1. CASE thr[o].pc = "idle"
    <3>1. RunnerStart(o) BY <1>3, <2>1, ThreadStarts
    <3> QED BY <1>3, <3>1 DEF RunnerStart, Gone
  <2>2. CASE thr[o].pc # "idle" /\ Gone(o) BY <1>t, <2>2 DEF RemovalsSeen
  <2>3. CASE thr[o].pc # "idle" /\ RowRemoved(o) BY <1>3, <1>t, <2>3, OutlivesRow
  <2> QED BY <1>3, <2>1, <2>2, <2>3, RowSteps DEF RowStays, RowTargets, RowForgets, RowRegisters
<1> QED BY <1>1, <1>2, <1>3 DEF RemovalsSeen, RemovedBy

\* A thread stays in the directory it has begun with.
LEMMA DirectoryStays ==
  ASSUME Typed, Placed, [Next]_vars, NEW o \in Jobs,
         thr[o].pc \in {"entry"} \cup FilePCs, thr'[o].pc \in {"entry"} \cup FilePCs
  PROVE  thr'[o].dir = thr[o].dir
<1>t. thr \in [Jobs -> Thread] BY DEF Typed
<1>1. CASE ThreadStep(o)
  <2>1. CASE \/ StreamBegins(o) \/ Acquire(o) \/ Stat(o) \/ StopsInStream(o)
             \/ RequestFails(o) \/ RangeNotSatisfiable(o) \/ PartialContent(o)
             \/ FullContent(o) \/ Relock(o) \/ RegisterAndOpen(o) \/ ReadChunk(o) \/ BodyEnds(o)
             \/ Replace(o) \/ FinalSize(o) \/ TryNextUrl(o) \/ RequiredFails(o)
    BY <1>t, <2>1 DEF StreamBegins, Acquire, Stat, StopsInStream, RequestFails,
       RangeNotSatisfiable, PartialContent, FullContent, Relock, RegisterAndOpen, ReadChunk,
       BodyEnds, Replace, FinalSize, TryNextUrl, RequiredFails, Raises, Goto, Thread
  <2>2. ASSUME NEW gain, NextEntry(o, gain) PROVE thr'[o].dir = thr[o].dir
    BY <1>t, <2>2 DEF NextEntry, Thread
  <2>3. CASE \/ TrackFails(o) \/ CoverFails(o) \/ PreviewFails(o) \/ GenericSaved(o)
             \/ PageSaved(o) \/ ModelFileSaved(o) \/ TrackSaved(o) \/ CoverSaved(o)
             \/ PreviewSaved(o) \/ ValidationRejects(o)
    BY <2>2, <2>3 DEF TrackFails, CoverFails, PreviewFails, GenericSaved, PageSaved,
       ModelFileSaved, TrackSaved, CoverSaved, PreviewSaved, ValidationRejects, NameOfSaved
  <2>4. CASE KeepsExisting(o) BY <1>t, <2>4 DEF KeepsExisting, Thread
  <2>5. CASE \/ RunJob(o) \/ FetchJsonFails(o) \/ GenericBegins(o) \/ AsmroneBegins(o)
             \/ CivitaiBegins(o) \/ HitomiBegins(o) \/ RunnerExcept(o)
             \/ HandleControlStop(o) \/ HandleDeleted(o)
    BY <2>5 DEF RunJob, FetchJsonFails, GenericBegins, AsmroneBegins, CivitaiBegins,
       HitomiBegins, Begins, RunnerExcept, HandleControlStop, HandleDeleted, FilePCs
  <2>6. CASE StopsBetweenStreams(o) \/ NothingSaved(o) \/ Finish(o)
    BY <1>t, <2>6 DEF StopsBetweenStreams, NothingSaved, Finish, Goto, Idle, FilePCs, Thread
  <2>7. CASE Sweeping(o)
    BY <1>t, <2>7 DEF Sweeping, SweepPartials, SweepReference, SweepRemove, SweepRow, Idle,
       FilePCs
  <2> QED BY <1>1, <2>1, <2>3, <2>4, <2>5, <2>6, <2>7 DEF ThreadStep
<1>2. CASE ~ThreadStep(o)
  <2>1. thr'[o] = thr[o] \/ thr'[o].pc \in {"idle", "begin"}
    <3>1. CASE UNCHANGED vars BY <3>1 DEF vars
    <3> QED BY <1>2, <3>1, StepKinds, ThreadStatus, OtherSteps
  <2> QED BY <2>1 DEF FilePCs
<1> QED BY <1>1, <1>2

\* A thread comes to its entries by the beginning of its handler.
LEMMA LeavesManifest ==
  ASSUME Typed, NEW j \in Jobs, ThreadStep(j), thr[j].pc \notin {"entry"} \cup FilePCs,
         thr'[j].pc \in {"entry"} \cup FilePCs
  PROVE  GenericBegins(j) \/ AsmroneBegins(j) \/ CivitaiBegins(j) \/ HitomiBegins(j)
<1>t. thr \in [Jobs -> Thread] BY DEF Typed
<1>1. \/ RunJob(j) \/ StopsBetweenStreams(j) \/ FetchJsonFails(j) \/ RunnerExcept(j)
      \/ HandleControlStop(j) \/ HandleDeleted(j) \/ Sweeping(j)
      \/ GenericBegins(j) \/ AsmroneBegins(j) \/ CivitaiBegins(j) \/ HitomiBegins(j)
  BY DEF ThreadStep, KeepsExisting, StreamBegins, Acquire, Stat, RequestFails,
     RangeNotSatisfiable, PartialContent, BodyEnds, FinalSize, TryNextUrl, RequiredFails, TrackFails,
     CoverFails, PreviewFails, GenericSaved, PageSaved, ModelFileSaved, TrackSaved, CoverSaved,
     PreviewSaved, ValidationRejects, NothingSaved, Finish, StopsInStream, FullContent,
     Relock, RegisterAndOpen, ReadChunk, Replace, Kept, AllEntriesTried, SavedEntry, FailedEntry,
     FilePCs
<1>2. CASE \/ RunJob(j) \/ StopsBetweenStreams(j) \/ FetchJsonFails(j) \/ RunnerExcept(j)
           \/ HandleControlStop(j) \/ HandleDeleted(j) \/ Sweeping(j)
  BY <1>2, <1>t DEF RunJob, StopsBetweenStreams, FetchJsonFails, RunnerExcept, HandleControlStop,
     HandleDeleted, Sweeping, SweepPartials, SweepReference, SweepRemove, SweepRow, Goto, Idle,
     FilePCs, Thread
<1> QED BY <1>1, <1>2

\* What the rows know of the parts stays true.
LEMMA RowsKnowStep ==
  ASSUME Typed, Placed, RowsKnow, [Next]_vars PROVE RowsKnow'
<1>t. thr \in [Jobs -> Thread] /\ row \in [Jobs -> Row] BY DEF Typed
<1>p. plan' = plan
  <2>1. CASE UNCHANGED vars BY <2>1 DEF vars
  <2> QED BY <2>1, StepKinds, WhoElse, OtherSteps
<1>1. ASSUME NEW o \in Jobs, thr'[o].pc \in {"entry"} \cup FilePCs, ~Gone(o)'
      PROVE  row'[o].dir = thr'[o].dir
  <2>1. CASE thr[o].pc \in {"entry"} \cup FilePCs
    <3>1. thr'[o].dir = thr[o].dir BY <1>1, <2>1, DirectoryStays
    <3>2. ~RowRemoved(o) BY <1>1 DEF RowRemoved, NoRow, Gone
    <3>3. ~Gone(o) /\ (row'[o].dir = row[o].dir \/ row'[o].dir = thr'[o].dir)
      BY <1>1, <3>2, RowSteps DEF RowStays, RowTargets, RowForgets, RowRegisters
    <3> QED BY <2>1, <3>1, <3>3 DEF RowsKnow
  <2>2. CASE thr[o].pc \notin {"entry"} \cup FilePCs
    <3>1. thr'[o] # thr[o] /\ thr'[o].pc \notin {"idle", "begin"} BY <1>1, <2>2 DEF FilePCs
    <3>2. ThreadStep(o)
      <4>1. CASE UNCHANGED vars BY <3>1, <4>1 DEF vars
      <4> QED BY <3>1, <4>1, StepKinds, ThreadStatus, OtherSteps
    <3>3. GenericBegins(o) \/ AsmroneBegins(o) \/ CivitaiBegins(o) \/ HitomiBegins(o)
      BY <1>1, <2>2, <3>2, LeavesManifest
    <3>4. PICK d : d = thr'[o].dir OBVIOUS
    <3>5. PICK r \in Row : r = row[o] BY <1>t
    <3>6. /\ [r EXCEPT !.dir = d].dir = d /\ [r EXCEPT !.dir = d, !.regs = {}].dir = d
      BY DEF Row
    <3>7. Update(o, [r EXCEPT !.dir = d]) \/ Update(o, [r EXCEPT !.dir = d, !.regs = {}])
      BY <3>3, <3>4, <3>5 DEF GenericBegins, AsmroneBegins, CivitaiBegins, HitomiBegins,
         SetTarget, SetTargetAndMetadata
    <3>8. ~Gone(o) BY <1>1, <1>t, <3>7 DEF Update, Gone
    <3> QED BY <1>t, <3>4, <3>6, <3>7, <3>8 DEF Update
  <2> QED BY <2>1, <2>2
<1>2. ASSUME NEW o \in Jobs, ByDirectory(o)', NEW k \in row'[o].regs
      PROVE  k[2][1] = row'[o].dir
  <2>1. ByDirectory(o) BY <1>2, <1>p DEF ByDirectory
  <2>2. CASE RowStays(o) BY <1>2, <2>1, <2>2 DEF RowStays, RowsKnow
  <2>3. ~RowTargets(o) /\ ~RowForgets(o) /\ ~RowRemoved(o)
    BY <1>2, <2>1 DEF RowTargets, RowForgets, RowRemoved, NoRow
  <2>4. CASE RowRegisters(o)
    <3>1. thr[o].pc = "open" /\ ~Gone(o) BY <2>4 DEF RowRegisters, RegisterAndOpen
    <3>2. PartPath(o)[2][1] = thr[o].dir /\ row[o].dir = thr[o].dir
      BY <3>1, AtFile DEF FilePCs, RowsKnow
    <3>3. CASE k \in row[o].regs BY <2>1, <2>4, <3>3 DEF RowRegisters, RowsKnow
    <3>4. CASE k = PartPath(o) BY <2>4, <3>2, <3>4 DEF RowRegisters
    <3> QED BY <1>2, <2>4, <3>3, <3>4 DEF RowRegisters
  <2> QED BY <2>2, <2>3, <2>4, RowSteps
<1>3. ASSUME NEW k \in PartKeys, part'[k] # NoFile, ~ByDirectory(k[1])', ~Gone(k[1])'
      PROVE  k \in row'[k[1]].regs
  <2>1. k[1] \in Jobs /\ ~ByDirectory(k[1]) BY <1>3, <1>p DEF PartKeys, ByDirectory
  <2>2. ~RowRemoved(k[1]) BY <1>3 DEF RowRemoved, NoRow, Gone
  <2>3. ~Gone(k[1]) /\ row[k[1]].regs \subseteq row'[k[1]].regs
    BY <1>3, <2>1, <2>2, RowSteps DEF RowStays, RowTargets, RowForgets, RowRegisters
  <2>4. CASE part[k] # NoFile BY <2>1, <2>3, <2>4 DEF RowsKnow
  <2>5. CASE RegisterAndOpen(k[1]) /\ k = PartPath(k[1]) BY <2>1, <2>3, <2>5, RegisterWrites
  <2> QED BY <1>3, <2>4, <2>5, NewParts
<1> QED BY <1>1, <1>2, <1>3 DEF RowsKnow

\* A job at rest comes to it by its thread, or by a crash.
LEMMA RowsRest ==
  ASSUME Typed, Placed, RemovalsSeen, [Next]_vars, ~Crash, NEW j \in Jobs, thr[j].pc = "idle",
         InactiveRow(j)'
  PROVE  InactiveRow(j)
<1>t. row \in [Jobs -> Row] BY DEF Typed
<1>1. CASE row'[j] = row[j] BY <1>1 DEF InactiveRow
<1>2. CASE row'[j] = NoRow BY <1>2 DEF InactiveRow, NoRow
<1>3. ASSUME NEW o \in Jobs, ThreadStep(o) PROVE InactiveRow(j)
  <2>1. o # j BY <1>3, SweeperSweeps
  <2>2. row'[j].status \in {row[j].status, "gone"} BY <1>3, <2>1, ThreadStatus
  <2> QED BY <2>2 DEF InactiveRow
<1>4. ASSUME NEW o \in Jobs, Request(o) PROVE InactiveRow(j)
  <2>1. PICK r \in Row : r = row[o] BY <1>t
  <2>2. PICK s \in {"queued", "paused", "pausing", "deleting"} : Update(o, [r EXCEPT !.status = s])
    BY <1>4, <2>1 DEF Request, ApiPauseJob, ApiResumeOrRetryJob, DeleteRunning
  <2>3. [r EXCEPT !.status = s].status = s BY DEF Row
  <2>4. row'[j] = row[j] \/ row'[j].status = s BY <1>t, <2>2, <2>3 DEF Update
  <2> QED BY <1>1, <2>4 DEF InactiveRow
<1>5. ASSUME NEW o \in Jobs, RunnerStart(o) \/ EnqueueExistingJobs(o)
      PROVE  row'[j] = row[j] \/ row'[j] = NoRow
  BY <1>t, <1>5 DEF RunnerStart, EnqueueExistingJobs
<1>6. ASSUME NEW d \in Clients, ClientStep(d) PROVE row'[j] = row[j] \/ row'[j] = NoRow
  BY <1>t, <1>6 DEF ClientStep, ClearLists, ClearRows, Sweeping, SweepPartials, SweepReference,
     SweepRemove, SweepRow, DeleteIdle, ClearPartials
<1>8. CASE UNCHANGED vars BY <1>1, <1>8 DEF vars
<1> QED BY <1>1, <1>2, <1>3, <1>4, <1>5, <1>6, <1>8, StepKinds

\* Without a thread that writes, no part is made or comes to be found.
LEMMA SweptStays ==
  ASSUME Typed, Placed, [Next]_vars, NEW j \in Jobs, thr[j].pc \in {"idle", "sweeping"}, Swept(j)
  PROVE  Swept(j)'
<1>1. ASSUME NEW k \in PartKeys, k[1] = j, part'[k] # NoFile, Found(k)' PROVE FALSE
  <2>1. part[k] # NoFile BY <1>1, NewParts DEF RegisterAndOpen
  <2>2. ~Found(k) BY <1>1, <2>1 DEF Swept
  <2>3. ~RowTargets(j) /\ ~RowForgets(j) /\ ~RowRegisters(j) BY WriterIsBusy
  <2>4. CASE RowStays(j) BY <1>1, <2>2, <2>4 DEF RowStays, Found, PartialsOf
  <2>5. CASE RowRemoved(j) BY <1>1, <2>5 DEF RowRemoved, NoRow, Found, PartialsOf, Gone
  <2> QED BY <2>3, <2>4, <2>5, RowSteps
<1> QED BY <1>1 DEF Swept

\* A clean-up of the part files leaves none that it could have found.
LEMMA CleanUpSweeps ==
  ASSUME Typed, NEW j \in Jobs, row' = row, part' = Without(PartialsOf(j))
  PROVE  Swept(j)'
<1>1. ASSUME NEW k \in PartKeys, k[1] = j, part'[k] # NoFile PROVE ~Found(k)'
  <2>1. k \notin PartialsOf(j) BY <1>1, WithoutUnlinks
  <2> QED BY <1>1, <2>1 DEF Found, PartialsOf, Gone
<1> QED BY <1>1 DEF Swept

\* A removal goes from step to step, and a clear request from row to row.
LEMMA RemovalsAdvance ==
  ASSUME Typed, [Next]_vars
  PROVE  /\ \A a \in Actors : sweep'[a].step \in {"reference", "remove", "row"} =>
              /\ sweep'[a].job = sweep[a].job
              /\ sweep[a].step \in {"reference", "remove", "row"} \/ SweepPartials(a)
         /\ \A c \in Clients : clear'[c].on =>
              \/ clear'[c] = clear[c]
              \/ clear'[c].left = {j \in Jobs : InactiveRow(j)} /\ row' = row
              \/ \E j \in Jobs : ClearPartials(c, j) /\ clear'[c].left = clear[c].left \ {j}
                                 /\ clear[c].on
<1>t. /\ sweep \in [Actors -> Sweep] /\ Actors = Jobs \cup Clients
      /\ clear \in [Clients -> [on : BOOLEAN, left : SUBSET Jobs]]
  BY DEF Typed, Actors
<1> DEFINE swept(a) ==
             sweep'[a].step \in {"reference", "remove", "row"} =>
               /\ sweep'[a].job = sweep[a].job
               /\ sweep[a].step \in {"reference", "remove", "row"} \/ SweepPartials(a)
           cleared(c) ==
             clear'[c].on =>
               \/ clear'[c] = clear[c]
               \/ clear'[c].left = {j \in Jobs : InactiveRow(j)} /\ row' = row
               \/ \E j \in Jobs : ClearPartials(c, j) /\ clear'[c].left = clear[c].left \ {j}
                                  /\ clear[c].on
<1>0. /\ sweep' = sweep => \A a \in Actors : swept(a)
      /\ clear' = clear => \A c \in Clients : cleared(c)
  OBVIOUS
<1>1. ASSUME NEW a \in Actors, Sweeping(a) PROVE \A b \in Actors : swept(b)
  <2>1. CASE SweepPartials(a) BY <2>1, <1>t DEF SweepPartials, Step, Sweep
  <2>2. CASE SweepReference(a)
    <3>1. PICK step, target :
            /\ sweep' = [sweep EXCEPT ![a].step = step, ![a].target = target]
            /\ sweep[a].step = "reference"
      BY <2>2 DEF SweepReference
    <3> QED BY <3>1, <1>t DEF Sweep
  <2>3. CASE SweepRemove(a) BY <2>3, <1>t DEF SweepRemove, Step, Sweep
  <2>4. CASE SweepRow(a) BY <2>4, <1>t DEF SweepRow, NoSweep
  <2> QED BY <1>1, <2>1, <2>2, <2>3, <2>4 DEF Sweeping
<1>2. ASSUME NEW j \in Jobs, ThreadStep(j)
      PROVE  (\A a \in Actors : swept(a)) /\ \A c \in Clients : cleared(c)
  <2>1. CASE HandleDeleted(j) BY <2>1, <1>t DEF HandleDeleted, Sweep
  <2>2. clear' = clear /\ (sweep' = sweep \/ HandleDeleted(j) \/ Sweeping(j)) BY <1>2, WhoElse
  <2> QED BY <1>0, <1>1, <1>t, <2>1, <2>2
<1>3. ASSUME NEW c \in Clients, ClientStep(c)
      PROVE  (\A a \in Actors : swept(a)) /\ \A d \in Clients : cleared(d)
  <2>1. CASE Sweeping(c)
    BY <1>0, <1>1, <1>t, <2>1 DEF Sweeping, SweepPartials, SweepReference, SweepRemove, SweepRow
  <2>2. ASSUME NEW j \in Jobs, DeleteIdle(c, j)
        PROVE  (\A a \in Actors : swept(a)) /\ \A d \in Clients : cleared(d)
    BY <1>0, <1>t, <2>2 DEF DeleteIdle, Sweep
  <2>3. CASE ClearLists(c)
    <3>1. PICK left \in SUBSET Jobs : left = {j \in Jobs : InactiveRow(j)} BY DEF InactiveRow
    <3>2. clear' = [clear EXCEPT ![c] = [on |-> TRUE, left |-> left]]
      BY <2>3, <3>1 DEF ClearLists
    <3>3. row' = row /\ sweep' = sweep BY <2>3 DEF ClearLists
    <3>4. clear'[c].left = left /\ \A d \in Clients \ {c} : clear'[d] = clear[d]
      BY <1>t, <3>2
    <3> QED BY <1>0, <3>1, <3>3, <3>4
  <2>4. ASSUME NEW j \in Jobs, ClearPartials(c, j)
        PROVE  (\A a \in Actors : swept(a)) /\ \A d \in Clients : cleared(d)
    <3>1. /\ clear'[c].left = clear[c].left \ {j} /\ clear[c].on /\ sweep' = sweep
          /\ \A d \in Clients \ {c} : clear'[d] = clear[d]
      BY <1>t, <2>4 DEF ClearPartials
    <3> QED BY <1>0, <2>4, <3>1
  <2>5. CASE ClearRows(c) BY <1>0, <1>t, <2>5 DEF ClearRows, NoClear
  <2> QED BY <1>3, <2>1, <2>2, <2>3, <2>4, <2>5 DEF ClientStep
<1>4. ASSUME NEW j \in Jobs, RunnerStart(j) \/ Request(j) \/ EnqueueExistingJobs(j)
      PROVE  sweep' = sweep /\ clear' = clear
  BY <1>4 DEF RunnerStart, EnqueueExistingJobs, Request, ApiPauseJob, ApiResumeOrRetryJob,
     DeleteRunning
<1>5. CASE Crash BY <1>5 DEF Crash, NoSweep, NoClear
<1>6. CASE UNCHANGED vars BY <1>0, <1>6 DEF vars
<1> QED BY <1>0, <1>2, <1>3, <1>4, <1>5, <1>6, StepKinds

\* Where a removal has passed, no part that can be found comes back.
LEMMA PartsSweptStep ==
  ASSUME Typed, Placed, RemovalsSeen, PartsSwept, [Next]_vars PROVE PartsSwept'
<1>t. /\ Actors = Jobs \cup Clients /\ beside \subseteq beside' /\ SweepsNamed
  BY BesideGrows DEF Actors, Typed
<1>1. ASSUME NEW a \in Actors, sweep'[a].step \in {"reference", "remove", "row"}
      PROVE  (sweep[a].job \in beside \/ Swept(sweep[a].job))'
  <2>1. /\ sweep'[a].job = sweep[a].job
        /\ sweep[a].step \in {"reference", "remove", "row"} \/ SweepPartials(a)
    BY <1>1, RemovalsAdvance
  <2>2. PICK j \in Jobs : j = sweep[a].job BY <1>t, <2>1 DEF SweepPartials, SweepsNamed
  <2>3. CASE SweepPartials(a)
    <3>1. row' = row /\ part' = Without(PartialsOf(j)) BY <2>2, <2>3 DEF SweepPartials
    <3> QED BY <2>1, <2>2, <3>1, CleanUpSweeps
  <2>4. CASE sweep[a].step \in {"reference", "remove", "row"} /\ j \notin beside
    <3>1. Swept(j) BY <2>2, <2>4 DEF PartsSwept
    <3>2. thr[j].pc \in {"idle", "sweeping"}
      BY <1>t, <2>2, <2>4 DEF RemovalsSeen
    <3> QED BY <2>1, <2>2, <3>1, <3>2, SweptStays
  <2> QED BY <1>t, <2>1, <2>2, <2>3, <2>4
<1>2. ASSUME NEW c \in Clients, NEW j \in Jobs, clear'[c].on, InactiveRow(j)',
             j \notin clear'[c].left, j \notin beside
      PROVE  Swept(j)'
  <2>1. CASE clear'[c].left = {o \in Jobs : InactiveRow(o)} /\ row' = row
    BY <1>2, <2>1 DEF InactiveRow
  <2>2. CASE clear'[c] = clear[c]
    <3>1. thr[j].pc = "idle" BY <1>2, <2>2 DEF RemovalsSeen
    <3>2. ~Crash BY <1>2 DEF Crash, NoClear
    <3>3. InactiveRow(j) BY <1>2, <3>1, <3>2, RowsRest
    <3>4. Swept(j) BY <1>2, <2>2, <3>3 DEF PartsSwept
    <3> QED BY <3>1, <3>4, SweptStays
  <2>3. ASSUME NEW o \in Jobs, ClearPartials(c, o), clear'[c].left = clear[c].left \ {o},
               clear[c].on
        PROVE  Swept(j)'
    <3>1. row' = row /\ part' = Without(PartialsOf(o)) BY <2>3 DEF ClearPartials
    <3>2. CASE j = o BY <3>1, <3>2, CleanUpSweeps
    <3>3. CASE j # o
      <4>1. InactiveRow(j) /\ j \notin clear[c].left BY <1>2, <2>3, <3>1, <3>3 DEF InactiveRow
      <4>2. Swept(j) /\ thr[j].pc = "idle" BY <1>2, <2>3, <4>1 DEF PartsSwept, RemovalsSeen
      <4> QED BY <4>2, SweptStays
    <3> QED BY <3>2, <3>3
  <2> QED BY <1>2, <2>1, <2>2, <2>3, RemovalsAdvance
<1> QED BY <1>1, <1>2, <1>t DEF PartsSwept

\* One step, one part: what can be lost, and to what.
LEMMA PartFoundStep ==
  ASSUME Typed, Placed, RemovalsSeen, RowsKnow, PartsSwept, [Next]_vars, NEW k \in PartKeys,
         part'[k] # NoFile, ~Found(k)', part[k] = NoFile \/ Found(k)
  PROVE  RouteChanges(k[1]) \/ (k[1] \in beside' /\ Gone(k[1])')
<1>t. /\ k[1] \in Jobs /\ beside \subseteq beside' /\ Actors = Jobs \cup Clients
      /\ part \in [PartKeys -> PartFile]
  BY BesideGrows DEF PartKeys, Actors, Typed, PartFile
<1> PICK j \in Jobs : j = k[1] BY <1>t
<1>1. CASE part[k] = NoFile
  <2>1. RegisterAndOpen(j) /\ k = PartPath(j) BY <1>1, NewParts
  <2>2. thr'[j].pc # "idle"
    BY <2>1 DEF RegisterAndOpen, Typed, Thread
  <2>3. Gone(j) \/ (k \in row'[j].regs /\ ~Gone(j)') BY <2>1, RegisterWrites
  <2>4. Gone(j)'
    <3>1. CASE Gone(j) BY <3>1, RowSteps DEF RowStays, RowTargets, RowForgets,
       RowRegisters, RowRemoved, NoRow, Gone
    <3>2. CASE k \in row'[j].regs /\ ~Gone(j)' BY <3>2 DEF Found, PartialsOf
    <3> QED BY <2>3, <3>1, <3>2
  <2> QED BY <1>t, <2>2, <2>4, RemovalsSeenStep DEF RemovalsSeen
<1>2. CASE part[k] # NoFile /\ Found(k)
  <2>1. ~RowStays(j) BY <1>2 DEF RowStays, Found, PartialsOf
  <2>2. ~RowRegisters(j) BY <1>2 DEF RowRegisters, Found, PartialsOf
  <2>3. ~RowForgets(j)
    <3> SUFFICES ASSUME RowForgets(j) PROVE FALSE OBVIOUS
    <3>1. k[2][1] = row[j].dir BY <1>2 DEF RowForgets, RowsKnow, Found, PartialsOf
    <3> QED BY <3>1 DEF RowForgets, Found, PartialsOf
  <2>4. CASE RowTargets(j)
    <3>1. CASE ~ByDirectory(j)
      <4>1. k \in row'[j].regs BY <1>2, <2>4, <3>1 DEF RowTargets, RowsKnow
      <4> QED BY <2>4, <4>1 DEF RowTargets, Found, PartialsOf
    <3>2. CASE ByDirectory(j)
      <4>1. CivitaiBegins(j) \/ HitomiBegins(j)
        BY <2>4, <3>2 DEF RowTargets, GenericBegins, AsmroneBegins, Begins, ByDirectory
      <4>2. k[2][1] = row[j].dir BY <1>2, <3>2 DEF RowsKnow, Found, PartialsOf
      <4>3. row'[j].dir # row[j].dir BY <2>4, <4>2 DEF RowTargets, Found, PartialsOf
      <4> QED BY <4>1, <4>3 DEF RouteChanges
    <3> QED BY <3>1, <3>2
  <2>5. CASE RowRemoved(j)
    <3>1. Gone(j)' BY <2>5 DEF RowRemoved, NoRow, Gone
    <3>2. ASSUME NEW a \in Actors, SweepRow(a), j = sweep[a].job PROVE j \in beside
      BY <1>2, <3>2 DEF SweepRow, PartsSwept, Swept
    <3>3. ~EnqueueExistingJobs(j)
      <4> SUFFICES ASSUME EnqueueExistingJobs(j) PROVE FALSE OBVIOUS
      <4> DEFINE parts == Without(PartialsOf(j))
      <4>1. parts[k] = NoFile /\ parts \in [PartKeys -> PartFile]
        BY <1>t, <1>2 DEF Without, PartFile, Found
      <4>2. PICK target : RemoveLocal(j, target, parts) BY DEF EnqueueExistingJobs
      <4> HIDE DEF parts
      <4> QED BY <4>1, <4>2, RemoveLocalUnlinks
    <3>4. ASSUME NEW c \in Clients, ClearRows(c), InactiveRow(j) PROVE j \in beside
      BY <1>2, <3>4 DEF ClearRows, PartsSwept, Swept
    <3> QED BY <1>t, <2>5, <3>1, <3>2, <3>3, <3>4 DEF RowRemoved
  <2> QED BY <2>1, <2>2, <2>3, <2>4, <2>5, RowSteps
<1> QED BY <1>1, <1>2

(* Whatever the plans, the requests, their overlaps and the restarts, a    *)
(* part that can be found stays so, but where a handler's route changes    *)
(* and where a thread outlives its row: those two are all that can leave a *)
(* part behind.                                                            *)
THEOREM PartsFound == Spec => PartsAreFound
<1>1. Init => RemovalsSeen /\ RowsKnow /\ PartsSwept
  BY DEF Init, RemovalsSeen, RowsKnow, PartsSwept, Idle, NoSweep, NoClear, NoRow, FilePCs, Actors
<1>2. Typed /\ Placed /\ RemovalsSeen /\ RowsKnow /\ PartsSwept /\ [Next]_vars
        => (RemovalsSeen /\ RowsKnow /\ PartsSwept)'
  BY RemovalsSeenStep, RowsKnowStep, PartsSweptStep
<1>3. Typed /\ Placed /\ RemovalsSeen /\ RowsKnow /\ PartsSwept /\ [Next]_vars =>
        \A k \in PartKeys :
          part'[k] # NoFile /\ ~Found(k)' /\ (part[k] = NoFile \/ Found(k))
            => RouteChanges(k[1]) \/ (k[1] \in beside' /\ Gone(k[1])')
  BY PartFoundStep
<1> QED BY <1>1, <1>2, <1>3, TypedInit, KeepsTypes, PTL DEF Spec, PartsAreFound

-----------------------------------------------------------------------------
(* A job that downloads by other programs.                                 *)


ThreadPCs == {"start", "check", "get", "poll", "stop", "term", "clean", "sweep", "finish", "rest"}

(* The records have their fields; the counters are numbers.                *)
JobThread == [pc : ThreadPCs, done : BOOLEAN, answer : BOOLEAN, programs : Int, error : BOOLEAN]
Lines == [printed : Nat, read : Nat, queued : Nat, taken : Nat]
RecordsTyped == thread \in JobThread /\ lines \in Lines /\ eof \in BOOLEAN

(* Every line that was read is in the queue, or is the one the reader has  *)
(* in its hands.                                                           *)
ReaderCounts == lines.read = lines.queued + (IF reader = "holds" THEN 1 ELSE 0)

(* The reader ends when the pipe is closed and empty, and says so last.    *)
ReaderEnded ==
  /\ reader \in {"eof", "over"} => ~PipeOpen /\ lines.read = lines.printed
  /\ eof <=> reader = "over"

(* The thread takes that message after every line.                         *)
DoneIsLast == thread.done => eof /\ lines.taken = lines.queued

(* A program that ended by itself, by SIGKILL, or was never started, has   *)
(* no helper left, and one that obeyed SIGTERM only one that did not hear  *)
(* it: a signal reaches every helper there is.                             *)
HelperHasParent ==
  /\ helper = "runs" => parent \in {"runs", "lost"}
  /\ helper = "deaf" => parent \in {"runs", "lost", "ended"}
  /\ thread.pc = "term" => helper # "runs"

(* No program is under way where the thread is not looking after one.      *)
ParentIsWatched == thread.pc \in {"start", "clean", "sweep", "finish", "rest"} => ~Running

(* Success is believed of a program that succeeded.                        *)
FinishedWell == thread.pc = "finish" => parent = "ok"

Inv ==
  /\ ProcessTypeOK /\ RecordsTyped
  /\ ReaderCounts /\ ReaderEnded /\ DoneIsLast
  /\ HelperHasParent /\ ParentIsWatched /\ FinishedWell
  /\ NoLineLost /\ CleanUpIsSafe

-----------------------------------------------------------------------------
\* A kind of job that is known runs at least one program.
LEMMA ScenarioTyped ==
  ASSUME sc \in ProcessScenarios
  PROVE  sc.kind \in {"hf", "gallery", "discovery", "rclone"} /\ sc.programs \in Nat \ {0}
BY ScenarioAssumption

\* The initial states satisfy the invariant.
LEMMA InitInv == ASSUME ProcessInit PROVE Inv
<1>1. ProcessTypeOK
  <2>1. Queued \in 0..QueueSize /\ lines = NoLines
    BY QueueAssumption DEF ProcessInit, NoLines, Queued
  <2>2. /\ 0 <= lines.taken /\ lines.taken <= lines.queued /\ lines.queued <= lines.read
        /\ lines.read <= lines.printed /\ lines.printed <= MaxLines
    BY <2>1, QueueAssumption DEF NoLines
  <2>3. folder \in [media : 0..1, part : BOOLEAN]
    BY DEF ProcessInit
  <2> QED BY <2>1, <2>2, <2>3 DEF ProcessInit, ProcessTypeOK
<1>2. RecordsTyped
  <2>1. sc.programs \in Int
    BY ScenarioTyped DEF ProcessInit
  <2>2. thread \in JobThread
    BY <2>1 DEF ProcessInit, JobThread, ThreadPCs
  <2>3. lines \in Lines
    BY DEF ProcessInit, Lines, NoLines
  <2> QED BY <2>2, <2>3 DEF ProcessInit, RecordsTyped
<1>3. /\ ReaderCounts /\ ReaderEnded /\ DoneIsLast
      /\ HelperHasParent /\ ParentIsWatched /\ FinishedWell
  BY DEF ProcessInit, ReaderCounts, ReaderEnded, DoneIsLast, HelperHasParent, ParentIsWatched,
         FinishedWell, NoLines, Running, PipeOpen, HelperRuns
<1>4. NoLineLost /\ CleanUpIsSafe
  BY DEF ProcessInit, NoLineLost, CleanUpIsSafe, GroupGone, FolderFits, Running
<1> QED BY <1>1, <1>2, <1>3, <1>4 DEF Inv

-----------------------------------------------------------------------------
(* Every step keeps the invariant: one lemma per part.                     *)

\* The records keep their fields.
LEMMA RecordsStep ==
  ASSUME Inv, [ProcessNext]_processVars
  PROVE  RecordsTyped'
<1>1. thread \in JobThread /\ lines \in Lines /\ eof \in BOOLEAN
  BY DEF Inv, RecordsTyped
<1>2. CASE PrintLine \/ ReadLine \/ PutLine
  BY <1>1, <1>2 DEF PrintLine, ReadLine, PutLine, Lines, RecordsTyped
<1>3. CASE \/ ReadEnd \/ PutDone \/ WriteFile \/ StartHelper \/ HelperExits \/ ParentExits \/ Ask
           \/ UNCHANGED processVars
  BY <1>1, <1>3 DEF ReadEnd, PutDone, WriteFile, StartHelper, HelperExits, ParentExits, Ask, processVars,
     output, RecordsTyped
<1>4. CASE Popen
  <2>1. lines' \in Lines /\ eof' \in BOOLEAN
    <3>1. NoLines \in Lines
      BY DEF NoLines, Lines
    <3> QED BY <1>1, <1>4, <3>1 DEF Popen, process, output
  <2>2. thread' \in JobThread
    BY <1>1, <1>4 DEF Popen, To, JobThread, ThreadPCs
  <2> QED BY <2>1, <2>2 DEF RecordsTyped
<1>5. CASE CheckControl \/ Terminate \/ Kill \/ CleanUp \/ SweepFolder \/ FinishJob
  <2>1. thread' \in JobThread
    BY <1>1, <1>5 DEF CheckControl, Terminate, Kill, CleanUp, SweepFolder, FinishJob, To, JobThread, ThreadPCs
  <2> QED BY <1>1, <1>5, <2>1 DEF CheckControl, Terminate, Kill, CleanUp, SweepFolder, FinishJob, output,
       RecordsTyped
<1>6. CASE Get
  <2>1. lines' \in Lines /\ eof' \in BOOLEAN
    BY <1>1, <1>6 DEF Get, Lines
  <2>2. ASSUME NEW all \in BOOLEAN PROVE [thread EXCEPT !.pc = "poll", !.answer = all] \in JobThread
    BY <1>1 DEF JobThread, ThreadPCs
  <2>3. [thread EXCEPT !.pc = "poll", !.done = TRUE] \in JobThread /\ [thread EXCEPT !.pc = "poll"] \in JobThread
    BY <1>1 DEF JobThread, ThreadPCs
  <2> QED BY <1>6, <2>1, <2>2, <2>3 DEF Get, To, RecordsTyped
<1>7. CASE Poll
  <2>1. ASSUME NEW pc \in ThreadPCs
        PROVE  /\ [thread EXCEPT !.pc = pc] \in JobThread
               /\ [thread EXCEPT !.pc = pc, !.error = TRUE] \in JobThread
               /\ [thread EXCEPT !.programs = @ - 1, !.pc = pc] \in JobThread
    <3>1. thread.programs - 1 \in Int
      BY <1>1 DEF JobThread
    <3>2. [thread EXCEPT !.pc = pc, !.error = TRUE] \in JobThread
      BY <1>1 DEF JobThread
    <3>3. [thread EXCEPT !.programs = thread.programs - 1, !.pc = pc] \in JobThread
      BY <1>1, <3>1 DEF JobThread
    <3>4. [thread EXCEPT !.pc = pc] \in JobThread
      BY <1>1 DEF JobThread
    <3> QED BY <3>2, <3>3, <3>4
  <2>2. {"check", "clean", "start", "finish"} \subseteq ThreadPCs
    BY DEF ThreadPCs
  <2>3. thread' \in JobThread
    BY <1>7, <2>1, <2>2 DEF Poll, To
  <2> QED BY <1>1, <1>7, <2>3 DEF Poll, output, RecordsTyped
<1>8. CASE Resume
  <2>1. sc.programs \in Int
    BY ScenarioTyped DEF Inv, ProcessTypeOK
  <2>2. thread' \in JobThread
    BY <1>1, <1>8, <2>1 DEF Resume, JobThread, ThreadPCs
  <2> QED BY <1>1, <1>8, <2>2 DEF Resume, output, RecordsTyped
<1> QED BY <1>2, <1>3, <1>4, <1>5, <1>6, <1>7, <1>8 DEF ProcessNext, JobThreadStep, ReaderStep

\* The lines keep their order and the queue its bound.
LEMMA LinesStep ==
  ASSUME Inv, [ProcessNext]_processVars
  PROVE  /\ 0 <= lines'.taken /\ lines'.taken <= lines'.queued /\ lines'.queued <= lines'.read
         /\ lines'.read <= lines'.printed /\ lines'.printed <= MaxLines
         /\ Queued' \in 0..QueueSize
         /\ ReaderCounts' /\ DoneIsLast'
<1> USE QueueAssumption DEF Inv, RecordsTyped, JobThread, Lines, ProcessTypeOK, ReaderCounts, DoneIsLast, Queued
<1>1. CASE PrintLine
  BY <1>1 DEF PrintLine
<1>2. CASE ReadLine \/ ReadEnd
  BY <1>2 DEF ReadLine, ReadEnd, Announces
<1>3. CASE PutLine
  BY <1>3 DEF PutLine, HasRoom, ReaderEnded
<1>4. CASE PutDone
  BY <1>4 DEF PutDone, HasRoom, ReaderEnded
<1>5. CASE Popen
  <2>1. CASE Stopping
    BY <1>5, <2>1 DEF Popen, To, process, output
  <2>2. CASE ~Stopping
    <3>1. lines' = NoLines /\ reader' = "reads" /\ eof' = FALSE /\ thread'.done = FALSE
      BY <1>5, <2>2 DEF Popen
    <3> QED BY <3>1 DEF NoLines
  <2> QED BY <2>1, <2>2
<1>6. CASE Get
  <2>1. CASE /\ lines.taken < lines.queued
             /\ lines' = [lines EXCEPT !.taken = @ + 1] /\ thread'.done = thread.done
    BY <1>6, <2>1 DEF Get
  <2>2. CASE lines.taken = lines.queued /\ eof /\ thread'.done = TRUE /\ UNCHANGED lines
    BY <1>6, <2>2 DEF Get
  <2>3. CASE thread'.done = thread.done /\ UNCHANGED lines
    BY <1>6, <2>3 DEF Get
  <2> QED BY <1>6, <2>1, <2>2, <2>3 DEF Get, To
<1>7. CASE /\ UNCHANGED output
           /\ thread'.done = thread.done
  BY <1>7 DEF output
<1>8. ASSUME \/ WriteFile \/ StartHelper \/ HelperExits \/ ParentExits \/ Ask \/ UNCHANGED processVars
             \/ CheckControl \/ Poll \/ Terminate \/ Kill \/ CleanUp \/ SweepFolder \/ FinishJob \/ Resume
      PROVE  UNCHANGED output /\ thread'.done = thread.done
  BY <1>8, ZenonT(60) DEF WriteFile, StartHelper, HelperExits, ParentExits, Ask, processVars, CheckControl, Poll,
     Terminate, Kill, CleanUp, SweepFolder, FinishJob, Resume, To
<1> QED BY <1>1, <1>2, <1>3, <1>4, <1>5, <1>6, <1>7, <1>8, RecordsStep
        DEF ProcessNext, JobThreadStep, ReaderStep

\* The other variables keep their types.
LEMMA OthersStep ==
  ASSUME Inv, [ProcessNext]_processVars
  PROVE  /\ sc' \in ProcessScenarios
         /\ status' \in {"running", "pausing", "canceling", "deleting", "paused", "canceled",
                         "deleted", "failed", "done"}
         /\ parent' \in {"none", "runs", "ok", "error", "lost", "ended", "killed"}
         /\ helper' \in {"none", "runs", "deaf", "gone"}
         /\ strays' \in BOOLEAN
         /\ reader' \in {"none", "reads", "holds", "eof", "over"}
         /\ folder' \in [media : 0..1, part : BOOLEAN]
<1> USE DEF Inv, ProcessTypeOK
<1>1. CASE PrintLine \/ ReaderStep
  BY <1>1 DEF PrintLine, ReaderStep, ReadLine, PutLine, ReadEnd, PutDone, Announces, process
<1>2. CASE WriteFile \/ StartHelper \/ HelperExits \/ ParentExits
  <2>1. [folder EXCEPT !.part = TRUE] \in [media : 0..1, part : BOOLEAN]
    OBVIOUS
  <2>2. [media |-> 1, part |-> FALSE] \in [media : 0..1, part : BOOLEAN]
    OBVIOUS
  <2>3. CASE WriteFile
    <3>1. folder' \in [media : 0..1, part : BOOLEAN]
      BY <2>1, <2>2, <2>3, Zenon DEF WriteFile
    <3>2. UNCHANGED <<sc, status, parent, helper, strays, reader>>
      BY <2>3, Zenon DEF WriteFile, process, output
    <3> QED BY <3>1, <3>2
  <2>4. CASE StartHelper \/ HelperExits
    BY <2>4 DEF StartHelper, HelperExits, output
  <2>5. CASE ParentExits
    BY <2>5 DEF ParentExits, output
  <2> QED BY <1>2, <2>3, <2>4, <2>5
<1>3. CASE Popen \/ CheckControl \/ Get \/ Poll
  <2>1. CASE Popen
    <3>1. strays' \in BOOLEAN
      BY <2>1, Zenon DEF Popen, HelperRuns, process
    <3> QED BY <2>1, <3>1 DEF Popen, process, output
  <2> QED BY <1>3, <2>1 DEF CheckControl, Get, Poll, process, output
<1>4. CASE Terminate \/ Kill
  BY <1>4 DEF Terminate, Kill, WholeGroup, process, output
<1>5. CASE CleanUp \/ SweepFolder \/ FinishJob
  <2>1. WithoutParts(folder) \in [media : 0..1, part : BOOLEAN]
    BY DEF WithoutParts
  <2>2. Stopped \in {"paused", "canceled", "deleted", "failed"}
    BY DEF Stopped
  <2> QED BY <1>5, <2>1, <2>2 DEF CleanUp, SweepFolder, FinishJob, process, output
<1>6. CASE Ask \/ Resume \/ UNCHANGED processVars
  BY <1>6 DEF Ask, Resume, processVars, process, output
<1> QED BY <1>1, <1>2, <1>3, <1>4, <1>5, <1>6 DEF ProcessNext, JobThreadStep

\* The reader ends after the last line of a pipe that stays closed.
LEMMA ReaderStepKeeps ==
  ASSUME Inv, [ProcessNext]_processVars
  PROVE  ReaderEnded'
<1> USE DEF Inv, RecordsTyped, JobThread, Lines, ProcessTypeOK, ReaderEnded, PipeOpen, HelperRuns, Running
<1>1. CASE PrintLine \/ ReaderStep
  BY <1>1 DEF PrintLine, ReaderStep, ReadLine, PutLine, ReadEnd, PutDone, Announces, process
<1>2. CASE WriteFile \/ StartHelper \/ HelperExits \/ ParentExits
  BY <1>2 DEF WriteFile, StartHelper, HelperExits, ParentExits, process, output
<1>3. CASE Popen
  BY <1>3 DEF Popen, process, output
<1>4. CASE Get
  BY <1>4 DEF Get, process
<1>5. CASE Terminate \/ Kill
  BY <1>5 DEF Terminate, Kill, WholeGroup, process, output
<1>6. CASE \/ CheckControl \/ Poll \/ CleanUp \/ SweepFolder \/ FinishJob \/ Ask \/ Resume
           \/ UNCHANGED processVars
  BY <1>6 DEF CheckControl, Poll, CleanUp, SweepFolder, FinishJob, Ask, Resume, processVars, process, output
<1> QED BY <1>1, <1>2, <1>3, <1>4, <1>5, <1>6 DEF ProcessNext, JobThreadStep

\* The processes of a group end together, and before the thread goes on.
LEMMA GroupStep ==
  ASSUME Inv, [ProcessNext]_processVars
  PROVE  HelperHasParent' /\ ParentIsWatched' /\ FinishedWell'
<1> USE DEF Inv, RecordsTyped, JobThread, Lines, ThreadPCs, ProcessTypeOK, HelperHasParent, ParentIsWatched, FinishedWell,
            Running, HelperRuns
<1>1. CASE PrintLine \/ ReaderStep \/ WriteFile
  BY <1>1 DEF PrintLine, ReaderStep, ReadLine, PutLine, ReadEnd, PutDone, WriteFile, process
<1>2. CASE StartHelper \/ HelperExits \/ ParentExits
  <2>1. CASE StartHelper
    BY <2>1 DEF StartHelper
  <2>2. CASE HelperExits
    BY <2>2 DEF HelperExits
  <2>3. CASE ParentExits
    BY <2>3 DEF ParentExits
  <2> QED BY <1>2, <2>1, <2>2, <2>3
<1>3. CASE Popen
  BY <1>3 DEF Popen, To, process
<1>4. CASE CheckControl \/ Get
  BY <1>4, ZenonT(60) DEF CheckControl, Get, To, process
<1>5. CASE Poll
  BY <1>5 DEF Poll, AllTaken, To, process
<1>6. CASE Terminate \/ Kill
  BY <1>6 DEF Terminate, Kill, WholeGroup, To, process
<1>7. CASE CleanUp \/ SweepFolder \/ FinishJob
  BY <1>7 DEF CleanUp, SweepFolder, FinishJob, To, process
<1>8. CASE Ask \/ Resume \/ UNCHANGED processVars
  BY <1>8 DEF Ask, Resume, processVars, process
<1> QED BY <1>1, <1>2, <1>3, <1>4, <1>5, <1>6, <1>7, <1>8 DEF ProcessNext, JobThreadStep

\* When the program has ended and its end was taken, every line was.
LEMMA EndIsAll ==
  ASSUME Inv, AllTaken(thread.done, Queued)
  PROVE  lines.taken = lines.printed
BY DEF Inv, AllTaken, RecordsTyped, JobThread, Lines, ProcessTypeOK, ReaderCounts, ReaderEnded, DoneIsLast

\* A success is believed when every line was taken.
LEMMA LossStep ==
  ASSUME Inv, [ProcessNext]_processVars
  PROVE  NoLineLost'
<1> USE DEF Inv, RecordsTyped, JobThread, Lines, ProcessTypeOK, NoLineLost
<1>1. CASE PrintLine
  <2>1. parent # "ok"
    BY <1>1 DEF PrintLine, PipeOpen, HelperRuns, Running, HelperHasParent
  <2> QED BY <1>1, <2>1 DEF PrintLine, process, FinishedWell
<1>2. CASE ReaderStep
  BY <1>2 DEF ReaderStep, ReadLine, PutLine, ReadEnd, PutDone, process
<1>3. CASE WriteFile \/ StartHelper \/ HelperExits
  BY <1>3 DEF WriteFile, StartHelper, HelperExits, process, output
<1>4. CASE ParentExits
  BY <1>4 DEF ParentExits, ParentIsWatched, output
<1>5. CASE Popen \/ CheckControl \/ Get \/ Terminate \/ Kill \/ CleanUp \/ SweepFolder \/ FinishJob
  BY <1>5 DEF Popen, CheckControl, Get, Terminate, Kill, CleanUp, SweepFolder, FinishJob, To
<1>6. CASE Poll
  BY <1>6, EndIsAll DEF Poll, Missing, Another, To, process, output
<1>7. CASE Resume
  BY <1>7, ScenarioTyped DEF Resume, output
<1>8. CASE Ask \/ UNCHANGED processVars
  BY <1>8 DEF Ask, processVars, process, output
<1> QED BY <1>1, <1>2, <1>3, <1>4, <1>5, <1>6, <1>7, <1>8 DEF ProcessNext, JobThreadStep

\* Where the thread cleans the folder the group is gone, with the exceptions
\* that the property names.
LEMMA GoneStep ==
  ASSUME Inv, [ProcessNext]_processVars
  PROVE  GroupGone'
BY GroupStep DEF GroupGone, HelperHasParent, ParentIsWatched, Running

\* A clean-up leaves nothing but media, as far as nobody writes any more.
LEMMA FolderStep ==
  ASSUME Inv, [ProcessNext]_processVars
  PROVE  FolderFits'
<1> USE DEF Inv, RecordsTyped, JobThread, Lines, ThreadPCs, ProcessTypeOK, CleanUpIsSafe, FolderFits
<1>1. CASE \/ PrintLine \/ ReaderStep \/ StartHelper \/ HelperExits
           \/ UNCHANGED processVars
  BY <1>1 DEF PrintLine, ReaderStep, ReadLine, PutLine, ReadEnd, PutDone, StartHelper,
     HelperExits, processVars, process
<1>2. CASE WriteFile
  BY <1>2 DEF WriteFile, ParentIsWatched, HelperHasParent, PipeOpen, HelperRuns, Running, process
<1>3. CASE ParentExits
  BY <1>3 DEF ParentExits, ParentIsWatched
<1>4. CASE Popen \/ CheckControl \/ Get \/ Poll \/ Terminate \/ Kill
  <2>1. CASE Popen \/ CheckControl \/ Get
    BY <2>1 DEF Popen, CheckControl, Get, To, process
  <2>2. CASE Poll
    BY <2>2 DEF Poll, To
  <2>3. CASE Terminate \/ Kill
    BY <2>3 DEF Terminate, Kill, To
  <2> QED BY <1>4, <2>1, <2>2, <2>3
<1>5. CASE CleanUp
  BY <1>5 DEF CleanUp, Stopped, To
<1>6. CASE SweepFolder
  <2>1. folder'.part = FALSE /\ status' # "done"
    BY <1>6 DEF SweepFolder, WithoutParts, Stopped
  <2> QED BY <1>6, <2>1 DEF SweepFolder
<1>7. CASE FinishJob
  BY <1>7 DEF FinishJob, SomeMedia, Stopped, To, process
<1>8. CASE Ask \/ Resume
  BY <1>8 DEF Ask, Resume, process
<1> QED BY <1>1, <1>2, <1>3, <1>4, <1>5, <1>6, <1>7, <1>8 DEF ProcessNext, JobThreadStep

-----------------------------------------------------------------------------
\* Every reachable state satisfies the invariant.
LEMMA InvHolds == ProcessSpec => []Inv
<1>1. ProcessInit => Inv
  BY InitInv
<1>2. Inv /\ [ProcessNext]_processVars => Inv'
  BY RecordsStep, LinesStep, OthersStep, ReaderStepKeeps, GroupStep, LossStep, GoneStep, FolderStep
     DEF Inv, ProcessTypeOK, CleanUpIsSafe
<1> QED BY <1>1, <1>2, PTL DEF ProcessSpec

\* Every variable keeps its type, and the queue never holds more than
\* QueueSize messages.  read_process_output
THEOREM ProcessTyping == ProcessSpec => []ProcessTypeOK
<1>1. Inv => ProcessTypeOK
  BY DEF Inv
<1> QED BY <1>1, InvHolds, PTL

\* When a program's success is believed every line it printed was handled.
\* run_external_download_process, run_huggingface_download_process
THEOREM EveryLineHandled == ProcessSpec => []NoLineLost
<1>1. Inv => NoLineLost
  BY DEF Inv
<1> QED BY <1>1, InvHolds, PTL

\* The folder is cleaned when the program is over, and of its group only that
\* is left which the stop could not reach.
\* stop_controlled_process, cleanup_empty_gallery_archive_target
THEOREM CleaningIsSafe == ProcessSpec => []CleanUpIsSafe
<1>1. Inv => CleanUpIsSafe
  BY DEF Inv
<1> QED BY <1>1, InvHolds, PTL

\* No stop, error or clean-up takes a finished download, whoever still writes.
\* cleanup_empty_gallery_archive_target
THEOREM MediaStays == ProcessSpec => DownloadsKept
<1>1. ProcessTypeOK /\ [ProcessNext]_processVars => [folder'.media >= folder.media]_processVars
  <2> SUFFICES ASSUME ProcessTypeOK, [ProcessNext]_processVars
               PROVE  folder'.media >= folder.media
    OBVIOUS
  <2>0. folder.media \in 0..1
    BY DEF ProcessTypeOK
  <2>1. CASE WriteFile
    BY <2>0, <2>1 DEF WriteFile, ProcessTypeOK
  <2>2. CASE SweepFolder
    BY <2>0, <2>2 DEF SweepFolder, WithoutParts, ProcessTypeOK
  <2>3. CASE folder' = folder
    BY <2>0, <2>3
  <2>4. ASSUME ~WriteFile, ~SweepFolder PROVE folder' = folder
    BY <2>4 DEF ProcessNext, processVars, PrintLine, StartHelper, HelperExits, ParentExits, ReaderStep,
       ReadLine, PutLine, ReadEnd, PutDone, JobThreadStep, Popen, CheckControl, Get, Poll, Terminate,
       Kill, CleanUp, FinishJob, Ask, Resume
  <2> QED BY <2>1, <2>2, <2>3, <2>4
<1> QED BY <1>1, ProcessTyping, PTL DEF ProcessSpec, DownloadsKept

=============================================================================
