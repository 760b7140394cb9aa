---------------------------- MODULE DownloadFiles ----------------------------
(***************************************************************************)
(* What the download threads, the delete and clear requests and a restart  *)
(* do to files: part files named by job, final path and URL, final files   *)
(* under a lock per path, the paths a row registers so that a clean-up     *)
(* finds them, and the removal of a job's own files.                       *)
(*                                                                         *)
(* A file's content is the set of the chunks 1..Size written to it.  A     *)
(* handler is its plan: the files it fetches in order, each with the URLs  *)
(* it tries and with what a failure of the file means to the job.  The     *)
(* scheduler is module DownloadQueue's subject; here a queued job in       *)
(* `pending' may get its one thread at any time.                           *)
(***************************************************************************)
EXTENDS Integers, Sequences, FiniteSets

CONSTANTS
  Jobs,         \* ids of the rows
  Clients,      \* request threads of the web server
  Dirs, Names,  \* target directories and file names
  Urls,
  Size,         \* bound: chunks of a body
  Scenarios,    \* the plans a behaviour may start with, and the events of each
  Disposition,  \* [Urls -> Names \cup {NoName}]: the name the server gives the file
  NoFile, NoName,
  FairJobs      \* the jobs whose threads FairSpec assumes to run

Sources == {"generic", "civitai", "hitomi", "asmrone"}
Needs == {"required", "counted", "optional"}
Chunks == 1..Size
Paths == Dirs \X Names
PartKeys == Jobs \X Paths \X Urls

FileEntry == [name : Names, need : Needs, urls : Seq(Urls) \ {<<>>}]
Plan == [source : Sources \cup {"none"}, dirs : SUBSET Dirs, refresh : BOOLEAN,
         entries : Seq(FileEntry)]

ASSUME SizeAssumption == Size \in Nat \ {0}
ASSUME PlanAssumption ==
  \A s \in Scenarios :
     /\ s.plan \in [Jobs -> Plan]
     /\ \A j \in Jobs : LET p == s.plan[j] IN \A i \in DOMAIN p.entries :
          p.source = "civitai" /\ p.entries[i].need = "optional" => i = 1
ASSUME DispositionAssumption == Disposition \in [Urls -> Names \cup {NoName}]
ASSUME NoFileAssumption ==
  /\ Jobs \cap Clients = {} /\ NoName \notin Names \cup Dirs /\ NoFile \notin Paths \cup Jobs
  /\ \A has \in SUBSET Chunks : has # NoFile /\ \A u \in Urls : [url |-> u, has |-> has] # NoFile

VARIABLES
  plan,     \* the plan of each job, chosen once
  events,   \* the requests and events that may happen, chosen once
  row,      \* row[j]: status, target_dir, filename, registered part paths
  pending,  \* jobs on the scheduler's list
  thr,      \* thr[j]: the thread of job j, "idle" when there is none
  part,     \* part files: the chunks in them, or NoFile
  final,    \* final files: whose bytes and which chunks, or NoFile
  lock,     \* _FINAL_PATH_LOCKS: the job holding the lock of a path, or NoFile
  sweep,    \* removals of a job's files under way, by threads and requests
  clear,    \* clear requests under way: the inactive rows still to be cleaned
  beside    \* history: the jobs a thread of which ran beside a request's removal

vars == <<plan, events, row, pending, thr, part, final, lock, sweep, clear, beside>>
files == <<part, final, lock>>

Actors == Jobs \cup Clients
Idle == [pc |-> "idle", at |-> 1, alt |-> 1, dir |-> NoName, path |-> NoFile,
         existing |-> 0, downloaded |-> 0, saved |-> 0, stop |-> "go"]
NoSweep == [step |-> "none", job |-> NoFile, target |-> {}]
NoRow == [status |-> "gone", dir |-> NoName, file |-> NoName, regs |-> {}]
NoClear == [on |-> FALSE, left |-> {}]

Init ==
  /\ \E s \in Scenarios : plan = s.plan /\ events = s.events
  /\ row = [j \in Jobs |-> IF plan[j].source = "none" THEN NoRow
                                                     ELSE [NoRow EXCEPT !.status = "queued"]]
  /\ pending = {j \in Jobs : plan[j].source # "none"}
  /\ thr = [j \in Jobs |-> Idle]
  /\ part = [k \in PartKeys |-> NoFile]
  /\ final = [p \in Paths |-> NoFile]
  /\ lock = [p \in Paths |-> NoFile]
  /\ sweep = [a \in Actors |-> NoSweep]
  /\ clear = [c \in Clients |-> NoClear]
  /\ beside = {}

-----------------------------------------------------------------------------
(* The rows.  An update of a row that is gone changes nothing.             *)

Gone(j) == row[j].status = "gone"
InactiveRow(j) == row[j].status \in {"done", "failed", "canceled"}
Update(j, r) == row' = [row EXCEPT ![j] = IF Gone(j) THEN @ ELSE r]

CheckJobControl(j) ==
  CASE row[j].status \in {"gone", "deleting"} -> "deleted"
    [] row[j].status \in {"pausing", "paused"} -> "paused"
    [] row[j].status \in {"canceling", "canceled"} -> "canceled"
    [] OTHER -> "go"

(* What cleanup_job_partial_files removes: the registered paths and every  *)
(* part of the job under the row's target directory, as the row stands.    *)
PartialsOf(j) ==
  IF Gone(j) THEN {} ELSE {k \in PartKeys : k[1] = j /\ (k \in row[j].regs \/ k[2][1] = row[j].dir)}
Without(keys) == [k \in PartKeys |-> IF k \in keys THEN NoFile ELSE part[k]]

-----------------------------------------------------------------------------
(* The thread: job_runner, run_job and the beginning of each handler.      *)

Entry(j) == plan[j].entries[thr[j].at]
Url(j) == Entry(j).urls[thr[j].alt]
PartPath(j) == <<j, thr[j].path, Url(j)>>
Goto(j, pc) == thr' = [thr EXCEPT ![j].pc = pc]
Release(j) == lock' = [p \in Paths |-> IF lock[p] = j THEN NoFile ELSE lock[p]]
CanOverride(j) == plan[j].source # "generic"

(* A request removes the job's files, or those of the rows it found idle.  *)
Removed(j) == \E c \in Clients : sweep[c].job = j \/ clear[c].on

RunnerStart(j) ==
  /\ j \in pending /\ thr[j].pc = "idle" /\ row[j].status = "queued"
  /\ "overlap" \in events \/ ~Removed(j)
  /\ pending' = pending \ {j}
  /\ Goto(j, "begin")
  /\ beside' = beside \cup {o \in {j} : Removed(o)}
  /\ UNCHANGED <<plan, events, row, files, sweep, clear>>

RunJob(j) ==
  /\ thr[j].pc = "begin"
  /\ IF row[j].status \in {"queued", "running"}
       THEN Update(j, [row[j] EXCEPT !.status = "running"]) /\ Goto(j, "manifest")
       ELSE thr' = [thr EXCEPT ![j] = Idle] /\ UNCHANGED row
  /\ UNCHANGED <<plan, events, beside, pending, files, sweep, clear>>

AllEntriesTried(j) == thr[j].pc = "entry" /\ thr[j].at > Len(plan[j].entries)
(* A refresh of a Civitai model keeps the required files that are there.   *)
Kept(j) ==
  /\ thr[j].pc = "entry" /\ ~AllEntriesTried(j) /\ plan[j].refresh
  /\ Entry(j).need = "required" /\ final[<<thr[j].dir, Entry(j).name>>] # NoFile

(* A control stop outside a stream: the part files are left to the handler *)
(* of the stop.  Mutant: waiting for a lock, a thread does not look.       *)
ControlPointsButLock == {"manifest", "entry"}
ControlPoints == {"manifest", "entry", "lock"}
StopsBetweenStreams(j) ==
  /\ thr[j].pc \in ControlPoints /\ CheckJobControl(j) # "go"
  /\ ~Kept(j) /\ (AllEntriesTried(j) => thr[j].saved > 0)
  /\ thr' = [thr EXCEPT ![j].pc = "stop", ![j].stop = CheckJobControl(j)]
  /\ UNCHANGED <<plan, events, beside, row, pending, files, sweep, clear>>

Begins(j, source) ==
  /\ thr[j].pc = "manifest" /\ plan[j].source = source /\ CheckJobControl(j) = "go"
  /\ \E d \in plan[j].dirs : thr' = [thr EXCEPT ![j].pc = "entry", ![j].dir = d]
  /\ UNCHANGED <<plan, events, beside, pending, files, sweep, clear>>
(* Mutant: every handler overwrites what the row registered. *)
SetTargetForgetting(j) == Update(j, [row[j] EXCEPT !.dir = thr'[j].dir, !.regs = {}])
SetTarget(j) == Update(j, [row[j] EXCEPT !.dir = thr'[j].dir])
SetTargetAndMetadata(j) == Update(j, [row[j] EXCEPT !.dir = thr'[j].dir, !.regs = {}])

GenericBegins(j) == Begins(j, "generic") /\ SetTarget(j)
AsmroneBegins(j) == Begins(j, "asmrone") /\ SetTarget(j)
CivitaiBegins(j) == Begins(j, "civitai") /\ SetTargetAndMetadata(j)
HitomiBegins(j) == Begins(j, "hitomi") /\ SetTargetAndMetadata(j)

(* The page, the manifest or the metadata cannot be had.                   *)
FetchJsonFails(j) ==
  /\ thr[j].pc = "manifest" /\ plan[j].source # "generic" /\ CheckJobControl(j) = "go"
  /\ Goto(j, "except")
  /\ UNCHANGED <<plan, events, beside, row, pending, files, sweep, clear>>

-----------------------------------------------------------------------------
(* stream_download, one request of one URL of one entry.                   *)

KeepsExisting(j) ==
  /\ Kept(j)
  /\ thr' = [thr EXCEPT ![j].at = @ + 1, ![j].alt = 1, ![j].saved = @ + 1]
  /\ UNCHANGED <<plan, events, beside, row, pending, files, sweep, clear>>

(* The name comes from the handler, or from HEAD, or from the URL.         *)
StreamBegins(j) ==
  /\ thr[j].pc = "entry" /\ ~AllEntriesTried(j) /\ ~Kept(j) /\ CheckJobControl(j) = "go"
  /\ \E n \in {Entry(j).name} \cup
             (IF CanOverride(j) THEN {} ELSE {Disposition[Url(j)]} \ {NoName}) :
       thr' = [thr EXCEPT ![j].pc = "lock", ![j].path = <<thr[j].dir, n>>]
  /\ UNCHANGED <<plan, events, beside, row, pending, files, sweep, clear>>

Acquire(j) ==
  /\ thr[j].pc = "lock" /\ lock[thr[j].path] = NoFile
  /\ lock' = [lock EXCEPT ![thr[j].path] = j]
  /\ Goto(j, "stat")
  /\ UNCHANGED <<plan, events, beside, row, pending, part, final, sweep, clear>>

(* Mutant: the offset to resume from is one chunk too far. *)
SizeOfPartPlusOne(k) == IF part[k] = NoFile THEN 0 ELSE Cardinality(part[k]) + 1
SizeOfPart(k) == IF part[k] = NoFile THEN 0 ELSE Cardinality(part[k])
Stat(j) ==
  /\ thr[j].pc = "stat"
  /\ thr' = [thr EXCEPT ![j].pc = "request", ![j].existing = SizeOfPart(PartPath(j))]
  /\ UNCHANGED <<plan, events, beside, row, pending, files, sweep, clear>>

(* Mutant: a pause drops the part as well. *)
DropsPartAlways(stop) == TRUE
DropsPart(stop) == stop \in {"canceled", "deleted"}

(* A control stop inside the stream: on cancel and delete its own part and *)
(* every part of the job go, and the lock is released.                     *)
StopsInStream(j) ==
  /\ thr[j].pc \in {"request", "relock", "read"} /\ CheckJobControl(j) # "go"
  /\ thr' = [thr EXCEPT ![j].pc = "stop", ![j].stop = CheckJobControl(j)]
  /\ part' = IF DropsPart(CheckJobControl(j)) THEN Without({PartPath(j)} \cup PartialsOf(j)) ELSE part
  /\ Release(j)
  /\ UNCHANGED <<plan, events, beside, row, pending, final, sweep, clear>>

(* The stream raises: what it has written stays.  A RequestException makes *)
(* the handler try the next URL, any other error fails the entry.          *)
Raises(j, outcome) ==
  /\ thr' = [thr EXCEPT ![j].pc = outcome]
  /\ Release(j)

RequestFails(j) ==
  /\ thr[j].pc = "request" /\ CheckJobControl(j) = "go"
  /\ Raises(j, "badurl")
  /\ UNCHANGED <<plan, events, beside, row, pending, part, final, sweep, clear>>

(* 416: the part is complete already.  With a final file present the file  *)
(* is taken as saved, whatever is in it; else the status is an error.      *)
RangeNotSatisfiable(j) ==
  /\ thr[j].pc = "request" /\ CheckJobControl(j) = "go" /\ thr[j].existing = Size
  /\ Raises(j, IF final[thr[j].path] # NoFile THEN "saved" ELSE "badurl")
  /\ UNCHANGED <<plan, events, beside, row, pending, part, final, sweep, clear>>

PartialContent(j) ==
  /\ thr[j].pc = "request" /\ CheckJobControl(j) = "go" /\ thr[j].existing \in 1..(Size - 1)
  /\ Goto(j, "open")
  /\ UNCHANGED <<plan, events, beside, row, pending, files, sweep, clear>>

(* 200: a part there was is dropped; a name in the answer moves the stream *)
(* to another final path, whose lock it takes after releasing its own.     *)
FullContent(j) ==
  /\ thr[j].pc = "request" /\ CheckJobControl(j) = "go"
  /\ LET name == Disposition[Url(j)]
         moves == ~CanOverride(j) /\ name # NoName /\ name # thr[j].path[2]
     IN  /\ part' = IF thr[j].existing > 0 THEN Without({PartPath(j)}) ELSE part
         /\ thr' = [thr EXCEPT ![j].existing = 0,
                               ![j].pc = IF moves THEN "relock" ELSE "open"]
         /\ IF moves THEN Release(j) ELSE UNCHANGED lock
  /\ UNCHANGED <<plan, events, beside, row, pending, final, sweep, clear>>

Relock(j) ==
  /\ thr[j].pc = "relock"
  /\ LET new == <<thr[j].dir, Disposition[Url(j)]>>
     IN  /\ lock[new] = NoFile
         /\ lock' = [lock EXCEPT ![new] = j]
         /\ thr' = [thr EXCEPT ![j].pc = "open", ![j].path = new]
         /\ part' = Without({<<j, new, Url(j)>>})
  /\ UNCHANGED <<plan, events, beside, row, pending, final, sweep, clear>>

(* Register the part, set the filename, and open: "ab" when it had bytes   *)
(* at the time of Stat, "wb" otherwise.                                    *)
RegisterAndOpen(j) ==
  /\ thr[j].pc = "open"
  /\ LET k == PartPath(j)
     IN  /\ Update(j, [row[j] EXCEPT !.regs = @ \cup {k}, !.file = thr[j].path[2]])
         /\ part' = [part EXCEPT ![k] = IF thr[j].existing = 0 \/ @ = NoFile THEN {} ELSE @]
  /\ thr' = [thr EXCEPT ![j].pc = "read", ![j].downloaded = thr[j].existing]
  /\ UNCHANGED <<plan, events, beside, pending, final, lock, sweep, clear>>

(* One chunk.  A part unlinked meanwhile is written without its name.      *)
ReadChunk(j) ==
  /\ thr[j].pc = "read" /\ CheckJobControl(j) = "go" /\ thr[j].downloaded < Size
  /\ LET k == PartPath(j)
     IN  part' = [part EXCEPT ![k] = IF @ = NoFile THEN @ ELSE @ \cup {thr[j].downloaded + 1}]
  /\ thr' = [thr EXCEPT ![j].downloaded = @ + 1]
  /\ UNCHANGED <<plan, events, beside, row, pending, final, lock, sweep, clear>>

(* The body ends, early or not; the length is known to the client.         *)
BodyEnds(j) ==
  /\ thr[j].pc = "read"
  /\ IF thr[j].downloaded < Size THEN Raises(j, "badurl") ELSE Goto(j, "replace") /\ UNCHANGED lock
  /\ UNCHANGED <<plan, events, beside, row, pending, part, final, sweep, clear>>

Replace(j) ==
  /\ thr[j].pc = "replace"
  /\ LET k == PartPath(j)
     IN  IF part[k] = NoFile
           THEN Raises(j, "badentry") /\ UNCHANGED <<part, final>>
           ELSE /\ final' = [final EXCEPT ![thr[j].path] = [url |-> Url(j), has |-> part[k]]]
                /\ part' = Without({k})
                /\ Goto(j, "size") /\ UNCHANGED lock
  /\ UNCHANGED <<plan, events, beside, row, pending, sweep, clear>>

FinalSize(j) ==
  /\ thr[j].pc = "size"
  /\ Raises(j, IF final[thr[j].path] = NoFile THEN "badentry" ELSE "saved")
  /\ UNCHANGED <<plan, events, beside, row, pending, part, final, sweep, clear>>

-----------------------------------------------------------------------------
(* The handlers' loops over their entries.                                 *)

NextEntry(j, gain) ==
  thr' = [thr EXCEPT ![j].pc = "entry", ![j].at = @ + 1, ![j].alt = 1, ![j].saved = @ + gain]

(* Civitai and Hitomi try the next URL of a required file.                 *)
TryNextUrl(j) ==
  /\ thr[j].pc = "badurl"
  /\ IF Entry(j).need = "required" /\ CanOverride(j) /\ thr[j].alt < Len(Entry(j).urls)
       THEN thr' = [thr EXCEPT ![j].pc = "entry", ![j].alt = @ + 1]
       ELSE Goto(j, "badentry")
  /\ UNCHANGED <<plan, events, beside, row, pending, files, sweep, clear>>

FailedEntry(j, source, need) ==
  thr[j].pc = "badentry" /\ plan[j].source = source /\ Entry(j).need = need
SavedEntry(j, source, need) ==
  thr[j].pc = "saved" /\ plan[j].source = source /\ Entry(j).need = need

(* A required file fails the job; a track of ASMR.one is recorded as       *)
(* failed; a cover or a preview is done without.                           *)
RequiredFails(j) ==
  /\ thr[j].pc = "badentry" /\ Entry(j).need = "required"
  /\ Goto(j, "except")
  /\ UNCHANGED <<plan, events, beside, row, pending, files, sweep, clear>>

TrackFails(j) ==
  /\ FailedEntry(j, "asmrone", "counted") /\ NextEntry(j, 0)
  /\ UNCHANGED <<plan, events, beside, row, pending, files, sweep, clear>>

CoverFails(j) ==
  /\ FailedEntry(j, "asmrone", "optional") /\ NextEntry(j, 0)
  /\ UNCHANGED <<plan, events, beside, row, pending, files, sweep, clear>>

PreviewFails(j) ==
  /\ FailedEntry(j, "civitai", "optional") /\ NextEntry(j, 0)
  /\ UNCHANGED <<plan, events, beside, row, pending, files, sweep, clear>>

(* What a saved file does to the row: the filename is the file's or a      *)
(* count of files, and saved previews overwrite the metadata once more.    *)
NameOfSaved(j, gain, name) ==
  /\ NextEntry(j, gain)
  /\ Update(j, [row[j] EXCEPT !.file = name])
  /\ UNCHANGED <<plan, events, beside, pending, files, sweep, clear>>

GenericSaved(j) == SavedEntry(j, "generic", "required") /\ NameOfSaved(j, 1, thr[j].path[2])
PageSaved(j) == SavedEntry(j, "hitomi", "required") /\ NameOfSaved(j, 1, thr[j].path[2])
ModelFileSaved(j) == SavedEntry(j, "civitai", "required") /\ NameOfSaved(j, 1, NoName)
TrackSaved(j) == SavedEntry(j, "asmrone", "counted") /\ NameOfSaved(j, 1, NoName)
CoverSaved(j) == SavedEntry(j, "asmrone", "optional") /\ NameOfSaved(j, 0, NoName)
PreviewSaved(j) ==
  /\ SavedEntry(j, "civitai", "optional") /\ NextEntry(j, 0)
  /\ Update(j, [row[j] EXCEPT !.regs = {}])
  /\ UNCHANGED <<plan, events, beside, pending, files, sweep, clear>>

(* ASMR.one looks into the saved file, after its lock is released.         *)
ValidationRejects(j) ==
  /\ thr[j].pc = "saved" /\ plan[j].source = "asmrone"
  /\ final' = [final EXCEPT ![thr[j].path] = NoFile]
  /\ NextEntry(j, 0)
  /\ UNCHANGED <<plan, events, beside, row, pending, part, lock, sweep, clear>>

NothingSaved(j) ==
  /\ AllEntriesTried(j) /\ thr[j].saved = 0
  /\ Goto(j, "except")
  /\ UNCHANGED <<plan, events, beside, row, pending, files, sweep, clear>>

Finish(j) ==
  /\ AllEntriesTried(j) /\ thr[j].saved > 0 /\ CheckJobControl(j) = "go"
  /\ Update(j, [row[j] EXCEPT !.status = "done"])
  /\ thr' = [thr EXCEPT ![j] = Idle]
  /\ UNCHANGED <<plan, events, beside, pending, files, sweep, clear>>

(* job_runner on an exception: the status read decides.                    *)
RunnerExcept(j) ==
  /\ thr[j].pc = "except"
  /\ IF row[j].status \in {"pausing", "paused", "canceling", "canceled", "deleting"}
       THEN /\ thr' = [thr EXCEPT ![j].pc = "stop", ![j].stop = CheckJobControl(j)]
            /\ UNCHANGED row
       ELSE /\ Update(j, [row[j] EXCEPT !.status = "failed"])
            /\ thr' = [thr EXCEPT ![j] = Idle]
  /\ UNCHANGED <<plan, events, beside, pending, files, sweep, clear>>

HandleControlStop(j) ==
  /\ thr[j].pc = "stop" /\ thr[j].stop # "deleted"
  /\ Update(j, [row[j] EXCEPT !.status = thr[j].stop])
  /\ thr' = [thr EXCEPT ![j] = Idle]
  /\ UNCHANGED <<plan, events, beside, pending, files, sweep, clear>>

HandleDeleted(j) ==
  /\ thr[j].pc = "stop" /\ thr[j].stop = "deleted" /\ sweep[j] = NoSweep
  /\ sweep' = [sweep EXCEPT ![j] = [step |-> "partials", job |-> j, target |-> {}]]
  /\ Goto(j, "sweeping")
  /\ UNCHANGED <<plan, events, beside, row, pending, files, clear>>

-----------------------------------------------------------------------------
(* Removing what belongs to a job: the steps of a delete request on a job  *)
(* without a thread, of a thread that was told to delete, and of a restart *)

Step(a, step) == sweep' = [sweep EXCEPT ![a].step = step]

SweepPartials(a) ==
  /\ sweep[a].step = "partials"
  /\ part' = Without(PartialsOf(sweep[a].job))
  /\ Step(a, "reference")
  /\ UNCHANGED <<plan, events, beside, row, pending, thr, final, lock, clear>>

(* job_local_delete_target: Generic and ASMR.one name one file by the      *)
(* row's filename, the others their whole directory.                       *)
ByDirectory(j) == plan[j].source \in {"civitai", "hitomi"}
LocalTarget(j) ==
  IF Gone(j) \/ row[j].dir = NoName THEN {}
  ELSE IF ByDirectory(j) THEN {row[j].dir} \X Names
  ELSE {row[j].dir} \X ({row[j].file} \ {NoName})
IsReferenced(j) ==
  \E o \in Jobs \ {j} :
     /\ ~Gone(o) /\ row[o].dir = row[j].dir /\ row[o].dir # NoName
     /\ ByDirectory(j) \/ row[o].file = row[j].file

(* Unlink the file, or the directory with the parts of any job in it.      *)
RemoveLocal(j, target, parts) ==
  /\ final' = [p \in Paths |-> IF p \in target THEN NoFile ELSE final[p]]
  /\ part' = [k \in PartKeys |-> IF ByDirectory(j) /\ k[2] \in target THEN NoFile ELSE parts[k]]

SweepReference(a) ==
  /\ sweep[a].step = "reference"
  /\ LET j == sweep[a].job
         spared == LocalTarget(j) = {} \/ IsReferenced(j)
     IN  sweep' = [sweep EXCEPT ![a].step = IF spared THEN "row" ELSE "remove",
                                ![a].target = IF spared THEN {} ELSE LocalTarget(j)]
  /\ UNCHANGED <<plan, events, beside, row, pending, thr, files, clear>>

SweepRemove(a) ==
  /\ sweep[a].step = "remove"
  /\ RemoveLocal(sweep[a].job, sweep[a].target, part)
  /\ Step(a, "row")
  /\ UNCHANGED <<plan, events, beside, row, pending, thr, lock, clear>>

SweepRow(a) ==
  /\ sweep[a].step = "row"
  /\ LET j == sweep[a].job
     IN  row' = [row EXCEPT ![j] = NoRow]
  /\ sweep' = [sweep EXCEPT ![a] = NoSweep]
  /\ thr' = IF a \in Jobs THEN [thr EXCEPT ![a] = Idle] ELSE thr
  /\ UNCHANGED <<plan, events, beside, pending, files, clear>>

-----------------------------------------------------------------------------
(* Requests.  A status is read and written in one step here: the races of  *)
(* those two are the subject of DownloadQueue.                             *)

Free(c) == sweep[c] = NoSweep /\ ~clear[c].on

ApiPauseJob(j) ==
  /\ "pause" \in events /\ row[j].status \in {"queued", "running"}
  /\ Update(j, [row[j] EXCEPT !.status = IF @ = "queued" THEN "paused" ELSE "pausing"])
  /\ pending' = IF row[j].status = "queued" THEN pending \ {j} ELSE pending
  /\ UNCHANGED <<plan, events, beside, thr, files, sweep, clear>>

ApiResumeOrRetryJob(j) ==
  /\ "retry" \in events /\ row[j].status \in {"paused", "failed", "canceled"}
  /\ Update(j, [row[j] EXCEPT !.status = "queued"])
  /\ pending' = pending \cup {j}
  /\ UNCHANGED <<plan, events, beside, thr, files, sweep, clear>>

DeleteRunning(j) ==
  /\ "delete" \in events /\ row[j].status \in {"running", "pausing"}
  /\ Update(j, [row[j] EXCEPT !.status = "deleting"])
  /\ UNCHANGED <<plan, events, beside, pending, thr, files, sweep, clear>>

(* "overlap" lets a removal begin while a job it is about has a thread, or *)
(* the job get a thread during the removal.                                *)
Busy == {j \in Jobs : thr[j].pc # "idle"}
MayOverlap(j) == "overlap" \in events \/ j \notin Busy

DeleteIdle(c, j) ==
  /\ "delete" \in events /\ Free(c) /\ MayOverlap(j)
  /\ row[j].status \notin {"gone", "running", "pausing", "deleting"}
  /\ pending' = pending \ {j}
  /\ sweep' = [sweep EXCEPT ![c] = [step |-> "partials", job |-> j, target |-> {}]]
  /\ beside' = beside \cup ({j} \cap Busy)
  /\ UNCHANGED <<plan, events, row, thr, files, clear>>

ClearLists(c) ==
  /\ "clear" \in events /\ Free(c) /\ \A j \in Jobs : MayOverlap(j)
  /\ clear' = [clear EXCEPT ![c] = [on |-> TRUE, left |-> {j \in Jobs : InactiveRow(j)}]]
  /\ beside' = beside \cup Busy
  /\ UNCHANGED <<plan, events, row, pending, thr, files, sweep>>

ClearPartials(c, j) ==
  /\ clear[c].on /\ j \in clear[c].left
  /\ part' = Without(PartialsOf(j))
  /\ clear' = [clear EXCEPT ![c].left = @ \ {j}]
  /\ UNCHANGED <<plan, events, beside, row, pending, thr, final, lock, sweep>>

ClearRows(c) ==
  /\ clear[c].on /\ clear[c].left = {}
  /\ row' = [j \in Jobs |-> IF InactiveRow(j) THEN NoRow ELSE row[j]]
  /\ clear' = [clear EXCEPT ![c] = NoClear]
  /\ UNCHANGED <<plan, events, beside, pending, thr, files, sweep>>

-----------------------------------------------------------------------------
(* A crash keeps rows and files.  The restart settles the rows one by one, *)
(* before a thread starts or a request is served.                          *)

Crash ==
  /\ "crash" \in events
  /\ thr' = [j \in Jobs |-> Idle]
  /\ lock' = [p \in Paths |-> NoFile]
  /\ sweep' = [a \in Actors |-> NoSweep]
  /\ clear' = [c \in Clients |-> NoClear]
  /\ row' = [j \in Jobs |-> [row[j] EXCEPT !.status =
                CASE @ = "running" -> "queued" [] @ = "pausing" -> "paused"
                  [] @ = "canceling" -> "canceled" [] OTHER -> @]]
  /\ pending' = {j \in Jobs : row'[j].status = "queued"}
  /\ UNCHANGED <<plan, events, beside, part, final>>

Booting == \E j \in Jobs : row[j].status = "deleting" /\ thr[j].pc = "idle"

EnqueueExistingJobs(j) ==
  /\ row[j].status = "deleting" /\ thr[j].pc = "idle"
  /\ RemoveLocal(j, IF IsReferenced(j) THEN {} ELSE LocalTarget(j), Without(PartialsOf(j)))
  /\ row' = [row EXCEPT ![j] = NoRow]
  /\ UNCHANGED <<plan, events, beside, pending, thr, lock, sweep, clear>>

-----------------------------------------------------------------------------
Sweeping(a) == SweepPartials(a) \/ SweepReference(a) \/ SweepRemove(a) \/ SweepRow(a)

ThreadStep(j) ==
  \/ RunJob(j) \/ StopsBetweenStreams(j) \/ FetchJsonFails(j)
  \/ GenericBegins(j) \/ AsmroneBegins(j) \/ CivitaiBegins(j) \/ HitomiBegins(j)
  \/ KeepsExisting(j) \/ StreamBegins(j) \/ Acquire(j) \/ Stat(j) \/ StopsInStream(j)
  \/ RequestFails(j) \/ RangeNotSatisfiable(j) \/ PartialContent(j) \/ FullContent(j)
  \/ Relock(j) \/ RegisterAndOpen(j) \/ ReadChunk(j) \/ BodyEnds(j) \/ Replace(j)
  \/ FinalSize(j) \/ TryNextUrl(j) \/ RequiredFails(j) \/ TrackFails(j) \/ CoverFails(j)
  \/ PreviewFails(j) \/ GenericSaved(j) \/ PageSaved(j) \/ ModelFileSaved(j) \/ TrackSaved(j)
  \/ CoverSaved(j) \/ PreviewSaved(j) \/ ValidationRejects(j)
  \/ NothingSaved(j) \/ Finish(j) \/ RunnerExcept(j) \/ HandleControlStop(j)
  \/ HandleDeleted(j) \/ Sweeping(j)

Request(j) == ApiPauseJob(j) \/ ApiResumeOrRetryJob(j) \/ DeleteRunning(j)

ClientStep(c) ==
  \/ ClearLists(c) \/ ClearRows(c) \/ Sweeping(c)
  \/ \E j \in Jobs : DeleteIdle(c, j) \/ ClearPartials(c, j)

Next ==
  \/ \E j \in Jobs : EnqueueExistingJobs(j)
  \/ /\ ~Booting
     /\ \/ \E j \in Jobs : RunnerStart(j) \/ ThreadStep(j) \/ Request(j)
        \/ \E c \in Clients : ClientStep(c)
  \/ Crash

Spec == Init /\ [][Next]_vars

(* Fairness: a thread that can go on does, and a request is answered.      *)
(* Nothing is said of the network, of other requests and of crashes, and   *)
(* only the threads of FairJobs are assumed to run.                        *)
FairSpec ==
  /\ Spec
  /\ \A j \in FairJobs : WF_vars(ThreadStep(j) /\ ~Booting) /\ WF_vars(EnqueueExistingJobs(j))

-----------------------------------------------------------------------------
(* A condition on the scenarios, for theorems about every instance.        *)

(* No removal overlaps with a start of its job, and no job whose directory *)
(* is removed shares it with another.                                      *)
RemovalsApart ==
  \A s \in Scenarios :
    /\ "overlap" \notin s.events
    /\ \A j, o \in Jobs : j # o /\ s.plan[j].source \in {"civitai", "hitomi"} =>
         s.plan[j].dirs \cap s.plan[o].dirs = {}

-----------------------------------------------------------------------------
(* Properties.                                                             *)

(* Every variable has its type.                                            *)
TypeOK ==
  /\ \E s \in Scenarios : plan = s.plan /\ events = s.events
  /\ \A j \in Jobs :
       /\ row[j].status \in {"gone", "queued", "running", "paused", "pausing", "deleting",
                             "canceling", "canceled", "failed", "done"}
       /\ row[j].dir \in Dirs \cup {NoName} /\ row[j].file \in Names \cup {NoName}
       /\ row[j].regs \subseteq PartKeys
       /\ thr[j].pc \in {"idle", "begin", "manifest", "entry", "lock", "stat", "request", "relock",
                         "open", "read", "replace", "size", "badurl", "badentry", "saved",
                         "except", "stop", "sweeping"}
       /\ thr[j].path \in Paths \cup {NoFile}
       /\ thr[j].existing \in 0..Size /\ thr[j].downloaded \in 0..Size
  /\ pending \subseteq Jobs
  /\ \A k \in PartKeys : part[k] = NoFile \/ part[k] \subseteq Chunks
  /\ \A p \in Paths : /\ final[p] = NoFile \/ final[p].url \in Urls
                      /\ lock[p] \in Jobs \cup {NoFile}
  /\ \A a \in Actors : sweep[a].step \in {"none", "partials", "reference", "remove", "row"}
  /\ \A c \in Clients : clear[c].left \subseteq Jobs
  /\ beside \subseteq Jobs

(* A file under its final name is all of one body: pauses, failures, lost  *)
(* connections, restarts and answers that ignore the range never leave a   *)
(* truncated or spliced file where the library looks.  stream_download     *)
FinalWhole == \A p \in Paths : final[p] # NoFile => final[p].has = Chunks

(* A clean-up of the job finds this part: it is registered in the row, or  *)
(* lies under the row's target directory.                                  *)
Found(k) == k \in PartialsOf(k[1])

(* Every part on the disk can be found, and what can be found now can be   *)
(* found later, so that a delete or a clear leaves none behind that no row *)
(* leads to, but for two cases.  A handler that writes the metadata as a   *)
(* whole forgets the parts of earlier attempts when its route has changed  *)
(* since.  And a row is removed while a thread of the job runs, or starts, *)
(* beside the removal.  update_job_archive_info, api_clear_jobs            *)
RouteChanges(j) == (CivitaiBegins(j) \/ HitomiBegins(j)) /\ row'[j].dir # row[j].dir
PartsAreFound ==
  [][\A k \in PartKeys :
       part'[k] # NoFile /\ ~Found(k)' /\ (part[k] = NoFile \/ Found(k))
         => RouteChanges(k[1]) \/ (k[1] \in beside' /\ Gone(k[1])')]_vars

(* What a job has fetched survives its pauses and failures: neither the    *)
(* stop nor the time until a retry takes a byte of a part, unless the job  *)
(* or the directory is being removed.  stream_download, handle_control_stop *)
StopKeepsBytes ==
  [][\A k \in PartKeys :
       LET j == k[1]
           stops == thr[j].pc # "stop" /\ thr'[j].pc = "stop" /\ thr'[j].stop = "paused"
       IN  part[k] # NoFile /\ (row[j].status \in {"paused", "failed"} \/ stops)
             => \/ part'[k] # NoFile /\ part[k] \subseteq part'[k]
                \/ \E a \in Actors : sweep[a].job = j \/ k[2] \in sweep[a].target
                \/ \E c \in Clients : j \in clear[c].left
                \/ Booting]_vars

(* A pause or a delete of a running job takes effect, whatever the other   *)
(* jobs do, also while it waits for a lock another thread never gives up.  *)
(* check_job_control, FinalPathLockGuard.acquire_for                       *)
ControlTakesEffect ==
  \A j \in FairJobs : /\ (row[j].status = "pausing" ~> row[j].status # "pausing")
                        /\ (row[j].status = "deleting" ~> row[j].status # "deleting")

=============================================================================
