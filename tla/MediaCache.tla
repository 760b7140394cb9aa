----------------------------- MODULE MediaCache -----------------------------
(***************************************************************************)
(* The media cache and folder archives.  Jobs make browser copies and      *)
(* posters of videos, ZIP files of folders and batches of thumbnails; a    *)
(* request for one thumbnail makes it in its own thread.  An output is     *)
(* named after the version of its source, written to a temporary file and  *)
(* renamed; ffmpeg runs under a semaphore, and but for posters under a     *)
(* lock of its key.  A ZIP is written under its final name.  Clean-up      *)
(* removes files by age and quota while all of this goes on.               *)
(***************************************************************************)
EXTENDS Integers, FiniteSets

CONSTANTS
  Jobs, Workers,   \* job threads; threads of requests and of a batch's pool
  Sources,
  MaxVersion,      \* bound: rewrites of one source
  Scenarios        \* kind of each job, thumbnail requests, sources, slots, quota,
                   \* events; bound: runs of one thread

ASSUME ScenarioAssumption ==
  \A s \in Scenarios : /\ s.kind \in [Jobs -> {"play", "poster", "zip", "fill", "unused"}]
                       /\ s.requests \subseteq Workers /\ s.sources \subseteq Sources
                       /\ s.slots \in Nat \ {0} /\ s.quota \in Nat /\ s.runs \in Nat
ASSUME ThreadAssumption == Jobs \cap Workers = {} /\ "none" \notin Jobs \cup Workers

Threads == Jobs \cup Workers
Outputs == {"play", "poster", "thumb"} \X Sources \X (1..MaxVersion)

VARIABLES
  sc,        \* the scenario, chosen once
  version,   \* version of a source (size and mtime), 0 when it is gone
  cache,     \* MEDIA_CACHE_DIR: of a finished output, the version it was made
             \* from, 0 when that changed meanwhile
  temp,      \* the same of a temporary file
  stale,     \* outputs and temporary files older than the TTL
  lock,      \* holder of a key: MEDIA_TRANSCODE_LOCKS, MEDIA_THUMBNAIL_LOCKS
  free,      \* MEDIA_TRANSCODE_SEMAPHORE
  zips,      \* DOWNLOAD_ARCHIVE_DIR: <<job, run, whole>>
  zfree,     \* DOWNLOAD_ARCHIVE_SEMAPHORE
  thread,    \* a thread and, for a job, its row
  crashed

files == <<cache, temp, stale>>
slots == <<lock, free, zfree>>
vars == <<sc, version, cache, temp, stale, lock, free, zips, zfree, thread, crashed>>

Empty == [o \in {} |-> 0]
With(f, o, e) == [p \in DOMAIN f \cup {o} |-> IF p = o THEN e ELSE f[p]]
Without(f, o) == [p \in DOMAIN f \ {o} |-> f[p]]
Idle == [pc |-> "rest", run |-> 0, status |-> "none", src |-> "none", owner |-> "none",
         first |-> 0, second |-> 0, read |-> 0, art |-> <<>>, results |-> [s \in Sources |-> "none"]]

Init ==
  /\ sc \in Scenarios
  /\ version = [s \in Sources |-> IF s \in sc.sources THEN 1 ELSE 0]
  /\ cache = Empty /\ temp = Empty /\ stale = {}
  /\ lock = Empty /\ free = sc.slots
  /\ zips = {} /\ zfree = 1
  /\ thread = [t \in Threads |-> Idle] /\ crashed = FALSE

Kind(t) == IF t \in Jobs THEN sc.kind[t] ELSE "thumb"
At(t, pc) == thread[t].pc = pc
To(t, pc) == thread' = [thread EXCEPT ![t].pc = pc]
Has(o) == o \in DOMAIN cache
Stopping(j) == thread[j].status \in {"pausing", "canceling"}

(* Mutant: the name does not depend on the version. *)
UnversionedKey(kind, s, v) == <<kind, s, 1>>
(* media_cache_key, media_thumbnail_cache_key *)
Key(kind, s, v) == <<kind, s, v>>
(* Two looks at the source name the output and, for the lock and the       *)
(* temporary file, its key; a thumbnail's key is first.                    *)
TargetOf(t) == Key(Kind(t), thread[t].src, IF Kind(t) = "thumb" THEN thread[t].second ELSE thread[t].first)
KeyOf(t) == Key(Kind(t), thread[t].src, IF Kind(t) = "thumb" THEN thread[t].first ELSE thread[t].second)

-----------------------------------------------------------------------------
(* What requests are told.                                                 *)

Ready(kind, s) == version[s] > 0 /\ Has(Key(kind, s, version[s]))
(* /api/media/play, /poster, when ready; otherwise a job is required *)
Served(kind, s) == cache[Key(kind, s, version[s])]
(* The file of a job: refused before it is done and once it is gone. *)
Artifact(j) ==
  IF thread[j].art = <<>> \/ thread[j].status # "done" THEN {}
  ELSE IF sc.kind[j] = "zip" THEN {z \in zips : <<z[1], z[2]>> = thread[j].art}
  ELSE {o \in {thread[j].art} : Has(o)}

-----------------------------------------------------------------------------
(* How a thread ends.                                                      *)

Outcome(j, how) ==
  CASE thread[j].status = "pausing" -> "paused"
    [] thread[j].status = "canceling" -> "canceled"
    [] OTHER -> IF how = "failed" THEN "failed" ELSE "done"

Unlocked(t) == [o \in {p \in DOMAIN lock : lock[p] # t} |-> lock[o]]

Ends(t, how) ==
  thread' =
    IF t \in Jobs THEN [thread EXCEPT ![t].pc = "rest", ![t].status = Outcome(t, how)]
    ELSE IF thread[t].owner = "none" THEN [thread EXCEPT ![t].pc = "rest"]
    ELSE [thread EXCEPT ![t].pc = "rest", ![t].owner = "none",
                        ![thread[t].owner].results[thread[t].src] = how]

-----------------------------------------------------------------------------
(* Requests and the scheduler.                                             *)

CreateJob(j) ==
  /\ sc.kind[j] # "unused" /\ thread[j].status = "none"
  /\ \E s \in sc.sources :
       /\ version[s] > 0
       /\ sc.kind[j] \in {"play", "poster"} => ~Ready(sc.kind[j], s)
       /\ thread' = [thread EXCEPT ![j].status = "queued", ![j].src = s]
  /\ UNCHANGED <<sc, version, files, slots, zips, crashed>>

Start(j) ==
  /\ thread[j].status = "queued" /\ thread[j].pc = "rest" /\ thread[j].run < sc.runs
  /\ thread' = [thread EXCEPT ![j] = [Idle EXCEPT
                  !.pc = IF sc.kind[j] \in {"zip", "fill"} THEN sc.kind[j] ELSE "begin",
                  !.status = "running", !.src = thread[j].src, !.run = thread[j].run + 1,
                  !.art = thread[j].art]]
  /\ UNCHANGED <<sc, version, files, slots, zips, crashed>>

(* GET /api/media/thumbnail *)
RequestThumbnail(w) ==
  /\ w \in sc.requests /\ At(w, "rest") /\ thread[w].run < sc.runs
  /\ \E s \in sc.sources :
       thread' = [thread EXCEPT ![w] = [Idle EXCEPT !.pc = "begin", !.src = s, !.run = thread[w].run + 1]]
  /\ UNCHANGED <<sc, version, files, slots, zips, crashed>>

-----------------------------------------------------------------------------
(* Making an output.                                                       *)

MadeMeanwhile(o) == Has(o)

FirstLook(t) ==
  /\ At(t, "begin")
  /\ LET s == thread[t].src
     IN  IF version[s] = 0 \/ Stopping(t) THEN Ends(t, "failed")
         ELSE thread' = [thread EXCEPT ![t].first = version[s], ![t].second = 0,
                ![t].pc = IF Kind(t) # "thumb" /\ Ready(Kind(t), s) THEN "record" ELSE "second"]
  /\ UNCHANGED <<sc, version, files, slots, zips, crashed>>

SecondLook(t) ==
  /\ At(t, "second")
  /\ LET s == thread[t].src
     IN  IF version[s] = 0 THEN Ends(t, "failed")
         ELSE IF Kind(t) = "thumb" /\ Ready("thumb", s) THEN Ends(t, "skipped")
         ELSE thread' = [thread EXCEPT ![t].second = version[s],
                           ![t].pc = IF Kind(t) = "poster" THEN "control" ELSE "lock"]
  /\ UNCHANGED <<sc, version, files, slots, zips, crashed>>

(* Under the lock: look again, remove what a crash left of this key. *)
Lock(t) ==
  /\ At(t, "lock") /\ KeyOf(t) \notin DOMAIN lock
  /\ IF MadeMeanwhile(TargetOf(t))
     THEN /\ IF t \in Jobs THEN To(t, "record") ELSE Ends(t, "generated")
          /\ UNCHANGED <<temp, lock>>
     ELSE /\ lock' = With(lock, KeyOf(t), t)
          /\ temp' = Without(temp, KeyOf(t))
          /\ To(t, IF t \in Jobs THEN "control" ELSE "semaphore")
  /\ UNCHANGED <<sc, version, cache, stale, free, zips, zfree, crashed>>

(* The row is written and read once more before ffmpeg. *)
Control(t) ==
  /\ At(t, "control")
  /\ IF Stopping(t) \/ (Kind(t) = "play" /\ version[thread[t].src] = 0)
     THEN Ends(t, "failed") /\ lock' = Unlocked(t)
     ELSE To(t, "semaphore") /\ UNCHANGED lock
  /\ UNCHANGED <<sc, version, files, free, zips, zfree, crashed>>

SlotFree(n) == n > 0
Ffmpeg(t) ==
  /\ At(t, "semaphore") /\ SlotFree(free)
  /\ free' = free - 1
  /\ temp' = With(temp, KeyOf(t), [from |-> version[thread[t].src], whole |-> FALSE])
  /\ stale' = stale \ {<<"temp", KeyOf(t)>>}
  /\ thread' = [thread EXCEPT ![t].pc = "ffmpeg", ![t].read = version[thread[t].src]]
  /\ UNCHANGED <<sc, version, cache, lock, zips, zfree, crashed>>

FfmpegEnds(t) ==
  /\ At(t, "ffmpeg") /\ thread[t].read > 0
  /\ temp' = IF KeyOf(t) \notin DOMAIN temp THEN temp
             ELSE With(temp, KeyOf(t), [from |-> IF version[thread[t].src] = thread[t].read
                                                 THEN thread[t].read ELSE 0, whole |-> TRUE])
  /\ free' = free + 1 /\ To(t, "replace")
  /\ UNCHANGED <<sc, version, cache, stale, lock, zips, zfree, crashed>>

CleanedTemp(t) == Without(temp, KeyOf(t))
(* An error of ffmpeg, its timeout, a source that is gone. *)
FfmpegFails(t) ==
  /\ At(t, "ffmpeg") /\ ("fault" \in sc.events \/ version[thread[t].src] = 0)
  /\ temp' = CleanedTemp(t) /\ lock' = Unlocked(t) /\ free' = free + 1
  /\ Ends(t, "failed")
  /\ UNCHANGED <<sc, version, cache, stale, zips, zfree, crashed>>

Replace(t) ==
  /\ At(t, "replace")
  /\ IF KeyOf(t) \notin DOMAIN temp THEN Ends(t, "failed") /\ UNCHANGED <<cache, stale>>
     ELSE /\ cache' = With(cache, TargetOf(t), temp[KeyOf(t)])
          /\ stale' = stale \ {<<"cache", TargetOf(t)>>}
          /\ IF t \in Jobs THEN To(t, "record") ELSE Ends(t, "generated")
  /\ temp' = Without(temp, KeyOf(t))
  /\ lock' = Unlocked(t)
  /\ UNCHANGED <<sc, version, free, zips, zfree, crashed>>

(* The row is told its file, its status is read for the last time. *)
Record(t) ==
  /\ At(t, "record")
  /\ IF Kind(t) = "play" /\ version[thread[t].src] = 0 THEN Ends(t, "failed")
     ELSE thread' = [thread EXCEPT ![t].pc = "rest", ![t].status = Outcome(t, "done"),
                                   ![t].art = TargetOf(t)]
  /\ UNCHANGED <<sc, version, files, slots, zips, crashed>>

-----------------------------------------------------------------------------
(* A folder's ZIP.                                                         *)

Archive(j, whole) == <<j, thread[j].run, whole>>

(* Preflight, and an empty file of the final name before the semaphore. *)
ZipBegins(j) ==
  /\ At(j, "zip")
  /\ \/ /\ (Stopping(j) \/ version[thread[j].src] = 0 \/ "fault" \in sc.events)
        /\ Ends(j, "failed") /\ UNCHANGED zips
     \/ /\ ~Stopping(j) /\ version[thread[j].src] > 0
        /\ zips' = zips \cup {Archive(j, FALSE)} /\ To(j, "zipwait")
  /\ UNCHANGED <<sc, version, files, slots, crashed>>

ZipSemaphore(j) ==
  /\ At(j, "zipwait") /\ zfree > 0 /\ zfree' = zfree - 1 /\ To(j, "zipwrite")
  /\ UNCHANGED <<sc, version, files, lock, free, zips, crashed>>

(* Mutant: only an error of the disk removes the file. *)
AbortedByErrorOnly(j) == IF Stopping(j) THEN zips ELSE zips \ {Archive(j, FALSE)}
Aborted(j) == zips \ {Archive(j, FALSE)}
(* A control point every 8 MiB, or an error. *)
ZipAborts(j) ==
  /\ At(j, "zipwrite") /\ (Stopping(j) \/ "fault" \in sc.events)
  /\ zips' = Aborted(j) /\ zfree' = zfree + 1 /\ Ends(j, "failed")
  /\ UNCHANGED <<sc, version, files, lock, free, crashed>>

(* Mutant: the row is told the name before the file is complete. *)
Unfinished(j) == zips
Finished(j) == (zips \ {Archive(j, FALSE)}) \cup {Archive(j, TRUE)}
ZipEnds(j) ==
  /\ At(j, "zipwrite")
  /\ zips' = Finished(j) /\ zfree' = zfree + 1
  /\ thread' = [thread EXCEPT ![j].pc = "rest", ![j].status = Outcome(j, "done"),
                              ![j].art = <<j, thread[j].run>>]
  /\ UNCHANGED <<sc, version, files, lock, free, crashed>>

-----------------------------------------------------------------------------
(* A batch of thumbnails: a pool of threads, one source each.              *)

Mine(j) == {w \in Workers : thread[w].owner = j}
Left(j) == {s \in Sources : thread[j].results[s] = "left"}

FillBegins(j) ==
  /\ At(j, "fill")
  /\ LET candidates == {s \in sc.sources : version[s] > 0 /\ ~Ready("thumb", s)}
     IN  IF Stopping(j) \/ candidates = {} THEN Ends(j, "done")
         ELSE thread' = [thread EXCEPT ![j].pc = "pool", ![j].results =
                          [s \in Sources |-> IF s \in candidates THEN "left" ELSE "none"]]
  /\ UNCHANGED <<sc, version, files, slots, zips, crashed>>

(* A worker looks at the job's status before it takes a source; so does    *)
(* the job before it counts a result, and then waits for its pool.         *)
PoolTakes(j, w) ==
  /\ thread[j].pc \in {"pool", "drain"} /\ w \notin sc.requests /\ At(w, "rest") /\ Left(j) # {}
  /\ LET s == CHOOSE x \in Left(j) : TRUE
     IN  thread' = IF Stopping(j) THEN [thread EXCEPT ![j].results[s] = "stopped"]
                   ELSE [thread EXCEPT ![j].results[s] = "taken",
                           ![w] = [Idle EXCEPT !.pc = "begin", !.src = s, !.owner = j]]
  /\ UNCHANGED <<sc, version, files, slots, zips, crashed>>

(* Mutant: the job does not wait. *)
PoolLeft(j) == TRUE
PoolEmpty(j) == Left(j) = {} /\ Mine(j) = {}
FillCollects(j) ==
  /\ At(j, "pool") /\ \E s \in Sources : thread[j].results[s] \notin {"none", "left", "taken"}
  /\ Stopping(j) /\ To(j, "drain")
  /\ UNCHANGED <<sc, version, files, slots, zips, crashed>>
FillEnds(j) ==
  /\ thread[j].pc \in {"pool", "drain"}
  /\ IF At(j, "drain") THEN PoolEmpty(j) ELSE Left(j) = {} /\ Mine(j) = {}
  /\ Ends(j, "done")
  /\ UNCHANGED <<sc, version, files, slots, zips, crashed>>

-----------------------------------------------------------------------------
(* Users, sources, clean-up, restarts.                                     *)

PauseOrCancel(j) ==
  /\ "stop" \in sc.events /\ thread[j].status \in {"queued", "running"}
  /\ \E w \in {<<"pausing", "paused">>, <<"canceling", "canceled">>} :
       thread' = [thread EXCEPT ![j].status = IF @ = "running" THEN w[1] ELSE w[2]]
  /\ UNCHANGED <<sc, version, files, slots, zips, crashed>>

ResumeOrRetry(j) ==
  /\ thread[j].status \in {"paused", "failed", "canceled"} /\ thread[j].run \in 1..(sc.runs - 1)
  /\ thread' = [thread EXCEPT ![j].status = "queued"]
  /\ UNCHANGED <<sc, version, files, slots, zips, crashed>>

SourceChanges(s) ==
  /\ "edit" \in sc.events /\ version[s] > 0
  /\ \E v \in {0, version[s] + 1} : v <= MaxVersion /\ version' = [version EXCEPT ![s] = v]
  /\ UNCHANGED <<sc, files, slots, zips, thread, crashed>>

(* ffmpeg writes now and then: a temporary file in use may age too. *)
Ages(f) ==
  /\ "age" \in sc.events /\ f \notin stale
  /\ stale' = stale \cup {f}
  /\ UNCHANGED <<sc, version, cache, temp, slots, zips, thread, crashed>>

Scope(scope) == {o \in Outputs : scope = "all" \/ o[1] = "thumb"}

(* Mutant: temporary files are cleared as well. *)
AllCleared(o) == temp' = Without(temp, o)
TempSpared(o) == UNCHANGED temp
(* One file at a time: cleared, or the quota's, or too old. *)
ClearOrQuota(o, scope) ==
  /\ "clean" \in sc.events /\ o \in Scope(scope)
  /\ \/ sc.quota = 0
     \/ Cardinality({p \in Scope(scope) : Has(p)}) > sc.quota
  /\ cache' = Without(cache, o) /\ TempSpared(o)
  /\ stale' = stale \ {<<"cache", o>>}
  /\ UNCHANGED <<sc, version, slots, zips, thread, crashed>>
RemoveStale(f) ==
  /\ f \in stale /\ stale' = stale \ {f}
  /\ IF f[1] = "cache" THEN cache' = Without(cache, f[2]) /\ UNCHANGED temp
     ELSE temp' = Without(temp, f[2]) /\ UNCHANGED cache
  /\ UNCHANGED <<sc, version, slots, zips, thread, crashed>>

Booted(status) ==
  CASE status = "running" -> "queued" [] status = "pausing" -> "paused"
    [] status = "canceling" -> "canceled" [] OTHER -> status
(* Before the jobs are queued again old archives are removed. *)
Restart ==
  /\ "crash" \in sc.events /\ ~crashed /\ crashed' = TRUE
  /\ thread' = [t \in Threads |-> [thread[t] EXCEPT !.pc = "rest", !.owner = "none",
                                                    !.status = Booted(@)]]
  /\ lock' = Empty /\ free' = sc.slots /\ zfree' = 1
  /\ zips' \in {zips, {}}
  /\ UNCHANGED <<sc, version, files>>

-----------------------------------------------------------------------------
MakeStep(t) ==
  \/ FirstLook(t) \/ SecondLook(t) \/ Lock(t) \/ Control(t) \/ Ffmpeg(t)
  \/ FfmpegEnds(t) \/ FfmpegFails(t) \/ Replace(t) \/ Record(t)
JobStep(j) ==
  \/ ZipBegins(j) \/ ZipSemaphore(j) \/ ZipAborts(j) \/ ZipEnds(j)
  \/ FillBegins(j) \/ FillCollects(j) \/ FillEnds(j) \/ \E w \in Workers : PoolTakes(j, w)
CacheFiles == ({"cache"} \X DOMAIN cache) \cup ({"temp"} \X DOMAIN temp)

Next ==
  \/ \E t \in Threads : MakeStep(t)
  \/ \E j \in Jobs : CreateJob(j) \/ Start(j) \/ JobStep(j) \/ PauseOrCancel(j) \/ ResumeOrRetry(j)
  \/ \E w \in Workers : RequestThumbnail(w)
  \/ \E s \in Sources : SourceChanges(s)
  \/ \E f \in CacheFiles : Ages(f) \/ RemoveStale(f)
  \/ \E o \in DOMAIN cache \cup DOMAIN temp : ClearOrQuota(o, "all") \/ ClearOrQuota(o, "thumbnails")
  \/ Restart

Spec == Init /\ [][Next]_vars

-----------------------------------------------------------------------------
(* Properties.                                                             *)

(* Every variable has its type.                                            *)
TypeOK ==
  /\ sc \in Scenarios /\ version \in [Sources -> 0..MaxVersion]
  /\ \A f \in {cache, temp} : /\ DOMAIN f \subseteq Outputs
                             /\ \A o \in DOMAIN f : f[o] \in [from : 0..MaxVersion, whole : BOOLEAN]
  /\ stale \subseteq {"cache", "temp"} \X Outputs
  /\ DOMAIN lock \subseteq Outputs /\ \A o \in DOMAIN lock : lock[o] \in Threads
  /\ free \in 0..sc.slots /\ zfree \in 0..1
  /\ zips \subseteq Jobs \X (1..sc.runs) \X BOOLEAN /\ crashed \in BOOLEAN
  /\ DOMAIN thread = Threads

(* What a request for a source is served was made wholly of the source as  *)
(* it is, although it may change between the two looks that name the       *)
(* output and while ffmpeg reads it.  (Two poster jobs of one video are    *)
(* left out: they have no lock.)                                           *)
ServedIsCurrent ==
  \A kind \in {"play", "poster", "thumb"}, s \in Sources :
    Ready(kind, s) => Served(kind, s) = [from |-> version[s], whole |-> TRUE]

(* Every temporary file has the thread that writes it, of which no other   *)
(* thread holds the key: failures, timeouts and stops leave none, and only *)
(* a file that aged is taken from its thread.  (A crash leaves some.)      *)
TempHasWriter ==
  ~crashed =>
    /\ \A o \in DOMAIN temp :
         \E t \in Threads : thread[t].pc \in {"ffmpeg", "replace"} /\ KeyOf(t) = o
    /\ "age" \notin sc.events =>
         \A t \in Threads : thread[t].pc = "replace" => KeyOf(t) \in DOMAIN temp /\ temp[KeyOf(t)].whole

(* The file of a done job is complete, or gone.                            *)
DoneIsWhole ==
  \A j \in Jobs : \A a \in Artifact(j) :
    IF sc.kind[j] = "zip" THEN a[3] ELSE cache[a].whole

(* Whatever is offered, to a request for a source or as the file of a job, *)
(* is whole, and current where a source is asked for.                      *)
OfferedIsTrue == ServedIsCurrent /\ DoneIsWhole

(* An incomplete archive has a thread that writes it: stops and failures   *)
(* remove theirs.  (A crash leaves it to a later start's clean-up.)        *)
(* create_zip_archive                                                      *)
PartialHasWriter ==
  ~crashed => \A z \in zips : ~z[3] => thread[z[1]].pc \in {"zipwait", "zipwrite"} /\ thread[z[1]].run = z[2]

(* A batch that ended has no worker left, and one that is done has a       *)
(* result for every source it chose.  run_media_thumbnail_backfill_job     *)
BatchIsOver ==
  \A j \in Jobs : sc.kind[j] = "fill" /\ thread[j].pc = "rest" =>
    /\ \A w \in Workers : thread[w].owner # j
    /\ thread[j].status = "done" =>
         \A s \in Sources : thread[j].results[s] \in {"none", "generated", "skipped", "failed"}

(* What was begun has someone who will end it: temporary files of the      *)
(* media cache, incomplete archives, the workers of a batch.               *)
BegunHasOwner == TempHasWriter /\ PartialHasWriter /\ BatchIsOver

=============================================================================
