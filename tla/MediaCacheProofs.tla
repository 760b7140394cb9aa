-------------------------- MODULE MediaCacheProofs --------------------------
(***************************************************************************)
(* The media cache and the archives, for every number of jobs, workers,    *)
(* sources and versions: what is offered is whole and current, and what    *)
(* was begun has someone who will end it.                                  *)
(***************************************************************************)
EXTENDS MediaCache, TLAPS

Making == {"begin", "second", "lock", "control", "semaphore", "ffmpeg", "replace", "record"}
Writing == {"ffmpeg", "replace"}
Keyed == {"control", "semaphore", "ffmpeg", "replace"}
Zipping == {"zip", "zipwait", "zipwrite"}
Pooling == {"pool", "drain"}
Results == {"none", "left", "taken", "stopped", "generated", "skipped", "failed"}

(* The variables have their types.                                         *)
Thread ==
  [pc : Making \cup Zipping \cup Pooling \cup {"fill", "rest"}, run : Nat,
   status : {"none", "queued", "running", "pausing", "canceling", "paused", "canceled",
             "failed", "done"},
   src : Sources \cup {"none"}, owner : Jobs \cup {"none"},
   first : Nat, second : Nat, read : Nat,
   art : {<<>>} \cup (Jobs \X Nat) \cup ({"play", "poster", "thumb"} \X Sources \X Nat),
   results : [Sources -> Results]]
Output == [from : Nat, whole : BOOLEAN]
Typed ==
  /\ sc \in Scenarios /\ version \in [Sources -> Nat]
  /\ \A o \in DOMAIN cache : cache[o] \in Output
  /\ \A o \in DOMAIN temp : temp[o] \in Output
  /\ thread \in [Threads -> Thread] /\ zips \subseteq Jobs \X Nat \X BOOLEAN

(* Which threads are where, and which of them run.                         *)
PlaceFits(t) ==
  /\ thread[t].pc \in Making =>
       Kind(t) \in {"play", "poster", "thumb"} /\ thread[t].src \in Sources
  /\ thread[t].pc \in {"control", "record"} => t \in Jobs
  /\ thread[t].pc = "lock" => Kind(t) # "poster"
  /\ thread[t].pc \in Zipping => t \in Jobs /\ Kind(t) = "zip"
  /\ thread[t].pc \in Pooling \cup {"fill"} => t \in Jobs /\ Kind(t) = "fill"
  /\ t \in Workers => thread[t].status = "none"
  /\ t \in Jobs => /\ thread[t].owner = "none"
                   /\ thread[t].pc # "rest" <=>
                        thread[t].status \in {"running", "pausing", "canceling"}
                   /\ thread[t].status # "none" =>
                        thread[t].src \in Sources /\ sc.kind[t] # "unused"
Placed == \A t \in Threads : PlaceFits(t)

(* Versions only grow, until the source is gone: what a thread saw first   *)
(* is no newer than what it saw later.                                     *)
Older(v, s) == version[s] = 0 \/ v <= version[s]
LooksFit(t) ==
  LET r == thread[t] IN
  /\ r.pc \in Making \ {"begin"} => r.first > 0 /\ Older(r.first, r.src)
  /\ r.pc \in {"lock"} \cup Keyed => r.first <= r.second /\ Older(r.second, r.src)
  /\ r.pc \in Writing =>
       IF r.read = 0 THEN version[r.src] = 0 ELSE r.second <= r.read /\ Older(r.read, r.src)
Looked == \A t \in Threads : LooksFit(t)

(* A thread that makes an output holds its key; posters have none.         *)
Locked ==
  \A t \in Threads : thread[t].pc \in Keyed /\ Kind(t) # "poster" =>
    KeyOf(t) \in DOMAIN lock /\ lock[KeyOf(t)] = t

(* A finished temporary file is whole, and current if its name is.         *)
Version(t) == IF Kind(t) = "thumb" THEN thread[t].second ELSE thread[t].first
TempTrue ==
  \A t \in Threads : thread[t].pc = "replace" /\ KeyOf(t) \in DOMAIN temp =>
    /\ temp[KeyOf(t)].whole
    /\ Version(t) = version[thread[t].src] => temp[KeyOf(t)].from = Version(t)

(* So is every file of the cache, and none is newer than its source.       *)
CacheTrue ==
  /\ \A o \in DOMAIN cache : cache[o].whole
  /\ \A kind \in {"play", "poster", "thumb"}, s \in Sources, v \in Nat :
       Key(kind, s, v) \in DOMAIN cache =>
         v > 0 /\ Older(v, s) /\ (v = version[s] => cache[Key(kind, s, v)].from = v)

(* Temporary files and their threads.                                      *)
TempOwned ==
  /\ "age" \notin sc.events => stale = {}
  /\ ~crashed =>
       /\ \A o \in DOMAIN temp : \E t \in Threads : thread[t].pc \in Writing /\ KeyOf(t) = o
       /\ "age" \notin sc.events =>
            \A t \in Threads : thread[t].pc \in Writing => KeyOf(t) \in DOMAIN temp

(* Archives, of this run of a job and of earlier ones.                     *)
ZipsFit ==
  /\ \A z \in zips : z[2] <= thread[z[1]].run
  /\ ~crashed => \A z \in zips :
       ~z[3] => thread[z[1]].pc \in {"zipwait", "zipwrite"} /\ thread[z[1]].run = z[2]
  /\ \A j \in Jobs : sc.kind[j] = "zip" /\ thread[j].art # <<>> =>
       \E r \in Nat : /\ thread[j].art = <<j, r>> /\ <<j, r, FALSE>> \notin zips
                      /\ r <= thread[j].run
                      /\ thread[j].pc \in Zipping => r < thread[j].run

(* The workers of a batch and the sources they took.                       *)
OwnersFit ==
  \A w \in Workers : thread[w].owner # "none" =>
    /\ thread[w].pc \in Making /\ thread[thread[w].owner].pc \in Pooling
    /\ thread[thread[w].owner].results[thread[w].src] = "taken"
OwnersApart ==
  \A w, u \in Workers :
    thread[w].owner # "none" /\ thread[w].owner = thread[u].owner
      /\ thread[w].src = thread[u].src => w = u
ResultsFit(j, s) ==
  /\ thread[j].pc \in Pooling /\ thread[j].results[s] = "taken" =>
       \E w \in Workers : thread[w].owner = j /\ thread[w].src = s
  /\ thread[j].pc \in Pooling /\ thread[j].results[s] = "stopped" => Stopping(j)
  /\ thread[j].pc = "fill" => thread[j].results[s] = "none"
  /\ sc.kind[j] = "fill" /\ thread[j].pc = "rest" /\ thread[j].status = "done" =>
       thread[j].results[s] \in {"none", "generated", "skipped", "failed"}
BatchFits == OwnersFit /\ OwnersApart /\ \A j \in Jobs, s \in Sources : ResultsFit(j, s)

Inv ==
  /\ Typed /\ Placed /\ Looked /\ Locked /\ TempTrue /\ CacheTrue
  /\ TempOwned /\ ZipsFit /\ BatchFits

(* Two poster jobs of one video do not run at the same time: they have     *)
(* neither a lock nor a second look.                                       *)
PostersApart ==
  \A j, k \in Jobs :
    /\ sc.kind[j] = "poster" /\ sc.kind[k] = "poster"
    /\ thread[j].pc # "rest" /\ thread[k].pc # "rest" /\ thread[j].src = thread[k].src
    => j = k

-----------------------------------------------------------------------------
(* How threads change.                                                     *)

\* All of a thread but the results of its batch.
Same(r, e) ==
  /\ e.pc = r.pc /\ e.run = r.run /\ e.status = r.status /\ e.src = r.src
  /\ e.owner = r.owner /\ e.first = r.first /\ e.second = r.second
  /\ e.read = r.read /\ e.art = r.art
Frame(t) == \A u \in Threads \ {t} : Same(thread[u], thread'[u])
Calm == UNCHANGED <<sc, version, zips, crashed>>

\* One thread changes.
LEMMA Rows ==
  ASSUME Typed, NEW t \in Threads, NEW e \in Thread, thread' = [thread EXCEPT ![t] = e]
  PROVE  /\ thread' \in [Threads -> Thread] /\ thread'[t] = e /\ Frame(t)
         /\ \A u \in Threads \ {t} : thread'[u] = thread[u]
BY DEF Typed, Frame, Same

\* The fields of a thread.
LEMMA ThreadTyped ==
  ASSUME Typed, NEW t \in Threads
  PROVE  /\ thread[t] \in Thread
         /\ thread[t].first \in Nat /\ thread[t].second \in Nat /\ thread[t].read \in Nat
         /\ thread[t].run \in Nat /\ thread[t].results \in [Sources -> Results]
         /\ thread[t].owner \in Jobs \cup {"none"} /\ Threads = Jobs \cup Workers
         /\ sc.kind \in [Jobs -> {"play", "poster", "zip", "fill", "unused"}]
         /\ sc.sources \subseteq Sources /\ sc.requests \subseteq Workers
         /\ Jobs \cap Workers = {} /\ "none" \notin Threads
         /\ Kind(t) \in {"play", "poster", "zip", "fill", "unused", "thumb"}
         /\ (Kind(t) = "thumb") <=> (t \in Workers)
<1>1. thread[t] \in Thread BY DEF Typed
<1>2. /\ sc.kind \in [Jobs -> {"play", "poster", "zip", "fill", "unused"}]
      /\ sc.sources \subseteq Sources /\ sc.requests \subseteq Workers
  BY ScenarioAssumption DEF Typed
<1>3. Jobs \cap Workers = {} /\ "none" \notin Threads BY ThreadAssumption DEF Threads
<1>4. /\ Kind(t) \in {"play", "poster", "zip", "fill", "unused", "thumb"}
      /\ (Kind(t) = "thumb") <=> (t \in Workers)
  BY <1>2, <1>3 DEF Kind, Threads
<1> QED BY <1>1, <1>2, <1>3, <1>4 DEF Thread, Threads

Places == Making \cup Zipping \cup Pooling \cup {"fill", "rest"}
\* A thread that goes on changes its place and nothing else.
LEMMA Goes ==
  ASSUME Typed, NEW t \in Threads, NEW pc \in Places, To(t, pc)
  PROVE  /\ thread' \in [Threads -> Thread] /\ thread'[t].pc = pc /\ Frame(t)
         /\ thread'[t] = [thread[t] EXCEPT !.pc = pc]
         /\ Same([thread[t] EXCEPT !.pc = pc], thread'[t])
         /\ \A u \in Threads : thread'[u].results = thread[u].results
         /\ \A u \in Threads \ {t} : thread'[u] = thread[u]
<1>1. thread[t] \in Thread BY DEF Typed
<1>2. PICK e : e = [thread[t] EXCEPT !.pc = pc] OBVIOUS
<1>3. e \in Thread /\ e.results = thread[t].results /\ e.pc = pc
  BY <1>1, <1>2 DEF Thread, Places
<1>4. thread' = [thread EXCEPT ![t] = e] BY <1>2 DEF To
<1>5. /\ thread' \in [Threads -> Thread] /\ thread'[t] = e /\ Frame(t)
      /\ \A u \in Threads \ {t} : thread'[u] = thread[u]
  BY <1>3, <1>4, Rows
<1> QED BY <1>2, <1>3, <1>5 DEF Same

\* A thread ends; that of a batch hands in its result.
Hands(t, how) ==
  \A u \in Threads : thread'[u].results =
    IF thread[t].owner = u THEN [thread[u].results EXCEPT ![thread[t].src] = how]
    ELSE thread[u].results
\* What a thread that ends leaves in its record.
LEMMA EndsRow ==
  ASSUME Typed, NEW t \in Threads, thread[t].owner # "none" => t \in Workers /\ thread[t].src \in Sources,
         NEW how \in {"failed", "skipped", "generated", "done"},
         how = "done" => t \in Jobs,
         Ends(t, how)
  PROVE  /\ thread' \in [Threads -> Thread] /\ Frame(t) /\ Hands(t, how)
         /\ thread'[t].pc = "rest" /\ thread'[t].owner = "none"
         /\ thread'[t].run = thread[t].run /\ thread'[t].src = thread[t].src
         /\ thread'[t].art = thread[t].art
         /\ thread'[t].status = IF t \in Jobs THEN Outcome(t, how) ELSE thread[t].status
<1>1. /\ thread[t] \in Thread /\ "none" \notin Threads /\ Threads = Jobs \cup Workers
      /\ Jobs \cap Workers = {} /\ thread[t].owner \in Jobs \cup {"none"}
      /\ thread \in [Threads -> Thread]
  BY ThreadTyped DEF Typed
<1>2. CASE t \in Jobs
  <2>1. PICK st : st = Outcome(t, how) OBVIOUS
  <2>2. st \in {"paused", "canceled", "failed", "done"} BY <2>1 DEF Outcome
  <2>3. PICK e : e = [thread[t] EXCEPT !.pc = "rest", !.status = st] OBVIOUS
  <2>4. [thread[t] EXCEPT !.pc = "rest"] \in Thread BY <1>1, ZenonT(60) DEF Thread
  <2>5. e \in Thread BY <2>2, <2>3, <2>4, ZenonT(60) DEF Thread
  <2>6. thread' = [thread EXCEPT ![t] = e] BY <1>1, <1>2, <2>1, <2>3 DEF Ends
  <2>7. /\ thread' \in [Threads -> Thread] /\ thread'[t] = e /\ Frame(t)
        /\ \A u \in Threads \ {t} : thread'[u] = thread[u]
    BY <2>5, <2>6, Rows
  <2>8. /\ e.pc = "rest" /\ e.owner = thread[t].owner /\ e.run = thread[t].run
        /\ e.src = thread[t].src /\ e.art = thread[t].art /\ e.status = st
        /\ e.results = thread[t].results
    BY <1>1, <2>3 DEF Thread
  <2>9. thread[t].owner = "none" BY <1>1, <1>2
  <2>10. Hands(t, how) BY <1>1, <2>7, <2>8, <2>9 DEF Hands
  <2> QED BY <1>2, <2>1, <2>7, <2>8, <2>9, <2>10
<1>3. CASE t \notin Jobs /\ thread[t].owner = "none"
  <2>1. To(t, "rest") BY <1>3 DEF Ends, To
  <2>2. /\ thread' \in [Threads -> Thread] /\ thread'[t].pc = "rest" /\ Frame(t)
        /\ thread'[t] = [thread[t] EXCEPT !.pc = "rest"]
        /\ \A u \in Threads : thread'[u].results = thread[u].results
    BY <2>1, Goes DEF Places
  <2>3. Hands(t, how) BY <1>1, <1>3, <2>2 DEF Hands
  <2> QED BY <1>1, <1>3, <2>2, <2>3 DEF Thread
<1>4. CASE t \notin Jobs /\ thread[t].owner # "none"
  <2>1. PICK j : j = thread[t].owner OBVIOUS
  <2>2. j \in Threads /\ j # t /\ thread[j] \in Thread BY <1>1, <1>4, <2>1
  <2>3. PICK s : s = thread[t].src OBVIOUS
  <2>4. s \in Sources BY <1>4, <2>3
  <2>5. PICK e : e = [thread[t] EXCEPT !.pc = "rest", !.owner = "none"] OBVIOUS
  <2>6. [thread[t] EXCEPT !.pc = "rest"] \in Thread BY <1>1, ZenonT(60) DEF Thread
  <2>7. e \in Thread BY <2>5, <2>6 DEF Thread
  <2>8. PICK r : r = [thread[j].results EXCEPT ![s] = how] OBVIOUS
  <2>9. r \in [Sources -> Results] BY <1>4, <1>1, <2>2, <2>4, <2>8 DEF Thread, Results
  <2>10. PICK b : b = [thread[j] EXCEPT !.results = r] OBVIOUS
  <2>11. b \in Thread BY <2>2, <2>9, <2>10 DEF Thread
  <2>12. thread' = [[thread EXCEPT ![t] = e] EXCEPT ![j] = b]
    <3>1. thread' = [thread EXCEPT ![t].pc = "rest", ![t].owner = "none", ![j].results[s] = how]
      BY <1>4, <2>1, <2>3 DEF Ends
    <3>2. [thread EXCEPT ![t].pc = "rest", ![t].owner = "none"] = [thread EXCEPT ![t] = e]
      BY <1>1, <2>5 DEF Thread
    <3>3. thread' = [[thread EXCEPT ![t] = e] EXCEPT ![j].results[s] = how] BY <3>1, <3>2
    <3>4. [thread EXCEPT ![t] = e][j] = thread[j] BY <1>1, <2>2
    <3> QED BY <2>2, <2>8, <2>10, <3>3, <3>4 DEF Thread
  <2>13. /\ thread' \in [Threads -> Thread] /\ thread'[t] = e /\ thread'[j] = b
         /\ \A u \in Threads \ {t, j} : thread'[u] = thread[u]
    BY <1>1, <2>2, <2>7, <2>11, <2>12
  <2>14. Same(thread[j], b) /\ b.results = r BY <2>2, <2>9, <2>10 DEF Same, Thread
  <2>15. /\ e.pc = "rest" /\ e.owner = "none" /\ e.run = thread[t].run
         /\ e.src = thread[t].src /\ e.art = thread[t].art /\ e.status = thread[t].status
         /\ e.results = thread[t].results
    BY <1>1, <2>5 DEF Thread
  <2>16. Frame(t) BY <2>13, <2>14 DEF Frame, Same
  <2>17. Hands(t, how) BY <2>1, <2>2, <2>3, <2>8, <2>13, <2>14, <2>15 DEF Hands
  <2> QED BY <1>4, <2>13, <2>15, <2>16, <2>17
<1> QED BY <1>2, <1>3, <1>4

-----------------------------------------------------------------------------
(* Where threads are and what they have seen.                              *)

\* The other threads stay where they were.
LEMMA FramePlace ==
  ASSUME Inv, NEW t \in Threads, Frame(t), sc' = sc, PlaceFits(t)'
  PROVE  Placed'
<1> SUFFICES ASSUME NEW u \in Threads \ {t} PROVE PlaceFits(u)'
  BY DEF Placed
<1>1. Same(thread[u], thread'[u]) /\ PlaceFits(u) BY DEF Frame, Inv, Placed
<1>2. Kind(u)' = Kind(u) BY DEF Kind
<1> QED BY <1>1, <1>2 DEF Same, PlaceFits

\* The other threads have seen what they had seen.
LEMMA FrameLooks ==
  ASSUME Inv, NEW t \in Threads, Frame(t), UNCHANGED <<sc, version>>, LooksFit(t)'
  PROVE  Looked'
<1> SUFFICES ASSUME NEW u \in Threads \ {t} PROVE LooksFit(u)'
  BY DEF Looked
<1>1. Same(thread[u], thread'[u]) /\ LooksFit(u) BY DEF Frame, Inv, Looked
<1> QED BY <1>1 DEF Same, LooksFit, Older

\* A thread whose step is not its start was running.
LEMMA RestFits ==
  ASSUME Inv, NEW t \in Threads, sc' = sc,
         thread[t].pc # "rest", thread'[t].pc = "rest", thread'[t].owner = "none",
         thread'[t].src = thread[t].src,
         t \in Jobs => thread'[t].status \in {"paused", "canceled", "failed", "done"},
         t \in Workers => thread'[t].status = thread[t].status
  PROVE  PlaceFits(t)' /\ LooksFit(t)'
<1>1. PlaceFits(t) /\ Typed BY DEF Inv, Placed
<1>2. PlaceFits(t)'
  BY <1>1, ThreadTyped DEF PlaceFits, Making, Zipping, Pooling, Kind
<1>3. LooksFit(t)' BY DEF LooksFit, Making, Keyed, Writing
<1> QED BY <1>2, <1>3

\* A thread that goes on with its file stays at a place of its kind.
LEMMA MakingFits ==
  ASSUME Inv, NEW t \in Threads, sc' = sc,
         thread[t].pc \in Making, thread'[t].pc \in Making,
         thread'[t].owner = thread[t].owner, thread'[t].src = thread[t].src,
         thread'[t].status = thread[t].status,
         thread'[t].pc \in {"control", "record"} => t \in Jobs,
         thread'[t].pc = "lock" => Kind(t) # "poster"
  PROVE  PlaceFits(t)'
<1>1. PlaceFits(t) /\ Kind(t)' = Kind(t) BY DEF Inv, Placed, Kind
<1> QED BY <1>1 DEF PlaceFits, Making, Zipping, Pooling

\* What a thread has seen of its source is not newer than the source.
LEMMA SeenFits ==
  ASSUME NEW t \in Threads, version' = version, NEW e, thread'[t] = e,
         e.pc \in Making \ {"begin"} => e.first > 0 /\ Older(e.first, e.src),
         e.pc \in {"lock"} \cup Keyed => e.first <= e.second /\ Older(e.second, e.src),
         e.pc \in Writing =>
           IF e.read = 0 THEN version[e.src] = 0 ELSE e.second <= e.read /\ Older(e.read, e.src)
  PROVE  LooksFit(t)'
BY DEF LooksFit, Older

\* What the end of a thread leaves true.
LEMMA EndFits ==
  ASSUME Inv, NEW t \in Threads, thread[t].pc # "rest", sc' = sc,
         NEW how \in {"failed", "skipped", "generated", "done"},
         how = "done" => t \in Jobs, Ends(t, how)
  PROVE  /\ thread' \in [Threads -> Thread] /\ Frame(t) /\ Hands(t, how)
         /\ thread'[t].pc = "rest" /\ thread'[t].owner = "none"
         /\ thread'[t].run = thread[t].run /\ thread'[t].src = thread[t].src
         /\ thread'[t].art = thread[t].art
         /\ thread'[t].status = IF t \in Jobs THEN Outcome(t, how) ELSE thread[t].status
         /\ PlaceFits(t)' /\ LooksFit(t)'
<1>1. thread[t].owner # "none" => t \in Workers /\ thread[t].src \in Sources
  <2>1. t \in Jobs => thread[t].owner = "none" BY DEF Inv, Placed, PlaceFits
  <2>2. t \in Workers /\ thread[t].owner # "none" => thread[t].pc \in Making
    BY DEF Inv, BatchFits, OwnersFit
  <2>3. thread[t].pc \in Making => thread[t].src \in Sources BY DEF Inv, Placed, PlaceFits
  <2> QED BY <2>1, <2>2, <2>3 DEF Threads
<1>2. /\ thread' \in [Threads -> Thread] /\ Frame(t) /\ Hands(t, how)
      /\ thread'[t].pc = "rest" /\ thread'[t].owner = "none"
      /\ thread'[t].run = thread[t].run /\ thread'[t].src = thread[t].src
      /\ thread'[t].art = thread[t].art
      /\ thread'[t].status = IF t \in Jobs THEN Outcome(t, how) ELSE thread[t].status
  BY <1>1, EndsRow DEF Inv
<1>3. Outcome(t, how) \in {"paused", "canceled", "failed", "done"} BY DEF Outcome
<1>4. t \in Workers => t \notin Jobs BY ThreadAssumption
<1>5. PlaceFits(t)' /\ LooksFit(t)' BY <1>2, <1>3, <1>4, RestFits
<1> QED BY <1>2, <1>5

\* The thread of a step that makes an output.
Turns(t) ==
  /\ thread' \in [Threads -> Thread] /\ Frame(t)
  /\ PlaceFits(t)' /\ LooksFit(t)'
  /\ thread'[t].run = thread[t].run /\ thread'[t].src = thread[t].src
  /\ \/ /\ \E how \in {"failed", "skipped", "generated"} : Hands(t, how)
        /\ thread'[t].pc = "rest" /\ thread'[t].owner = "none"
     \/ /\ \A u \in Threads : thread'[u].results = thread[u].results
        /\ thread'[t].owner = thread[t].owner
        /\ thread'[t].pc \in Making \/ (thread'[t].pc = "rest" /\ t \in Jobs)

\* A thread that ends fits its place.
LEMMA EndTurns ==
  ASSUME Inv, NEW t \in Threads, thread[t].pc # "rest", sc' = sc,
         NEW how \in {"failed", "skipped", "generated"}, Ends(t, how)
  PROVE  Turns(t)
BY EndFits DEF Turns

\* A thread that goes on fits its new place.
LEMMA GoTurns ==
  ASSUME Inv, NEW t \in Threads, thread[t].pc \in Making, UNCHANGED <<sc, version>>,
         NEW pc \in {"control", "semaphore", "replace", "record"},
         pc \in {"control", "record"} => t \in Jobs,
         thread[t].pc # "begin", pc \in Keyed => thread[t].pc \in {"lock"} \cup Keyed,
         pc = "replace" => thread[t].pc = "ffmpeg",
         To(t, pc)
  PROVE  Turns(t) /\ thread'[t] = [thread[t] EXCEPT !.pc = pc] /\ Same([thread[t] EXCEPT !.pc = pc], thread'[t])
<1>1. Typed /\ LooksFit(t) BY DEF Inv, Looked
<1>2. pc \in Places /\ pc \in Making BY DEF Places, Making
<1>3. /\ thread' \in [Threads -> Thread] /\ thread'[t].pc = pc /\ Frame(t)
      /\ thread'[t] = [thread[t] EXCEPT !.pc = pc]
      /\ Same([thread[t] EXCEPT !.pc = pc], thread'[t])
      /\ \A u \in Threads : thread'[u].results = thread[u].results
  BY <1>1, <1>2, Goes
<1>4. /\ thread'[t].run = thread[t].run /\ thread'[t].src = thread[t].src
      /\ thread'[t].owner = thread[t].owner /\ thread'[t].status = thread[t].status
      /\ thread'[t].first = thread[t].first /\ thread'[t].second = thread[t].second
      /\ thread'[t].read = thread[t].read
  BY <1>1, <1>3, ThreadTyped DEF Thread
<1>5. PlaceFits(t)' BY <1>2, <1>3, <1>4, MakingFits
<1>6. LooksFit(t)' BY <1>1, <1>3, <1>4 DEF LooksFit, Older, Making, Keyed, Writing
<1> QED BY <1>2, <1>3, <1>4, <1>5, <1>6 DEF Turns

\* The looks at the source.
LEMMA FirstTurns ==
  ASSUME Inv, NEW t \in Threads, FirstLook(t)
  PROVE  Turns(t) /\ thread'[t].pc \in {"rest", "record", "second"}
<1>1. /\ Typed /\ PlaceFits(t) /\ thread[t].pc = "begin" /\ UNCHANGED <<sc, version>>
      /\ version \in [Sources -> Nat] /\ thread[t] \in Thread
  BY DEF Inv, Placed, FirstLook, At, Typed
<1>2. PICK s : s = thread[t].src OBVIOUS
<1>3. s \in Sources /\ version[s] \in Nat BY <1>1, <1>2 DEF PlaceFits, Making
<1>4. CASE Ends(t, "failed")
  BY <1>1, <1>4, EndTurns, EndFits
<1>5. CASE version[s] # 0 /\ ~Ends(t, "failed")
  <2>1. PICK pc \in {"record", "second"} :
          /\ thread' = [thread EXCEPT ![t].first = version[s], ![t].second = 0, ![t].pc = pc]
          /\ pc = "record" => Kind(t) # "thumb"
    BY <1>2, <1>5 DEF FirstLook
  <2>2. PICK e : e = [thread[t] EXCEPT !.first = version[s], !.second = 0, !.pc = pc] OBVIOUS
  <2>3. e \in Thread
    <3>1. [thread[t] EXCEPT !.first = version[s]] \in Thread BY <1>1, <1>3 DEF Thread
    <3>2. [thread[t] EXCEPT !.first = version[s], !.second = 0] \in Thread BY <3>1 DEF Thread
    <3> QED BY <2>1, <2>2, <3>2, ZenonT(60) DEF Thread, Making
  <2>4. thread' = [thread EXCEPT ![t] = e] BY <1>1, <2>1, <2>2 DEF Typed, Thread
  <2>5. /\ thread' \in [Threads -> Thread] /\ thread'[t] = e /\ Frame(t)
        /\ \A u \in Threads \ {t} : thread'[u] = thread[u]
    BY <1>1, <2>3, <2>4, Rows
  <2>6. /\ e.pc = pc /\ e.run = thread[t].run /\ e.src = s /\ e.owner = thread[t].owner
        /\ e.status = thread[t].status /\ e.first = version[s] /\ e.results = thread[t].results
    BY <1>1, <1>2, <2>1, <2>2 DEF Thread
  <2>7. PlaceFits(t)'
    <3>1. Kind(t) # "thumb" => t \in Jobs BY <1>1, ThreadTyped
    <3> QED BY <1>1, <1>2, <2>1, <2>5, <2>6, <3>1, MakingFits DEF Making
  <2>8. LooksFit(t)'
    <3>1. e.first > 0 /\ Older(e.first, e.src) BY <1>3, <1>5, <2>6 DEF Older
    <3>2. e.pc \notin {"lock"} \cup Keyed /\ e.pc \notin Writing BY <2>1, <2>6 DEF Keyed, Writing
    <3> QED BY <1>1, <2>5, <3>1, <3>2, SeenFits
  <2> QED BY <1>2, <2>1, <2>5, <2>6, <2>7, <2>8 DEF Turns, Making
<1> QED BY <1>2, <1>4, <1>5 DEF FirstLook

\* The second look at the cache leads to the lock, to the end or on.
LEMMA SecondTurns ==
  ASSUME Inv, NEW t \in Threads, SecondLook(t)
  PROVE  /\ Turns(t) /\ thread'[t].pc \in {"rest", "control", "lock"}
         /\ thread'[t].pc = "control" => Kind(t) = "poster"
<1>1. /\ Typed /\ PlaceFits(t) /\ LooksFit(t) /\ thread[t].pc = "second"
      /\ UNCHANGED <<sc, version>>
      /\ version \in [Sources -> Nat] /\ thread[t] \in Thread /\ thread[t].first \in Nat
  BY ThreadTyped DEF Inv, Placed, Looked, SecondLook, At, Typed
<1>2. PICK s : s = thread[t].src OBVIOUS
<1>3. s \in Sources /\ version[s] \in Nat BY <1>1, <1>2 DEF PlaceFits, Making
<1>4. CASE \E how \in {"failed", "skipped"} : Ends(t, how)
  BY <1>1, <1>4, EndTurns, EndFits
<1>5. CASE version[s] # 0 /\ ~ \E how \in {"failed", "skipped"} : Ends(t, how)
  <2>1. PICK pc \in {"control", "lock"} :
          /\ thread' = [thread EXCEPT ![t].second = version[s], ![t].pc = pc]
          /\ pc = "control" <=> Kind(t) = "poster"
    BY <1>2, <1>5 DEF SecondLook
  <2>2. PICK e : e = [thread[t] EXCEPT !.second = version[s], !.pc = pc] OBVIOUS
  <2>3. e \in Thread
    <3>1. [thread[t] EXCEPT !.second = version[s]] \in Thread BY <1>1, <1>3 DEF Thread
    <3> QED BY <2>1, <2>2, <3>1, ZenonT(60) DEF Thread, Making
  <2>4. thread' = [thread EXCEPT ![t] = e] BY <1>1, <2>1, <2>2 DEF Typed, Thread
  <2>5. /\ thread' \in [Threads -> Thread] /\ thread'[t] = e /\ Frame(t)
        /\ \A u \in Threads \ {t} : thread'[u] = thread[u]
    BY <1>1, <2>3, <2>4, Rows
  <2>6. /\ e.pc = pc /\ e.run = thread[t].run /\ e.src = s /\ e.owner = thread[t].owner
        /\ e.status = thread[t].status /\ e.first = thread[t].first /\ e.second = version[s]
        /\ e.results = thread[t].results
    BY <1>1, <1>2, <2>1, <2>2 DEF Thread
  <2>7. PlaceFits(t)'
    <3>1. Kind(t) = "poster" => t \in Jobs BY <1>1, ThreadTyped
    <3> QED BY <1>1, <1>2, <2>1, <2>5, <2>6, <3>1, MakingFits DEF Making
  <2>8. LooksFit(t)'
    <3>1. thread[t].first > 0 /\ thread[t].first <= version[s]
      BY <1>1, <1>2, <1>3, <1>5 DEF LooksFit, Older, Making
    <3>2. /\ e.first > 0 /\ Older(e.first, e.src)
          /\ e.first <= e.second /\ Older(e.second, e.src)
      BY <1>1, <1>3, <2>6, <3>1 DEF Older
    <3>3. e.pc \notin Writing BY <2>1, <2>6 DEF Writing
    <3> QED BY <1>1, <2>5, <3>2, <3>3, SeenFits
  <2> QED BY <1>2, <2>1, <2>5, <2>6, <2>7, <2>8 DEF Turns, Making
<1> QED BY <1>2, <1>4, <1>5 DEF SecondLook

\* ffmpeg starts: the version it reads is no older than the one looked at.
LEMMA FfmpegTurns ==
  ASSUME Inv, NEW t \in Threads, Ffmpeg(t)
  PROVE  /\ Turns(t) /\ thread'[t].pc = "ffmpeg"
         /\ thread'[t].first = thread[t].first /\ thread'[t].second = thread[t].second
<1>1. /\ Typed /\ PlaceFits(t) /\ LooksFit(t) /\ thread[t].pc = "semaphore"
      /\ UNCHANGED <<sc, version>>
      /\ version \in [Sources -> Nat] /\ thread[t] \in Thread
      /\ thread[t].first \in Nat /\ thread[t].second \in Nat
  BY ThreadTyped DEF Inv, Placed, Looked, Ffmpeg, At, Typed
<1>2. PICK s : s = thread[t].src OBVIOUS
<1>3. s \in Sources /\ version[s] \in Nat BY <1>1, <1>2 DEF PlaceFits, Making
<1>4. PICK e : e = [thread[t] EXCEPT !.pc = "ffmpeg", !.read = version[s]] OBVIOUS
<1>5. e \in Thread
  <2>1. [thread[t] EXCEPT !.pc = "ffmpeg"] \in Thread BY <1>1 DEF Thread, Making
  <2> QED BY <1>3, <1>4, <2>1 DEF Thread
<1>6. thread' = [thread EXCEPT ![t] = e] BY <1>1, <1>2, <1>4 DEF Ffmpeg, Typed, Thread
<1>7. /\ thread' \in [Threads -> Thread] /\ thread'[t] = e /\ Frame(t)
      /\ \A u \in Threads \ {t} : thread'[u] = thread[u]
  BY <1>1, <1>5, <1>6, Rows
<1>8. /\ e.pc = "ffmpeg" /\ e.run = thread[t].run /\ e.src = s /\ e.owner = thread[t].owner
      /\ e.status = thread[t].status /\ e.first = thread[t].first
      /\ e.second = thread[t].second /\ e.read = version[s] /\ e.results = thread[t].results
  BY <1>1, <1>2, <1>4 DEF Thread
<1>9. PlaceFits(t)' BY <1>1, <1>2, <1>7, <1>8, MakingFits DEF Making
<1>10. LooksFit(t)'
  <2>1. /\ thread[t].first > 0 /\ Older(thread[t].first, s)
        /\ thread[t].first <= thread[t].second /\ Older(thread[t].second, s)
    BY <1>1, <1>2 DEF LooksFit, Making, Keyed
  <2> QED BY <1>1, <1>3, <1>7, <1>8, <2>1 DEF LooksFit, Older, Making, Keyed, Writing
<1> QED BY <1>2, <1>7, <1>8, <1>9, <1>10 DEF Turns, Making

\* The row is told its file.
LEMMA RecordTurns ==
  ASSUME Inv, NEW t \in Threads, Record(t)
  PROVE  Turns(t) /\ thread'[t].pc = "rest" /\ Kind(t) # "zip"
<1>1. /\ Typed /\ PlaceFits(t) /\ thread[t].pc = "record"
      /\ UNCHANGED <<sc, version>> /\ thread[t] \in Thread
      /\ thread[t].first \in Nat /\ thread[t].second \in Nat
      /\ thread[t].src \in Sources /\ Kind(t) \in {"play", "poster", "thumb"} /\ t \in Jobs
  BY ThreadTyped DEF Inv, Placed, Looked, Record, At, PlaceFits, Making
<1>2. CASE Ends(t, "failed") BY <1>1, <1>2, EndTurns, EndFits
<1>3. CASE ~Ends(t, "failed")
  <2>1. PICK st : st = Outcome(t, "done") OBVIOUS
  <2>2. st \in {"paused", "canceled", "done"} BY <2>1 DEF Outcome
  <2>3. PICK a : a = TargetOf(t) OBVIOUS
  <2>4. a \in {"play", "poster", "thumb"} \X Sources \X Nat BY <1>1, <2>3 DEF TargetOf, Key
  <2>5. PICK e : e = [thread[t] EXCEPT !.pc = "rest", !.status = st, !.art = a] OBVIOUS
  <2>6. e \in Thread
    <3>1. [thread[t] EXCEPT !.pc = "rest"] \in Thread BY <1>1 DEF Thread
    <3>2. [thread[t] EXCEPT !.pc = "rest", !.status = st] \in Thread BY <2>2, <3>1, ZenonT(60) DEF Thread
    <3> QED BY <2>4, <2>5, <3>2 DEF Thread
  <2>7. thread' = [thread EXCEPT ![t] = e] BY <1>1, <1>3, <2>1, <2>3, <2>5 DEF Record, Typed, Thread
  <2>8. /\ thread' \in [Threads -> Thread] /\ thread'[t] = e /\ Frame(t)
        /\ \A u \in Threads \ {t} : thread'[u] = thread[u]
    BY <1>1, <2>6, <2>7, Rows
  <2>9. /\ e.pc = "rest" /\ e.run = thread[t].run /\ e.src = thread[t].src
        /\ e.owner = thread[t].owner /\ e.status = st /\ e.results = thread[t].results
    BY <1>1, <2>5 DEF Thread
  <2>10. thread[t].owner = "none" /\ t \notin Workers BY <1>1, ThreadTyped DEF PlaceFits
  <2>11. PlaceFits(t)' /\ LooksFit(t)' BY <1>1, <2>2, <2>8, <2>9, <2>10, RestFits
  <2> QED BY <1>1, <2>8, <2>9, <2>11 DEF Turns
<1> QED BY <1>1, <1>2, <1>3

\* Every step of making a file leads to a place that fits.
LEMMA MakeTurns ==
  ASSUME Inv, NEW t \in Threads, MakeStep(t)
  PROVE  /\ Turns(t) /\ Calm /\ thread[t].pc \in Making
         /\ Kind(t) \in {"play", "poster", "thumb"}
<1>1. Calm /\ thread[t].pc \in Making
  BY DEF MakeStep, FirstLook, SecondLook, Lock, Control, Ffmpeg, FfmpegEnds, FfmpegFails, Replace,
         Record, At, Making, Calm
<1>2. Kind(t) \in {"play", "poster", "thumb"} BY <1>1 DEF Inv, Placed, PlaceFits
<1>3. CASE Lock(t)
  <2>1. thread[t].pc = "lock" /\ sc' = sc /\ version' = version BY <1>3 DEF Lock, At
  <2>2. \/ t \in Jobs /\ To(t, "record")
        \/ Ends(t, "generated")
        \/ t \in Jobs /\ To(t, "control")
        \/ To(t, "semaphore")
    BY <1>3 DEF Lock
  <2>3. ASSUME Ends(t, "generated") PROVE Turns(t) BY <2>1, <2>3, EndTurns
  <2>4. ASSUME NEW pc \in {"control", "semaphore", "record"}, To(t, pc),
               pc \in {"control", "record"} => t \in Jobs
        PROVE  Turns(t)
    BY <1>1, <2>1, <2>4, GoTurns
  <2> QED BY <1>1, <1>2, <2>2, <2>3, <2>4
<1>4. CASE Control(t)
  <2>1. t \in Jobs /\ thread[t].pc = "control" /\ sc' = sc /\ version' = version
    BY <1>4 DEF Control, At, Inv, Placed, PlaceFits
  <2>2. Ends(t, "failed") \/ To(t, "semaphore") BY <1>4 DEF Control
  <2>3. ASSUME Ends(t, "failed") PROVE Turns(t) BY <2>1, <2>3, EndTurns
  <2>4. ASSUME To(t, "semaphore") PROVE Turns(t)
    <3>1. thread[t].pc \in Keyed BY <2>1 DEF Keyed
    <3> QED BY <1>1, <2>1, <2>4, <3>1, GoTurns
  <2> QED BY <1>1, <1>2, <2>2, <2>3, <2>4
<1>5. CASE FfmpegEnds(t)
  <2>1. thread[t].pc = "ffmpeg" /\ sc' = sc /\ version' = version /\ To(t, "replace")
    BY <1>5 DEF FfmpegEnds, At
  <2>2. thread[t].pc \in Keyed BY <2>1 DEF Keyed
  <2> QED BY <1>1, <1>2, <2>1, <2>2, GoTurns
<1>6. CASE FfmpegFails(t)
  <2>1. thread[t].pc = "ffmpeg" /\ sc' = sc /\ Ends(t, "failed") BY <1>6 DEF FfmpegFails, At
  <2> QED BY <1>1, <1>2, <2>1, EndTurns
<1>7. CASE Replace(t)
  <2>1. thread[t].pc = "replace" /\ sc' = sc /\ version' = version BY <1>7 DEF Replace, At
  <2>2. \/ \E how \in {"failed", "generated"} : Ends(t, how)
        \/ t \in Jobs /\ To(t, "record")
    BY <1>7 DEF Replace
  <2>3. ASSUME NEW how \in {"failed", "generated"}, Ends(t, how) PROVE Turns(t)
    BY <2>1, <2>3, EndTurns
  <2>4. ASSUME t \in Jobs, To(t, "record") PROVE Turns(t)
    <3>1. "record" \notin Keyed BY DEF Keyed
    <3> QED BY <1>1, <2>1, <2>4, <3>1, GoTurns
  <2> QED BY <1>1, <1>2, <2>2, <2>3, <2>4
<1> QED
  BY <1>1, <1>2, <1>3, <1>4, <1>5, <1>6, <1>7, FirstTurns, SecondTurns, FfmpegTurns, RecordTurns
  DEF MakeStep

-----------------------------------------------------------------------------
(* Steps of jobs that are not making an output, and of users.              *)

\* A thread that makes nothing has nothing it must have seen.
LEMMA StillFits ==
  ASSUME NEW t \in Threads, thread'[t].pc \notin Making PROVE LooksFit(t)'
BY DEF LooksFit, Making, Keyed, Writing

\* The job's row: created, paused, canceled, resumed.
StatusOnly(j) ==
  /\ thread' \in [Threads -> Thread] /\ Frame(j)
  /\ \A u \in Threads \ {j} : thread'[u] = thread[u]
  /\ thread'[j].pc = thread[j].pc /\ thread'[j].run = thread[j].run
  /\ thread'[j].owner = thread[j].owner /\ thread'[j].first = thread[j].first
  /\ thread'[j].second = thread[j].second /\ thread'[j].read = thread[j].read
  /\ thread'[j].art = thread[j].art /\ thread'[j].results = thread[j].results

\* What a request on a job leaves in its row.
LEMMA StatusRow ==
  ASSUME Inv, NEW j \in Jobs, CreateJob(j) \/ PauseOrCancel(j) \/ ResumeOrRetry(j)
  PROVE  /\ StatusOnly(j) /\ PlaceFits(j)' /\ LooksFit(j)'
         /\ thread'[j].src = thread[j].src \/ thread[j].pc = "rest"
         /\ thread'[j].status \in {"queued", "paused", "canceled", "pausing", "canceling"}
         /\ Stopping(j) => Stopping(j)'
         /\ Calm /\ UNCHANGED <<files, slots>>
<1>1. /\ Typed /\ PlaceFits(j) /\ LooksFit(j) /\ j \in Threads /\ thread[j] \in Thread
      /\ sc.sources \subseteq Sources /\ j \notin Workers
      /\ Calm /\ UNCHANGED <<files, slots>> /\ UNCHANGED <<sc, version>>
  BY ThreadTyped DEF Inv, Placed, Looked, Threads, CreateJob, PauseOrCancel, ResumeOrRetry, Calm
<1> DEFINE New(st, s) == [thread[j] EXCEPT !.status = st, !.src = s]
<1>2. ASSUME NEW st \in {"queued", "paused", "canceled", "pausing", "canceling"},
             NEW s \in Sources, thread' = [thread EXCEPT ![j] = New(st, s)],
             s = thread[j].src \/ thread[j].pc = "rest",
             st \in {"pausing", "canceling"} <=> thread[j].pc # "rest",
             sc.kind[j] # "unused", Stopping(j) => st \in {"pausing", "canceling"}
      PROVE  /\ StatusOnly(j) /\ PlaceFits(j)' /\ LooksFit(j)'
             /\ thread'[j].src = thread[j].src \/ thread[j].pc = "rest"
             /\ thread'[j].status \in {"queued", "paused", "canceled", "pausing", "canceling"}
             /\ Stopping(j) => Stopping(j)'
  <2>1. PICK e : e = New(st, s) OBVIOUS
  <2>2. e \in Thread
    <3>1. [thread[j] EXCEPT !.status = st] \in Thread BY <1>1 DEF Thread
    <3> QED BY <2>1, <3>1, ZenonT(60) DEF Thread
  <2>3. /\ thread' \in [Threads -> Thread] /\ thread'[j] = e /\ Frame(j)
        /\ \A u \in Threads \ {j} : thread'[u] = thread[u]
    BY <1>1, <1>2, <2>1, <2>2, Rows
  <2>4. /\ e.pc = thread[j].pc /\ e.run = thread[j].run /\ e.owner = thread[j].owner
        /\ e.first = thread[j].first /\ e.second = thread[j].second /\ e.read = thread[j].read
        /\ e.art = thread[j].art /\ e.results = thread[j].results
        /\ e.status = st /\ e.src = s
    BY <1>1, <2>1 DEF Thread
  <2>5. StatusOnly(j) BY <2>3, <2>4 DEF StatusOnly
  <2>6. PlaceFits(j)' BY <1>1, <1>2, <2>3, <2>4 DEF PlaceFits, Kind
  <2>7. LooksFit(j)'
    <3> j \in Threads BY <1>1
    <3>1. CASE thread[j].pc = "rest" BY <2>3, <2>4, <3>1, StillFits DEF Making
    <3>2. CASE s = thread[j].src BY <1>1, <2>3, <2>4, <3>2 DEF LooksFit, Older
    <3> QED BY <1>2, <3>1, <3>2
  <2> QED BY <1>2, <2>3, <2>4, <2>5, <2>6, <2>7 DEF Stopping
<1>3. CASE CreateJob(j)
  <2>1. PICK s \in Sources : thread' = [thread EXCEPT ![j].status = "queued", ![j].src = s]
    BY <1>1, <1>3 DEF CreateJob
  <2>2. thread' = [thread EXCEPT ![j] = New("queued", s)] BY <1>1, <2>1 DEF Typed, Thread
  <2>3. sc.kind[j] # "unused" /\ thread[j].status = "none" BY <1>3 DEF CreateJob
  <2>4. thread[j].pc = "rest" BY <1>1, <2>3 DEF PlaceFits
  <2> QED BY <1>1, <1>2, <2>2, <2>3, <2>4 DEF Stopping
<1>4. ASSUME NEW st, thread' = [thread EXCEPT ![j].status = st], thread[j].status # "none"
      PROVE  /\ thread' = [thread EXCEPT ![j] = New(st, thread[j].src)]
             /\ thread[j].src \in Sources /\ sc.kind[j] # "unused"
  <2>1. [thread[j] EXCEPT !.status = st] = New(st, thread[j].src) BY <1>1 DEF Thread
  <2> QED BY <1>1, <1>4, <2>1 DEF PlaceFits, Typed
<1>5. CASE PauseOrCancel(j)
  <2>1. PICK w \in {<<"pausing", "paused">>, <<"canceling", "canceled">>} :
          thread' = [thread EXCEPT ![j].status = IF @ = "running" THEN w[1] ELSE w[2]]
    BY <1>5 DEF PauseOrCancel
  <2>2. PICK st : st = IF thread[j].status = "running" THEN w[1] ELSE w[2] OBVIOUS
  <2>3. thread[j].status \in {"queued", "running"} BY <1>5 DEF PauseOrCancel
  <2>4. thread' = [thread EXCEPT ![j].status = st] BY <1>1, <2>1, <2>2 DEF Typed
  <2>5. st \in IF thread[j].status = "running" THEN {"pausing", "canceling"} ELSE {"paused", "canceled"}
    BY <2>1, <2>2
  <2>6. st \in {"pausing", "canceling"} <=> thread[j].pc # "rest"
    <3>1. CASE thread[j].status = "running"
      <4>1. thread[j].pc # "rest" BY <1>1, <3>1 DEF PlaceFits
      <4> QED BY <2>5, <3>1, <4>1
    <3>2. CASE thread[j].status = "queued"
      <4>1. thread[j].pc = "rest" BY <1>1, <3>2 DEF PlaceFits
      <4> QED BY <2>5, <3>2, <4>1
    <3> QED BY <2>3, <3>1, <3>2
  <2>7. ~Stopping(j) BY <2>3 DEF Stopping
  <2>8. st \in {"queued", "paused", "canceled", "pausing", "canceling"} BY <2>5
  <2> QED BY <1>1, <1>2, <1>4, <2>3, <2>4, <2>6, <2>7, <2>8
<1>6. CASE ResumeOrRetry(j)
  <2>1. /\ thread' = [thread EXCEPT ![j].status = "queued"]
        /\ thread[j].status \in {"paused", "failed", "canceled"}
    BY <1>6 DEF ResumeOrRetry
  <2>2. thread[j].pc = "rest" BY <1>1, <2>1 DEF PlaceFits
  <2> QED BY <1>1, <1>2, <1>4, <2>1, <2>2 DEF Stopping
<1> QED BY <1>1, <1>3, <1>5, <1>6

\* A fresh run of a thread.
LEMMA IdleTyped ==
  /\ Idle \in Thread /\ Idle.owner = "none" /\ Idle.art = <<>>
  /\ Idle.results = [s \in Sources |-> "none"] /\ Idle.pc = "rest" /\ Idle.status = "none"
<1>1. [s \in Sources |-> "none"] \in [Sources -> Results] BY DEF Results
<1> QED BY <1>1 DEF Idle, Thread

\* What the start of a thread leaves in its record.
LEMMA StartRow ==
  ASSUME Inv, NEW j \in Jobs, Start(j)
  PROVE  /\ thread' \in [Threads -> Thread] /\ Frame(j) /\ PlaceFits(j)' /\ LooksFit(j)'
         /\ \A u \in Threads \ {j} : thread'[u] = thread[u]
         /\ thread[j].pc = "rest" /\ thread'[j].pc \in {"zip", "fill", "begin"}
         /\ thread'[j].owner = "none" /\ thread'[j].run = thread[j].run + 1
         /\ thread'[j].art = thread[j].art /\ thread'[j].results = [s \in Sources |-> "none"]
         /\ thread'[j].src = thread[j].src /\ thread[j].src \in Sources
         /\ Calm /\ UNCHANGED <<files, slots>>
<1>1. /\ Typed /\ PlaceFits(j) /\ j \in Threads /\ thread[j] \in Thread
      /\ j \notin Workers /\ thread[j].run \in Nat
      /\ Calm /\ UNCHANGED <<files, slots>> /\ sc' = sc
      /\ thread[j].status = "queued" /\ thread[j].pc = "rest" /\ Kind(j) = sc.kind[j]
      /\ Kind(j) \in {"play", "poster", "zip", "fill", "unused", "thumb"}
      /\ Kind(j) # "thumb"
  BY ThreadTyped DEF Inv, Placed, Threads, Start, Calm, Kind
<1>2. thread[j].src \in Sources /\ Kind(j) # "unused" BY <1>1 DEF PlaceFits
<1>3. PICK pc, v : v = thread[j].src /\ pc = IF Kind(j) \in {"zip", "fill"} THEN Kind(j) ELSE "begin"
  OBVIOUS
<1>4. PICK e : e = [Idle EXCEPT !.pc = pc, !.status = "running", !.src = v,
                                !.run = thread[j].run + 1, !.art = thread[j].art]
  OBVIOUS
<1>5. pc \in {"zip", "fill", "begin"} BY <1>3
<1>6. e \in Thread
  <2>1. [Idle EXCEPT !.pc = pc] \in Thread BY <1>5, IdleTyped DEF Thread, Making, Zipping
  <2>2. [Idle EXCEPT !.pc = pc, !.status = "running"] \in Thread BY <2>1 DEF Thread
  <2>3. [Idle EXCEPT !.pc = pc, !.status = "running", !.src = v] \in Thread
    <3>1. v \in Sources \cup {"none"} BY <1>2, <1>3
    <3> QED BY <2>2, <3>1, ZenonT(60) DEF Thread
  <2>4. thread[j].run + 1 \in Nat BY <1>1
  <2>5. [Idle EXCEPT !.pc = pc, !.status = "running", !.src = v,
                     !.run = thread[j].run + 1] \in Thread
    BY <2>3, <2>4 DEF Thread
  <2> QED BY <1>1, <1>4, <2>5, ZenonT(60) DEF Thread
<1>7. thread' = [thread EXCEPT ![j] = e] BY <1>1, <1>3, <1>4 DEF Start
<1>8. /\ thread' \in [Threads -> Thread] /\ thread'[j] = e /\ Frame(j)
      /\ \A u \in Threads \ {j} : thread'[u] = thread[u]
  BY <1>1, <1>6, <1>7, Rows
<1>9. /\ e.pc = pc /\ e.owner = "none" /\ e.run = thread[j].run + 1 /\ e.art = thread[j].art
      /\ e.results = [s \in Sources |-> "none"] /\ e.src = thread[j].src /\ e.status = "running"
  BY <1>3, <1>4, IdleTyped DEF Thread
<1>10. PlaceFits(j)'
  <2>1. Kind(j)' = Kind(j) /\ sc'.kind[j] = Kind(j) BY <1>1 DEF Kind
  <2> QED BY <1>1, <1>2, <1>3, <1>8, <1>9, <2>1 DEF PlaceFits, Making, Zipping, Pooling
<1>11. LooksFit(j)' BY <1>5, <1>8, <1>9 DEF LooksFit, Making, Keyed, Writing
<1> QED BY <1>1, <1>2, <1>5, <1>8, <1>9, <1>10, <1>11

\* What a thumbnail request leaves in its record.
LEMMA RequestRow ==
  ASSUME Inv, NEW w \in Workers, RequestThumbnail(w)
  PROVE  /\ thread' \in [Threads -> Thread] /\ Frame(w) /\ PlaceFits(w)' /\ LooksFit(w)'
         /\ \A u \in Threads \ {w} : thread'[u] = thread[u]
         /\ thread[w].pc = "rest" /\ thread'[w].pc = "begin" /\ thread'[w].owner = "none"
         /\ Calm /\ UNCHANGED <<files, slots>>
<1>1. /\ Typed /\ PlaceFits(w) /\ w \in Threads /\ thread[w] \in Thread
      /\ w \notin Jobs /\ thread[w].run \in Nat /\ sc.sources \subseteq Sources
      /\ Calm /\ UNCHANGED <<files, slots>> /\ sc' = sc /\ thread[w].pc = "rest"
      /\ Kind(w) = "thumb"
  BY ThreadTyped DEF Inv, Placed, Threads, RequestThumbnail, Calm, At
<1>2. PICK s \in Sources :
        thread' = [thread EXCEPT ![w] = [Idle EXCEPT !.pc = "begin", !.src = s, !.run = thread[w].run + 1]]
  BY <1>1 DEF RequestThumbnail
<1>3. PICK e : e = [Idle EXCEPT !.pc = "begin", !.src = s, !.run = thread[w].run + 1] OBVIOUS
<1>4. e \in Thread
  <2>1. [Idle EXCEPT !.pc = "begin"] \in Thread BY IdleTyped DEF Thread, Making
  <2>2. [Idle EXCEPT !.pc = "begin", !.src = s] \in Thread BY <2>1 DEF Thread
  <2>3. thread[w].run + 1 \in Nat BY <1>1
  <2> QED BY <1>3, <2>2, <2>3 DEF Thread
<1>5. /\ thread' \in [Threads -> Thread] /\ thread'[w] = e /\ Frame(w)
      /\ \A u \in Threads \ {w} : thread'[u] = thread[u]
  BY <1>1, <1>2, <1>3, <1>4, Rows
<1>6. e.pc = "begin" /\ e.owner = "none" /\ e.src = s /\ e.status = "none"
  BY <1>3, IdleTyped DEF Thread
<1>7. PlaceFits(w)'
  <2>1. Kind(w)' = Kind(w) BY <1>1 DEF Kind
  <2> QED BY <1>1, <1>5, <1>6, <2>1 DEF PlaceFits, Making, Zipping, Pooling
<1>8. LooksFit(w)' BY <1>5, <1>6 DEF LooksFit, Making, Keyed, Writing
<1> QED BY <1>1, <1>5, <1>6, <1>7, <1>8

\* The end of a job.
LEMMA JobEnds ==
  ASSUME Inv, NEW j \in Jobs, thread[j].pc # "rest", sc' = sc,
         NEW how \in {"failed", "done"}, Ends(j, how)
  PROVE  /\ thread' \in [Threads -> Thread] /\ Frame(j) /\ PlaceFits(j)' /\ LooksFit(j)'
         /\ thread'[j].pc = "rest" /\ thread'[j].owner = thread[j].owner
         /\ thread'[j].run = thread[j].run /\ thread'[j].src = thread[j].src
         /\ thread'[j].art = thread[j].art /\ thread'[j].status = Outcome(j, how)
         /\ \A u \in Threads : thread'[u].results = thread[u].results
<1>1. j \in Threads /\ thread[j].owner = "none" /\ "none" \notin Threads
  BY ThreadAssumption DEF Threads, Inv, Placed, PlaceFits
<1>2. /\ thread' \in [Threads -> Thread] /\ Frame(j) /\ Hands(j, how)
      /\ thread'[j].pc = "rest" /\ thread'[j].owner = "none"
      /\ thread'[j].run = thread[j].run /\ thread'[j].src = thread[j].src
      /\ thread'[j].art = thread[j].art /\ thread'[j].status = Outcome(j, how)
      /\ PlaceFits(j)' /\ LooksFit(j)'
  BY <1>1, EndFits
<1> QED BY <1>1, <1>2 DEF Hands

\* A job goes from one place that makes no output to another.
LEMMA JobGoes ==
  ASSUME Inv, NEW j \in Jobs, sc' = sc, NEW pc, To(j, pc),
         \/ thread[j].pc \in Zipping /\ pc \in Zipping
         \/ thread[j].pc \in Pooling /\ pc \in Pooling
  PROVE  /\ thread' \in [Threads -> Thread] /\ Frame(j) /\ PlaceFits(j)' /\ LooksFit(j)'
         /\ thread'[j].pc = pc /\ thread'[j].owner = thread[j].owner
         /\ thread'[j].run = thread[j].run /\ thread'[j].src = thread[j].src
         /\ thread'[j].art = thread[j].art /\ thread'[j].status = thread[j].status
         /\ \A u \in Threads : thread'[u].results = thread[u].results
<1>1. /\ j \in Threads /\ Typed /\ thread[j] \in Thread /\ PlaceFits(j) /\ j \notin Workers
  BY ThreadTyped DEF Threads, Inv, Placed
<1>2. pc \in Places BY DEF Places
<1>3. /\ thread' \in [Threads -> Thread] /\ thread'[j].pc = pc /\ Frame(j)
      /\ thread'[j] = [thread[j] EXCEPT !.pc = pc]
      /\ \A u \in Threads : thread'[u].results = thread[u].results
  BY <1>1, <1>2, Goes
<1>4. /\ thread'[j].owner = thread[j].owner
      /\ thread'[j].run = thread[j].run /\ thread'[j].src = thread[j].src
      /\ thread'[j].art = thread[j].art /\ thread'[j].status = thread[j].status
  BY <1>1, <1>3 DEF Thread
<1>5. PlaceFits(j)'
  <2>1. Kind(j)' = Kind(j) BY DEF Kind
  <2> QED BY <1>1, <1>3, <1>4, <2>1 DEF PlaceFits, Making, Zipping, Pooling
<1>6. LooksFit(j)' BY <1>1, <1>3, StillFits DEF Making, Zipping, Pooling
<1> QED BY <1>3, <1>4, <1>5, <1>6

\* What a step of a ZIP job leaves in its record.
LEMMA ZipRow ==
  ASSUME Inv, NEW j \in Jobs, ZipBegins(j) \/ ZipSemaphore(j) \/ ZipAborts(j) \/ ZipEnds(j)
  PROVE  /\ thread' \in [Threads -> Thread] /\ Frame(j) /\ PlaceFits(j)' /\ LooksFit(j)'
         /\ \A u \in Threads : thread'[u].results = thread[u].results
         /\ thread[j].pc \in Zipping /\ thread'[j].pc \in {"zipwait", "zipwrite", "rest"}
         /\ thread'[j].owner = thread[j].owner /\ thread'[j].run = thread[j].run
         /\ thread'[j].src = thread[j].src
         /\ thread'[j].art = IF ZipEnds(j) THEN <<j, thread[j].run>> ELSE thread[j].art
         /\ sc.kind[j] = "zip" /\ UNCHANGED <<sc, version, files, lock, crashed>>
<1>1. /\ j \in Threads /\ Typed /\ thread[j] \in Thread /\ PlaceFits(j) /\ j \notin Workers
      /\ thread[j].run \in Nat /\ thread[j].pc \in Zipping /\ thread[j].pc # "rest"
      /\ UNCHANGED <<sc, version, files, lock, crashed>>
  BY ThreadTyped DEF Threads, Inv, Placed, ZipBegins, ZipSemaphore, ZipAborts, ZipEnds, At, Zipping, slots
<1>2. sc.kind[j] = "zip" BY <1>1 DEF PlaceFits, Kind
<1>3. CASE ZipBegins(j) /\ Ends(j, "failed")
  <2>1. ~ZipEnds(j) BY <1>3 DEF ZipBegins, ZipEnds, At
  <2> QED BY <1>1, <1>2, <1>3, <2>1, JobEnds
<1>4. CASE ZipBegins(j) /\ To(j, "zipwait")
  <2>1. ~ZipEnds(j) BY <1>4 DEF ZipBegins, ZipEnds, At
  <2>2. "zipwait" \in Zipping BY DEF Zipping
  <2> QED BY <1>1, <1>2, <1>4, <2>1, <2>2, JobGoes
<1>5. CASE ZipSemaphore(j)
  <2>1. ~ZipEnds(j) /\ To(j, "zipwrite") BY <1>5 DEF ZipSemaphore, ZipEnds, At
  <2>2. "zipwrite" \in Zipping BY DEF Zipping
  <2> QED BY <1>1, <1>2, <2>1, <2>2, JobGoes
<1>6. ASSUME ZipEnds(j)
      PROVE  /\ thread' \in [Threads -> Thread] /\ Frame(j) /\ PlaceFits(j)' /\ LooksFit(j)'
             /\ \A u \in Threads : thread'[u].results = thread[u].results
             /\ thread'[j].pc = "rest" /\ thread'[j].owner = thread[j].owner
             /\ thread'[j].run = thread[j].run /\ thread'[j].src = thread[j].src
             /\ thread'[j].art = <<j, thread[j].run>>
  <2>1. PICK st, a : st = Outcome(j, "done") /\ a = <<j, thread[j].run>> OBVIOUS
  <2>2. st \in {"paused", "canceled", "done"} BY <2>1 DEF Outcome
  <2>3. a \in Jobs \X Nat BY <1>1, <2>1
  <2>4. PICK e : e = [thread[j] EXCEPT !.pc = "rest", !.status = st, !.art = a] OBVIOUS
  <2>5. e \in Thread
    <3>1. [thread[j] EXCEPT !.pc = "rest"] \in Thread BY <1>1 DEF Thread
    <3>2. [thread[j] EXCEPT !.pc = "rest", !.status = st] \in Thread BY <2>2, <3>1, ZenonT(60) DEF Thread
    <3> QED BY <2>3, <2>4, <3>2 DEF Thread
  <2>6. thread' = [thread EXCEPT ![j] = e] BY <1>1, <1>6, <2>1, <2>4 DEF ZipEnds, Typed, Thread
  <2>7. /\ thread' \in [Threads -> Thread] /\ thread'[j] = e /\ Frame(j)
        /\ \A u \in Threads \ {j} : thread'[u] = thread[u]
    BY <1>1, <2>5, <2>6, Rows
  <2>8. /\ e.pc = "rest" /\ e.run = thread[j].run /\ e.src = thread[j].src /\ e.art = a
        /\ e.owner = thread[j].owner /\ e.status = st /\ e.results = thread[j].results
    BY <1>1, <2>4 DEF Thread
  <2>9. thread[j].owner = "none" BY <1>1 DEF PlaceFits
  <2>10. PlaceFits(j)' /\ LooksFit(j)' BY <1>1, <2>2, <2>7, <2>8, <2>9, RestFits
  <2> QED BY <2>1, <2>7, <2>8, <2>10
<1>7. CASE ZipAborts(j) /\ ~ZipEnds(j)
  <2>1. Ends(j, "failed") BY <1>7 DEF ZipAborts
  <2> QED BY <1>1, <1>2, <1>7, <2>1, JobEnds
<1>8. CASE ZipEnds(j) BY <1>1, <1>2, <1>6, <1>8
<1> QED BY <1>3, <1>4, <1>5, <1>7, <1>8 DEF ZipBegins

\* A batch: its own steps.
LEMMA FillRow ==
  ASSUME Inv, NEW j \in Jobs, FillBegins(j) \/ FillCollects(j) \/ FillEnds(j)
  PROVE  /\ thread' \in [Threads -> Thread] /\ Frame(j) /\ PlaceFits(j)' /\ LooksFit(j)'
         /\ \A u \in Threads \ {j} : thread'[u].results = thread[u].results
         /\ thread[j].pc \in Pooling \cup {"fill"} /\ thread'[j].pc \in Pooling \cup {"rest"}
         /\ thread'[j].owner = thread[j].owner /\ thread'[j].run = thread[j].run
         /\ thread'[j].src = thread[j].src /\ thread'[j].art = thread[j].art
         /\ sc.kind[j] = "fill" /\ Calm /\ UNCHANGED <<files, slots>>
         /\ IF thread[j].pc = "fill"
            THEN IF thread'[j].pc = "rest" THEN thread'[j].results = thread[j].results
                 ELSE \A s \in Sources : thread'[j].results[s] \in {"left", "none"}
            ELSE /\ thread'[j].results = thread[j].results
                 /\ thread'[j].pc \in Pooling => thread'[j].status = thread[j].status
                 /\ thread'[j].pc = "rest" =>
                      FillEnds(j) /\ thread'[j].status = Outcome(j, "done")
<1>1. /\ j \in Threads /\ Typed /\ thread[j] \in Thread /\ PlaceFits(j) /\ j \notin Workers
      /\ thread[j].pc \in Pooling \cup {"fill"} /\ thread[j].pc # "rest"
      /\ Calm /\ UNCHANGED <<files, slots>> /\ sc' = sc
  BY ThreadTyped DEF Threads, Inv, Placed, FillBegins, FillCollects, FillEnds, At, Pooling, Calm
<1>2. sc.kind[j] = "fill" BY <1>1 DEF PlaceFits, Kind
<1>3. CASE (FillBegins(j) \/ FillEnds(j)) /\ Ends(j, "done")
  BY <1>1, <1>2, <1>3, JobEnds DEF Pooling, FillBegins, FillEnds, At
<1>4. CASE FillCollects(j)
  <2>1. To(j, "drain") /\ thread[j].pc = "pool" BY <1>4 DEF FillCollects, At
  <2>2. "drain" \in Pooling /\ "pool" \in Pooling BY DEF Pooling
  <2> QED BY <1>1, <1>2, <2>1, <2>2, JobGoes
<1>5. CASE FillBegins(j) /\ ~Ends(j, "done")
  <2>1. PICK candidates : thread' = [thread EXCEPT ![j].pc = "pool", ![j].results =
                          [s \in Sources |-> IF s \in candidates THEN "left" ELSE "none"]]
    BY <1>5 DEF FillBegins
  <2>2. PICK r : r = [s \in Sources |-> IF s \in candidates THEN "left" ELSE "none"] OBVIOUS
  <2>3. r \in [Sources -> Results] /\ \A s \in Sources : r[s] \in {"left", "none"}
    BY <2>2 DEF Results
  <2>4. PICK e : e = [thread[j] EXCEPT !.pc = "pool", !.results = r] OBVIOUS
  <2>5. e \in Thread
    <3>1. [thread[j] EXCEPT !.pc = "pool"] \in Thread BY <1>1 DEF Thread, Pooling
    <3> QED BY <2>3, <2>4, <3>1 DEF Thread
  <2>6. thread' = [thread EXCEPT ![j] = e] BY <1>1, <2>1, <2>2, <2>4 DEF Typed, Thread
  <2>7. /\ thread' \in [Threads -> Thread] /\ thread'[j] = e /\ Frame(j)
        /\ \A u \in Threads \ {j} : thread'[u] = thread[u]
    BY <1>1, <2>5, <2>6, Rows
  <2>8. /\ e.pc = "pool" /\ e.run = thread[j].run /\ e.src = thread[j].src
        /\ e.owner = thread[j].owner /\ e.status = thread[j].status /\ e.results = r
        /\ e.art = thread[j].art
    BY <1>1, <2>4 DEF Thread
  <2>9. PlaceFits(j)'
    <3>1. Kind(j)' = Kind(j) BY <1>1 DEF Kind
    <3> QED BY <1>1, <1>2, <2>7, <2>8, <3>1 DEF PlaceFits, Making, Zipping, Pooling
  <2>10. LooksFit(j)' BY <1>1, <2>7, <2>8, StillFits DEF Making
  <2>11. thread[j].pc = "fill" BY <1>5 DEF FillBegins, At
  <2> QED BY <1>1, <1>2, <2>3, <2>7, <2>8, <2>9, <2>10, <2>11 DEF Pooling
<1> QED BY <1>3, <1>4, <1>5 DEF FillEnds

\* A worker takes a source, or finds that its job is to stop.
Takes(j, w, s) ==
  \/ /\ Stopping(j) /\ thread'[w] = thread[w]
     /\ thread'[j].results = [thread[j].results EXCEPT ![s] = "stopped"]
  \/ /\ thread'[w].pc = "begin" /\ thread'[w].src = s /\ thread'[w].owner = j
     /\ thread'[j].results = [thread[j].results EXCEPT ![s] = "taken"]
\* What a worker that takes a source leaves in its record and in the job's.
LEMMA TakesRow ==
  ASSUME Inv, NEW j \in Jobs, NEW w \in Workers, PoolTakes(j, w)
  PROVE  /\ thread' \in [Threads -> Thread] /\ Frame(w) /\ PlaceFits(w)' /\ LooksFit(w)'
         /\ \A u \in Threads \ {j, w} : thread'[u].results = thread[u].results
         /\ j \in Threads /\ j # w /\ Same(thread[j], thread'[j])
         /\ thread[j].pc \in Pooling /\ thread[w].pc = "rest" /\ Calm /\ UNCHANGED <<files, slots>>
         /\ \E s \in Left(j) : Takes(j, w, s)
<1>1. /\ w \in Threads /\ j \in Threads /\ j # w /\ Typed /\ thread[j] \in Thread
      /\ thread[w] \in Thread /\ PlaceFits(w) /\ LooksFit(w) /\ w \notin Jobs /\ Kind(w) = "thumb"
      /\ thread[j].pc \in Pooling /\ thread[w].pc = "rest" /\ Calm /\ UNCHANGED <<files, slots>>
      /\ thread \in [Threads -> Thread] /\ Left(j) # {} /\ sc' = sc /\ version' = version
      /\ thread[j].results \in [Sources -> Results]
  BY ThreadTyped DEF Threads, Inv, Placed, Looked, PoolTakes, At, Pooling, Calm, Typed
<1>2. PICK s \in Left(j) :
        thread' = IF Stopping(j) THEN [thread EXCEPT ![j].results[s] = "stopped"]
                  ELSE [thread EXCEPT ![j].results[s] = "taken",
                          ![w] = [Idle EXCEPT !.pc = "begin", !.src = s, !.owner = j]]
  BY <1>1 DEF PoolTakes
<1>3. s \in Sources BY <1>2 DEF Left
<1>4. ASSUME NEW x \in {"stopped", "taken"}, NEW b, b = [thread[j] EXCEPT !.results[s] = x]
      PROVE  /\ b \in Thread /\ Same(thread[j], b)
             /\ b.results = [thread[j].results EXCEPT ![s] = x]
  <2>1. [thread[j].results EXCEPT ![s] = x] \in [Sources -> Results] BY <1>1, <1>3, <1>4 DEF Results
  <2>2. b = [thread[j] EXCEPT !.results = [thread[j].results EXCEPT ![s] = x]]
    BY <1>1, <1>4 DEF Thread
  <2> QED BY <1>1, <2>1, <2>2 DEF Thread, Same
<1>5. CASE Stopping(j)
  <2>1. PICK b : b = [thread[j] EXCEPT !.results[s] = "stopped"] OBVIOUS
  <2>2. thread' = [thread EXCEPT ![j] = b] BY <1>1, <1>2, <1>5, <2>1
  <2>3. b \in Thread /\ Same(thread[j], b) /\ b.results = [thread[j].results EXCEPT ![s] = "stopped"]
    BY <1>4, <2>1
  <2>4. /\ thread' \in [Threads -> Thread] /\ thread'[j] = b
        /\ \A u \in Threads \ {j} : thread'[u] = thread[u]
    BY <1>1, <2>2, <2>3, Rows
  <2>5. Frame(w) BY <2>3, <2>4 DEF Frame, Same
  <2>6. thread'[w] = thread[w] BY <1>1, <2>4
  <2>7. PlaceFits(w)' /\ LooksFit(w)'
    BY <1>1, <2>6 DEF PlaceFits, LooksFit, Kind, Older
  <2>8. Takes(j, w, s) BY <1>5, <2>3, <2>4, <2>6 DEF Takes
  <2> QED BY <1>1, <1>2, <2>3, <2>4, <2>5, <2>7, <2>8
<1>6. CASE ~Stopping(j)
  <2>1. PICK b : b = [thread[j] EXCEPT !.results[s] = "taken"] OBVIOUS
  <2>2. PICK e : e = [Idle EXCEPT !.pc = "begin", !.src = s, !.owner = j] OBVIOUS
  <2>3. b \in Thread /\ Same(thread[j], b) /\ b.results = [thread[j].results EXCEPT ![s] = "taken"]
    BY <1>4, <2>1
  <2>4. e \in Thread
    <3>1. [Idle EXCEPT !.pc = "begin"] \in Thread BY IdleTyped DEF Thread, Making
    <3>2. [Idle EXCEPT !.pc = "begin", !.src = s] \in Thread BY <1>3, <3>1 DEF Thread
    <3> QED BY <2>2, <3>2 DEF Thread
  <2>5. e.pc = "begin" /\ e.src = s /\ e.owner = j /\ e.status = "none"
    BY <2>2, IdleTyped DEF Thread
  <2>6. thread' = [[thread EXCEPT ![j] = b] EXCEPT ![w] = e] BY <1>1, <1>2, <1>6, <2>1, <2>2
  <2>7. /\ thread' \in [Threads -> Thread] /\ thread'[j] = b /\ thread'[w] = e
        /\ \A u \in Threads \ {j, w} : thread'[u] = thread[u]
    BY <1>1, <2>3, <2>4, <2>6
  <2>8. Frame(w) BY <2>3, <2>7 DEF Frame, Same
  <2>9. PlaceFits(w)'
    <3>1. Kind(w)' = Kind(w) BY <1>1 DEF Kind
    <3> QED BY <1>1, <1>3, <2>5, <2>7, <3>1 DEF PlaceFits, Making, Zipping, Pooling
  <2>10. LooksFit(w)' BY <2>5, <2>7 DEF LooksFit, Making, Keyed, Writing
  <2>11. Takes(j, w, s) BY <2>3, <2>5, <2>7 DEF Takes
  <2> QED BY <1>1, <1>2, <2>3, <2>7, <2>8, <2>9, <2>10, <2>11
<1> QED BY <1>5, <1>6

-----------------------------------------------------------------------------
(* Files, keys and locks.                                                  *)

\* A file that is written is there, and the others are as they were.
LEMMA WithIs ==
  ASSUME NEW f, NEW o, NEW e
  PROVE  /\ DOMAIN With(f, o, e) = DOMAIN f \cup {o} /\ With(f, o, e)[o] = e
         /\ \A p \in DOMAIN f \ {o} : With(f, o, e)[p] = f[p]
BY DEF With

\* A file that is removed is gone, and the others are as they were.
LEMMA WithoutIs ==
  ASSUME NEW f, NEW o
  PROVE  /\ DOMAIN Without(f, o) = DOMAIN f \ {o}
         /\ \A p \in DOMAIN f \ {o} : Without(f, o)[p] = f[p]
BY DEF Without

\* What a thread names stays what it is while the thread does.
LEMMA FrameKeys ==
  ASSUME NEW u \in Threads, sc' = sc, thread'[u].src = thread[u].src,
         thread'[u].first = thread[u].first, thread'[u].second = thread[u].second
  PROVE  /\ Kind(u)' = Kind(u) /\ KeyOf(u)' = KeyOf(u) /\ TargetOf(u)' = TargetOf(u)
         /\ Version(u)' = Version(u)
<1>1. Kind(u)' = Kind(u) BY DEF Kind
<1> QED BY <1>1 DEF KeyOf, TargetOf, Version, Key

\* Two threads that make an output do not share a key.
LEMMA KeysApart ==
  ASSUME Inv, PostersApart, NEW t \in Threads, NEW u \in Threads,
         thread[t].pc \in Keyed, thread[u].pc \in Keyed, KeyOf(t) = KeyOf(u)
  PROVE  t = u
<1>1. Kind(t) = Kind(u) /\ thread[t].src = thread[u].src BY DEF KeyOf, Key
<1>2. CASE Kind(t) # "poster"
  <2>1. lock[KeyOf(t)] = t /\ lock[KeyOf(u)] = u BY <1>1, <1>2 DEF Inv, Locked
  <2> QED BY <2>1
<1>3. CASE Kind(t) = "poster"
  <2>1. t \in Jobs /\ u \in Jobs /\ sc.kind[t] = "poster" /\ sc.kind[u] = "poster"
    BY <1>1, <1>3 DEF Kind
  <2>2. thread[t].pc # "rest" /\ thread[u].pc # "rest" BY DEF Keyed
  <2> QED BY <1>1, <2>1, <2>2 DEF PostersApart
<1> QED BY <1>2, <1>3

\* The version an output is named after.
LEMMA VersionFits ==
  ASSUME Inv, NEW t \in Threads, thread[t].pc \in Keyed
  PROVE  /\ Version(t) \in Nat /\ Version(t) > 0 /\ Version(t) <= thread[t].second
         /\ Older(Version(t), thread[t].src) /\ thread[t].src \in Sources
         /\ TargetOf(t) = Key(Kind(t), thread[t].src, Version(t))
         /\ Kind(t) \in {"play", "poster", "thumb"}
<1>1. /\ thread[t].first \in Nat /\ thread[t].second \in Nat /\ LooksFit(t) /\ PlaceFits(t)
  BY ThreadTyped DEF Inv, Looked, Placed
<1>2. /\ thread[t].first > 0 /\ Older(thread[t].first, thread[t].src)
      /\ thread[t].first <= thread[t].second /\ Older(thread[t].second, thread[t].src)
  BY <1>1 DEF LooksFit, Making, Keyed
<1>3. thread[t].src \in Sources /\ Kind(t) \in {"play", "poster", "thumb"}
  BY <1>1 DEF PlaceFits, Making, Keyed
<1> QED BY <1>1, <1>2, <1>3 DEF Version, TargetOf

-----------------------------------------------------------------------------
(* Steps that leave the files and locks alone.                             *)

\* A step that touches no file keeps what is known of the files.
LEMMA QuietKeeps ==
  ASSUME Inv, NEW t \in Threads, Frame(t), UNCHANGED <<sc, version, files, lock, crashed>>,
         \/ /\ thread'[t].pc = thread[t].pc /\ thread'[t].src = thread[t].src
            /\ thread'[t].first = thread[t].first /\ thread'[t].second = thread[t].second
         \/ /\ thread[t].pc \notin Writing /\ thread'[t].pc \notin Writing
            /\ thread'[t].pc \in Keyed => Kind(t) = "poster"
  PROVE  Locked' /\ TempTrue' /\ CacheTrue' /\ TempOwned'
<1>1. UNCHANGED <<sc, version, cache, temp, stale, lock, crashed>> BY DEF files
<1>2. ASSUME NEW u \in Threads, thread'[u].pc \in Keyed, Kind(u) # "poster"
      PROVE  KeyOf(u)' = KeyOf(u) /\ Kind(u)' = Kind(u) /\ Version(u)' = Version(u)
             /\ thread'[u].pc = thread[u].pc /\ thread'[u].src = thread[u].src
  BY <1>1, <1>2, FrameKeys DEF Frame, Same
<1>3. ASSUME NEW u \in Threads, thread'[u].pc \in Writing \/ thread[u].pc \in Writing
      PROVE  KeyOf(u)' = KeyOf(u) /\ Kind(u)' = Kind(u) /\ Version(u)' = Version(u)
             /\ thread'[u].pc = thread[u].pc /\ thread'[u].src = thread[u].src
  BY <1>1, <1>3, FrameKeys DEF Frame, Same
<1>4. \A u \in Threads : Kind(u)' = Kind(u) BY <1>1 DEF Kind
<1>5. Locked' BY <1>1, <1>2, <1>4 DEF Inv, Locked
<1>6. TempTrue' BY <1>1, <1>3 DEF Inv, TempTrue, Writing
<1>7. CacheTrue'
  <2>1. CacheTrue BY DEF Inv
  <2> QED BY <1>1, <2>1 DEF CacheTrue, Older
<1>8. TempOwned' BY <1>1, <1>3 DEF Inv, TempOwned
<1> QED BY <1>5, <1>6, <1>7, <1>8

-----------------------------------------------------------------------------
(* Making an output: keys, temporary files, the cache.                     *)

\* Others that write or hold a key go on as they were.
LEMMA OthersKeep ==
  ASSUME NEW t \in Threads, Frame(t), sc' = sc, NEW u \in Threads \ {t}
  PROVE  /\ KeyOf(u)' = KeyOf(u) /\ Kind(u)' = Kind(u) /\ Version(u)' = Version(u)
         /\ thread'[u].pc = thread[u].pc /\ thread'[u].src = thread[u].src
BY FrameKeys DEF Frame, Same

\* A thread gives up its key, and its temporary file.
LEMMA GivesUp ==
  ASSUME Inv, PostersApart, NEW t \in Threads, Frame(t), UNCHANGED <<sc, version, crashed>>,
         thread[t].pc \in Keyed, thread'[t].pc \notin Keyed,
         lock' = Unlocked(t),
         \/ temp' = Without(temp, KeyOf(t))
         \/ temp' = temp /\ thread[t].pc \notin Writing
  PROVE  /\ Locked' /\ TempTrue'
         /\ ("age" \in sc.events \/ stale' = {}) => TempOwned'
         /\ \A o \in DOMAIN temp' : o \in DOMAIN temp /\ temp'[o] = temp[o]
<1>1. \A o \in DOMAIN lock : lock[o] # t => o \in DOMAIN lock' /\ lock'[o] = lock[o]
  BY DEF Unlocked
<1>2. /\ \A o \in DOMAIN temp' : o \in DOMAIN temp /\ temp'[o] = temp[o]
      /\ \A o \in DOMAIN temp \ {KeyOf(t)} : o \in DOMAIN temp'
      /\ KeyOf(t) \in DOMAIN temp' => thread[t].pc \notin Writing
  <2>1. PICK k : k = KeyOf(t) OBVIOUS
  <2>2. /\ DOMAIN Without(temp, k) = DOMAIN temp \ {k}
        /\ \A o \in DOMAIN temp \ {k} : Without(temp, k)[o] = temp[o]
    BY WithoutIs
  <2> QED BY <2>1, <2>2
<1>3. Locked'
  <2> SUFFICES ASSUME NEW u \in Threads, thread'[u].pc \in Keyed, Kind(u)' # "poster"
               PROVE  KeyOf(u)' \in DOMAIN lock' /\ lock'[KeyOf(u)'] = u
    BY DEF Locked
  <2>1. u # t /\ KeyOf(u)' = KeyOf(u) /\ Kind(u) # "poster" /\ thread[u].pc \in Keyed
    BY OthersKeep
  <2>2. KeyOf(u) \in DOMAIN lock /\ lock[KeyOf(u)] = u BY <2>1 DEF Inv, Locked
  <2> QED BY <1>1, <2>1, <2>2
<1>4. TempTrue'
  <2> SUFFICES ASSUME NEW u \in Threads, thread'[u].pc = "replace", KeyOf(u)' \in DOMAIN temp'
               PROVE  /\ temp'[KeyOf(u)'].whole
                      /\ Version(u)' = version'[thread'[u].src] => temp'[KeyOf(u)'].from = Version(u)'
    BY DEF TempTrue
  <2>1. /\ u # t /\ KeyOf(u)' = KeyOf(u) /\ Version(u)' = Version(u) /\ thread[u].pc = "replace"
        /\ thread'[u].src = thread[u].src
    BY OthersKeep DEF Keyed
  <2>2. KeyOf(u) \in DOMAIN temp /\ temp'[KeyOf(u)] = temp[KeyOf(u)] BY <1>2, <2>1
  <2> QED BY <2>1, <2>2 DEF Inv, TempTrue
<1>5. ASSUME "age" \in sc.events \/ stale' = {} PROVE TempOwned'
  <2>1. ASSUME ~crashed, NEW o \in DOMAIN temp'
        PROVE  \E u \in Threads : thread'[u].pc \in Writing /\ KeyOf(u)' = o
    <3>1. PICK u \in Threads : thread[u].pc \in Writing /\ KeyOf(u) = o
      BY <1>2, <2>1 DEF Inv, TempOwned
    <3>2. u # t BY <1>2, <2>1, <3>1
    <3> QED BY <3>1, <3>2, OthersKeep
  <2>2. ASSUME ~crashed, "age" \notin sc.events, NEW u \in Threads, thread'[u].pc \in Writing
        PROVE  KeyOf(u)' \in DOMAIN temp'
    <3>1. u # t BY <2>2 DEF Keyed, Writing
    <3>2. thread[u].pc \in Writing /\ KeyOf(u)' = KeyOf(u) BY <2>2, <3>1, OthersKeep
    <3>3. KeyOf(u) \in DOMAIN temp BY <2>2, <3>2 DEF Inv, TempOwned
    <3>4. KeyOf(u) # KeyOf(t) BY <3>1, <3>2, KeysApart DEF Keyed, Writing
    <3> QED BY <1>2, <3>2, <3>3, <3>4
  <2> QED BY <1>5, <2>1, <2>2 DEF TempOwned
<1> QED BY <1>2, <1>3, <1>4, <1>5

\* Under the lock of its key.
LEMMA LockKeeps ==
  ASSUME Inv, NEW t \in Threads, Lock(t), Turns(t)
  PROVE  Locked' /\ TempTrue' /\ CacheTrue' /\ TempOwned'
<1>1. /\ Frame(t) /\ UNCHANGED <<sc, version, cache, stale, crashed>>
      /\ thread[t].pc = "lock" /\ KeyOf(t) \notin DOMAIN lock /\ Kind(t) # "poster"
      /\ thread[t] \in Thread /\ Typed
  BY ThreadTyped DEF Turns, Lock, At, Inv, Placed, PlaceFits
<1>2. CASE MadeMeanwhile(TargetOf(t))
  <2>1. (t \in Jobs /\ To(t, "record")) \/ Ends(t, "generated") BY <1>2 DEF Lock
  <2>2. thread'[t].pc \in {"record", "rest"}
    <3>1. ASSUME Ends(t, "generated") PROVE thread'[t].pc = "rest"
      BY <1>1, <3>1, EndFits
    <3>2. ASSUME To(t, "record") PROVE thread'[t].pc = "record"
      BY <1>1, <3>2 DEF To, Typed, Thread
    <3> QED BY <2>1, <3>1, <3>2
  <2>3. UNCHANGED <<sc, version, files, lock, crashed>> BY <1>1, <1>2 DEF Lock, files
  <2> QED BY <1>1, <2>2, <2>3, QuietKeeps DEF Writing, Keyed
<1>3. CASE ~MadeMeanwhile(TargetOf(t))
  <2>1. /\ lock' = With(lock, KeyOf(t), t) /\ temp' = Without(temp, KeyOf(t))
        /\ To(t, IF t \in Jobs THEN "control" ELSE "semaphore")
    BY <1>3 DEF Lock
  <2>2. /\ KeyOf(t) \in DOMAIN lock' /\ lock'[KeyOf(t)] = t
        /\ \A o \in DOMAIN lock \ {KeyOf(t)} : o \in DOMAIN lock' /\ lock'[o] = lock[o]
    <3>1. PICK k : k = KeyOf(t) OBVIOUS
    <3>2. /\ DOMAIN With(lock, k, t) = DOMAIN lock \cup {k} /\ With(lock, k, t)[k] = t
          /\ \A o \in DOMAIN lock \ {k} : With(lock, k, t)[o] = lock[o]
      BY DEF With
    <3> QED BY <2>1, <3>1, <3>2
  <2>3. /\ \A o \in DOMAIN temp' : o \in DOMAIN temp /\ temp'[o] = temp[o] /\ o # KeyOf(t)
        /\ \A o \in DOMAIN temp \ {KeyOf(t)} : o \in DOMAIN temp'
    BY <2>1, WithoutIs, ZenonT(60)
  <2>4. PICK pc \in {"control", "semaphore"} : To(t, pc) BY <2>1
  <2>5. /\ thread'[t].pc = pc /\ thread'[t].src = thread[t].src
        /\ thread'[t].first = thread[t].first /\ thread'[t].second = thread[t].second
    BY <1>1, <2>4 DEF To, Typed, Thread
  <2>6. KeyOf(t)' = KeyOf(t) /\ Kind(t)' = Kind(t) BY <1>1, <2>5, FrameKeys
  <2>7. ASSUME NEW u \in Threads \ {t}, thread[u].pc \in Keyed
        PROVE  KeyOf(u) # KeyOf(t)
    <3>1. CASE Kind(u) = "poster" BY <1>1, <3>1 DEF KeyOf, Key
    <3>2. CASE Kind(u) # "poster" BY <1>1, <2>7, <3>2 DEF Inv, Locked
    <3> QED BY <3>1, <3>2
  <2>8. Locked'
    <3> SUFFICES ASSUME NEW u \in Threads, thread'[u].pc \in Keyed, Kind(u)' # "poster"
                 PROVE  KeyOf(u)' \in DOMAIN lock' /\ lock'[KeyOf(u)'] = u
      BY DEF Locked
    <3>1. CASE u = t BY <2>2, <2>6, <3>1
    <3>2. CASE u # t
      <4>1. KeyOf(u)' = KeyOf(u) /\ Kind(u) # "poster" /\ thread[u].pc \in Keyed
        BY <1>1, <3>2, OthersKeep
      <4> QED BY <2>2, <2>7, <3>2, <4>1 DEF Inv, Locked
    <3> QED BY <3>1, <3>2
  <2>9. TempTrue'
    <3> SUFFICES ASSUME NEW u \in Threads, thread'[u].pc = "replace", KeyOf(u)' \in DOMAIN temp'
                 PROVE  /\ temp'[KeyOf(u)'].whole
                        /\ Version(u)' = version'[thread'[u].src] => temp'[KeyOf(u)'].from = Version(u)'
      BY DEF TempTrue
    <3>1. /\ u # t /\ KeyOf(u)' = KeyOf(u) /\ Version(u)' = Version(u) /\ thread[u].pc = "replace"
          /\ thread'[u].src = thread[u].src
      BY <1>1, <2>5, OthersKeep
    <3>2. KeyOf(u) \in DOMAIN temp /\ temp'[KeyOf(u)] = temp[KeyOf(u)] BY <2>3, <3>1
    <3> QED BY <1>1, <3>1, <3>2 DEF Inv, TempTrue
  <2>10. CacheTrue'
    <3>1. CacheTrue BY DEF Inv
    <3> QED BY <1>1, <3>1 DEF CacheTrue, Older
  <2>11. ASSUME ~crashed, NEW o \in DOMAIN temp'
         PROVE  \E u \in Threads : thread'[u].pc \in Writing /\ KeyOf(u)' = o
    <3>1. PICK u \in Threads : thread[u].pc \in Writing /\ KeyOf(u) = o
      BY <2>3, <2>11 DEF Inv, TempOwned
    <3>2. u # t BY <1>1, <3>1 DEF Writing
    <3> QED BY <1>1, <3>1, <3>2, OthersKeep
  <2>12. ASSUME ~crashed, "age" \notin sc.events, NEW u \in Threads, thread'[u].pc \in Writing
         PROVE  KeyOf(u)' \in DOMAIN temp'
    <3>1. u # t BY <2>5, <2>12 DEF Writing
    <3>2. thread[u].pc \in Writing /\ KeyOf(u)' = KeyOf(u) BY <1>1, <2>12, <3>1, OthersKeep
    <3>3. KeyOf(u) \in DOMAIN temp BY <2>12, <3>2 DEF Inv, TempOwned
    <3> QED BY <2>3, <2>7, <3>1, <3>2, <3>3 DEF Keyed, Writing
  <2>13. TempOwned'
    <3>1. "age" \notin sc.events => stale = {} BY DEF Inv, TempOwned
    <3> QED BY <1>1, <2>11, <2>12, <3>1 DEF TempOwned
  <2> QED BY <2>8, <2>9, <2>10, <2>13
<1> QED BY <1>2, <1>3

\* Before ffmpeg the row is looked at once more.
LEMMA ControlKeeps ==
  ASSUME Inv, PostersApart, NEW t \in Threads, Control(t), Turns(t)
  PROVE  Locked' /\ TempTrue' /\ CacheTrue' /\ TempOwned'
<1>1. /\ Frame(t) /\ UNCHANGED <<sc, version, cache, temp, stale, crashed>>
      /\ thread[t].pc = "control" /\ thread[t] \in Thread /\ Typed
      /\ UNCHANGED files
  BY ThreadTyped DEF Turns, Control, At, Inv, files
<1>2. CASE Ends(t, "failed") /\ lock' = Unlocked(t)
  <2>1. thread'[t].pc = "rest" BY <1>1, <1>2, EndFits
  <2>2. "age" \in sc.events \/ stale' = {} BY <1>1 DEF Inv, TempOwned
  <2>3. Locked' /\ TempTrue' /\ TempOwned'
    BY <1>1, <1>2, <2>1, <2>2, GivesUp DEF Keyed, Writing
  <2>4. CacheTrue'
    <3>1. CacheTrue BY DEF Inv
    <3> QED BY <1>1, <3>1 DEF CacheTrue, Older
  <2> QED BY <2>3, <2>4
<1>3. CASE To(t, "semaphore") /\ UNCHANGED lock
  <2>1. /\ thread'[t].pc = "semaphore" /\ thread'[t].src = thread[t].src
        /\ thread'[t].first = thread[t].first /\ thread'[t].second = thread[t].second
    BY <1>1, <1>3 DEF To, Typed, Thread
  <2>2. KeyOf(t)' = KeyOf(t) /\ Kind(t)' = Kind(t) BY <1>1, <2>1, FrameKeys
  <2>3. Locked'
    <3> SUFFICES ASSUME NEW u \in Threads, thread'[u].pc \in Keyed, Kind(u)' # "poster"
                 PROVE  KeyOf(u)' \in DOMAIN lock' /\ lock'[KeyOf(u)'] = u
      BY DEF Locked
    <3>1. KeyOf(u)' = KeyOf(u) /\ Kind(u) # "poster" /\ thread[u].pc \in Keyed
      BY <1>1, <2>2, OthersKeep DEF Keyed
    <3> QED BY <1>3, <3>1 DEF Inv, Locked
  <2>4. TempTrue' BY <1>1, <2>1, OthersKeep DEF Inv, TempTrue
  <2>5. CacheTrue'
    <3>1. CacheTrue BY DEF Inv
    <3> QED BY <1>1, <3>1 DEF CacheTrue, Older
  <2>6. ASSUME NEW u \in Threads, thread'[u].pc \in Writing \/ thread[u].pc \in Writing
        PROVE  KeyOf(u)' = KeyOf(u) /\ thread'[u].pc = thread[u].pc
    BY <1>1, <2>1, <2>6, OthersKeep DEF Writing
  <2>7. TempOwned' BY <1>1, <2>6 DEF Inv, TempOwned
  <2> QED BY <2>3, <2>4, <2>5, <2>7
<1> QED BY <1>2, <1>3 DEF Control

\* ffmpeg writes under a thread's key.
LEMMA WritesKeep ==
  ASSUME Inv, PostersApart, NEW t \in Threads, Frame(t), UNCHANGED <<sc, version, lock, crashed>>,
         thread[t].pc \in Keyed, thread'[t].pc \in Writing, thread'[t].src = thread[t].src,
         thread'[t].first = thread[t].first, thread'[t].second = thread[t].second,
         "age" \in sc.events \/ stale' = {},
         NEW e,
         \/ temp' = With(temp, KeyOf(t), e)
         \/ temp' = temp /\ KeyOf(t) \notin DOMAIN temp /\ (crashed \/ "age" \in sc.events),
         thread'[t].pc = "replace" =>
           e.whole /\ (Version(t) = version[thread[t].src] => e.from = Version(t))
  PROVE  Locked' /\ TempTrue' /\ TempOwned'
<1>1. PICK k : k = KeyOf(t) OBVIOUS
<1>2. /\ KeyOf(t)' = k /\ Kind(t)' = Kind(t) /\ Version(t)' = Version(t)
  BY <1>1, FrameKeys
<1>3. /\ k \in DOMAIN temp' => temp'[k] = e
      /\ k \notin DOMAIN temp' => crashed \/ "age" \in sc.events
      /\ \A o \in DOMAIN temp' \ {k} : o \in DOMAIN temp /\ temp'[o] = temp[o]
      /\ \A o \in DOMAIN temp : o \in DOMAIN temp'
  <2>1. CASE temp' = With(temp, k, e) BY <2>1 DEF With
  <2>2. CASE temp' = temp /\ k \notin DOMAIN temp /\ (crashed \/ "age" \in sc.events) BY <2>2
  <2> QED BY <1>1, <2>1, <2>2
<1>4. Locked'
  <2> SUFFICES ASSUME NEW u \in Threads, thread'[u].pc \in Keyed, Kind(u)' # "poster"
               PROVE  KeyOf(u)' \in DOMAIN lock' /\ lock'[KeyOf(u)'] = u
    BY DEF Locked
  <2>1. KeyOf(u)' = KeyOf(u) /\ Kind(u) # "poster" /\ thread[u].pc \in Keyed
    BY <1>1, <1>2, OthersKeep
  <2> QED BY <2>1 DEF Inv, Locked
<1>5. TempTrue'
  <2> SUFFICES ASSUME NEW u \in Threads, thread'[u].pc = "replace", KeyOf(u)' \in DOMAIN temp'
               PROVE  /\ temp'[KeyOf(u)'].whole
                      /\ Version(u)' = version'[thread'[u].src] => temp'[KeyOf(u)'].from = Version(u)'
    BY DEF TempTrue
  <2>1. CASE u = t BY <1>2, <1>3, <2>1
  <2>2. CASE u # t
    <3>1. /\ KeyOf(u)' = KeyOf(u) /\ Version(u)' = Version(u) /\ thread[u].pc = "replace"
          /\ thread'[u].src = thread[u].src
      BY <2>2, OthersKeep
    <3>2. KeyOf(u) # k BY <1>1, <2>2, <3>1, KeysApart DEF Keyed
    <3>3. KeyOf(u) \in DOMAIN temp /\ temp'[KeyOf(u)] = temp[KeyOf(u)] BY <1>3, <3>1, <3>2
    <3> QED BY <3>1, <3>3 DEF Inv, TempTrue
  <2> QED BY <2>1, <2>2
<1>6. ASSUME ~crashed, NEW o \in DOMAIN temp'
      PROVE  \E u \in Threads : thread'[u].pc \in Writing /\ KeyOf(u)' = o
  <2>1. CASE o = k BY <1>2, <2>1
  <2>2. CASE o # k
    <3>1. PICK u \in Threads : thread[u].pc \in Writing /\ KeyOf(u) = o
      BY <1>3, <1>6, <2>2 DEF Inv, TempOwned
    <3>2. u # t BY <1>1, <2>2, <3>1
    <3> QED BY <3>1, <3>2, OthersKeep
  <2> QED BY <2>1, <2>2
<1>7. ASSUME ~crashed, "age" \notin sc.events, NEW u \in Threads, thread'[u].pc \in Writing
      PROVE  KeyOf(u)' \in DOMAIN temp'
  <2>1. CASE u = t BY <1>2, <1>3, <1>7, <2>1
  <2>2. CASE u # t
    <3>1. thread[u].pc \in Writing /\ KeyOf(u)' = KeyOf(u) BY <1>7, <2>2, OthersKeep
    <3> QED BY <1>3, <1>7, <3>1 DEF Inv, TempOwned
  <2> QED BY <2>1, <2>2
<1>8. TempOwned' BY <1>6, <1>7 DEF TempOwned
<1> QED BY <1>4, <1>5, <1>8

\* A cache that nobody writes stays true.
LEMMA CacheStays ==
  ASSUME Inv, UNCHANGED <<version, cache>>
  PROVE  CacheTrue' /\ \A o \in DOMAIN cache' : cache'[o] \in Output
<1>1. CacheTrue /\ Typed BY DEF Inv
<1> QED BY <1>1 DEF CacheTrue, Older, Typed

\* What ffmpeg writes under its temporary name is of the thread that runs it.
LEMMA FfmpegKeeps ==
  ASSUME Inv, PostersApart, NEW t \in Threads, Ffmpeg(t), Turns(t)
  PROVE  /\ Locked' /\ TempTrue' /\ CacheTrue' /\ TempOwned'
         /\ \A o \in DOMAIN temp' : temp'[o] \in Output
<1>1. /\ Frame(t) /\ UNCHANGED <<sc, version, cache, lock, crashed>>
      /\ thread[t].pc = "semaphore" /\ Typed /\ thread[t].pc \in Keyed
      /\ stale' = stale \ {<<"temp", KeyOf(t)>>}
      /\ version \in [Sources -> Nat]
  BY DEF Turns, Ffmpeg, At, Inv, Keyed, Typed
<1>2. /\ thread'[t].pc = "ffmpeg" /\ thread'[t].src = thread[t].src
      /\ thread'[t].first = thread[t].first /\ thread'[t].second = thread[t].second
  BY FfmpegTurns DEF Turns
<1>3. PICK e : e = [from |-> version[thread[t].src], whole |-> FALSE] OBVIOUS
<1>4. temp' = With(temp, KeyOf(t), e) BY <1>3 DEF Ffmpeg
<1>5. e \in Output
  <2>1. thread[t].src \in Sources BY <1>1, VersionFits
  <2> QED BY <1>1, <1>3, <2>1 DEF Output
<1>6. "age" \in sc.events \/ stale' = {} BY <1>1 DEF Inv, TempOwned
<1>7. Locked' /\ TempTrue' /\ TempOwned'
  BY <1>1, <1>2, <1>4, <1>6, WritesKeep DEF Writing
<1>8. \A o \in DOMAIN temp' : temp'[o] \in Output BY <1>1, <1>4, <1>5 DEF With, Typed
<1> QED BY <1>1, <1>7, <1>8, CacheStays

\* What ffmpeg leaves is current, if it is when the name is.
LEMMA FfmpegEndsKeeps ==
  ASSUME Inv, PostersApart, NEW t \in Threads, FfmpegEnds(t), Turns(t)
  PROVE  /\ Locked' /\ TempTrue' /\ CacheTrue' /\ TempOwned'
         /\ \A o \in DOMAIN temp' : temp'[o] \in Output
<1>1. /\ Frame(t) /\ UNCHANGED <<sc, version, cache, stale, lock, crashed>>
      /\ thread[t].pc = "ffmpeg" /\ Typed /\ thread[t].pc \in Keyed /\ thread[t].pc \in Writing
      /\ version \in [Sources -> Nat] /\ thread[t].read > 0 /\ thread[t].read \in Nat
      /\ thread[t].second \in Nat /\ To(t, "replace") /\ LooksFit(t) /\ thread[t] \in Thread
  BY ThreadTyped DEF Turns, FfmpegEnds, At, Inv, Keyed, Writing, Typed, Looked
<1>2. /\ thread'[t].pc = "replace" /\ thread'[t].src = thread[t].src
      /\ thread'[t].first = thread[t].first /\ thread'[t].second = thread[t].second
  BY <1>1 DEF To, Typed, Thread
<1>3. PICK e : e = [from |-> IF version[thread[t].src] = thread[t].read
                             THEN thread[t].read ELSE 0, whole |-> TRUE]
  OBVIOUS
<1>4. temp' = IF KeyOf(t) \notin DOMAIN temp THEN temp ELSE With(temp, KeyOf(t), e)
  BY <1>3 DEF FfmpegEnds
<1>5. e \in Output BY <1>1, <1>3 DEF Output
<1>6. "age" \in sc.events \/ stale' = {} BY <1>1 DEF Inv, TempOwned
<1>7. e.whole /\ (Version(t) = version[thread[t].src] => e.from = Version(t))
  <2>1. PICK v, s : v = Version(t) /\ s = thread[t].src OBVIOUS
  <2>2. v \in Nat /\ v > 0 /\ v <= thread[t].second /\ s \in Sources /\ version[s] \in Nat
    BY <1>1, <2>1, VersionFits
  <2>3. thread[t].second <= thread[t].read /\ (version[s] = 0 \/ thread[t].read <= version[s])
    BY <1>1, <2>1 DEF LooksFit, Older, Making, Writing
  <2>4. v = version[s] => version[s] = thread[t].read BY <1>1, <2>2, <2>3
  <2> QED BY <1>3, <2>1, <2>4
<1>8. KeyOf(t) \notin DOMAIN temp => crashed \/ "age" \in sc.events BY <1>1 DEF Inv, TempOwned
<1>9. Locked' /\ TempTrue' /\ TempOwned'
  BY <1>1, <1>2, <1>4, <1>6, <1>7, <1>8, WritesKeep DEF Writing
<1>10. \A o \in DOMAIN temp' : temp'[o] \in Output BY <1>1, <1>4, <1>5 DEF With, Typed
<1> QED BY <1>1, <1>9, <1>10, CacheStays

\* When ffmpeg fails, the thread removes its own temporary file.
LEMMA FfmpegFailsKeeps ==
  ASSUME Inv, PostersApart, NEW t \in Threads, FfmpegFails(t), Turns(t)
  PROVE  /\ Locked' /\ TempTrue' /\ CacheTrue' /\ TempOwned'
         /\ \A o \in DOMAIN temp' : temp'[o] \in Output
<1>1. /\ Frame(t) /\ UNCHANGED <<sc, version, cache, stale, crashed>>
      /\ thread[t].pc = "ffmpeg" /\ Ends(t, "failed") /\ lock' = Unlocked(t)
      /\ temp' = Without(temp, KeyOf(t)) /\ Typed
  BY DEF Turns, FfmpegFails, At, Inv, CleanedTemp
<1>2. thread'[t].pc = "rest" BY <1>1, EndFits
<1>3. "age" \in sc.events \/ stale' = {} BY <1>1 DEF Inv, TempOwned
<1>4. /\ Locked' /\ TempTrue' /\ TempOwned'
      /\ \A o \in DOMAIN temp' : o \in DOMAIN temp /\ temp'[o] = temp[o]
  BY <1>1, <1>2, <1>3, GivesUp DEF Keyed
<1> QED BY <1>1, <1>4, CacheStays DEF Typed

\* The output gets its name.
LEMMA ReplaceKeeps ==
  ASSUME Inv, PostersApart, NEW t \in Threads, Replace(t), Turns(t)
  PROVE  /\ Locked' /\ TempTrue' /\ CacheTrue' /\ TempOwned'
         /\ \A o \in DOMAIN temp' : temp'[o] \in Output
         /\ \A o \in DOMAIN cache' : cache'[o] \in Output
<1>1. /\ Frame(t) /\ UNCHANGED <<sc, version, crashed>>
      /\ thread[t].pc = "replace" /\ lock' = Unlocked(t) /\ thread[t].pc \in Keyed
      /\ temp' = Without(temp, KeyOf(t)) /\ Typed /\ thread[t] \in Thread
  BY ThreadTyped DEF Turns, Replace, At, Inv, Keyed
<1>2. thread'[t].pc \in {"rest", "record"}
  <2>1. ASSUME NEW how \in {"failed", "generated"}, Ends(t, how) PROVE thread'[t].pc = "rest"
    BY <1>1, <2>1, EndFits
  <2>2. ASSUME To(t, "record") PROVE thread'[t].pc = "record"
    BY <1>1, <2>2 DEF To, Typed, Thread
  <2> QED BY <2>1, <2>2 DEF Replace
<1>3. "age" \in sc.events \/ stale' = {}
  <2>1. stale' = stale \/ stale' = stale \ {<<"cache", TargetOf(t)>>} BY DEF Replace
  <2> QED BY <2>1 DEF Inv, TempOwned
<1>4. /\ Locked' /\ TempTrue' /\ TempOwned'
      /\ \A o \in DOMAIN temp' : o \in DOMAIN temp /\ temp'[o] = temp[o]
  BY <1>1, <1>2, <1>3, GivesUp DEF Keyed
<1>5. CASE KeyOf(t) \notin DOMAIN temp
  <2>1. UNCHANGED cache BY <1>5 DEF Replace
  <2> QED BY <1>1, <1>4, <2>1, CacheStays DEF Typed
<1>6. CASE KeyOf(t) \in DOMAIN temp
  <2>1. PICK e, o, v, s : /\ e = temp[KeyOf(t)] /\ o = TargetOf(t) /\ v = Version(t)
                          /\ s = thread[t].src
    OBVIOUS
  <2>2. cache' = With(cache, o, e) BY <1>6, <2>1 DEF Replace
  <2>3. e \in Output /\ e.whole /\ (v = version[s] => e.from = v)
    BY <1>1, <1>6, <2>1 DEF Inv, TempTrue, Typed
  <2>4. o = Key(Kind(t), s, v) /\ v \in Nat /\ v > 0 /\ Older(v, s)
    BY <1>1, <2>1, VersionFits
  <2>5. CacheTrue /\ \A p \in DOMAIN cache : cache[p] \in Output BY <1>1 DEF Inv, Typed
  <2>6. \A p \in DOMAIN cache' : cache'[p] \in Output /\ cache'[p].whole
    BY <2>2, <2>3, <2>5 DEF With, CacheTrue
  <2>7. ASSUME NEW kind \in {"play", "poster", "thumb"}, NEW x \in Sources, NEW y \in Nat,
               Key(kind, x, y) \in DOMAIN cache'
        PROVE  y > 0 /\ Older(y, x)' /\ (y = version'[x] => cache'[Key(kind, x, y)].from = y)
    <3>1. CASE Key(kind, x, y) = o
      <4>1. x = s /\ y = v BY <2>4, <3>1 DEF Key
      <4>2. cache'[o] = e BY <2>2 DEF With
      <4> QED BY <1>1, <2>3, <2>4, <3>1, <4>1, <4>2 DEF Older
    <3>2. CASE Key(kind, x, y) # o
      <4>1. /\ Key(kind, x, y) \in DOMAIN cache
            /\ cache'[Key(kind, x, y)] = cache[Key(kind, x, y)]
        BY <2>2, <2>7, <3>2 DEF With
      <4> QED BY <1>1, <2>5, <4>1 DEF CacheTrue, Older
    <3> QED BY <3>1, <3>2
  <2> QED BY <1>1, <1>4, <2>6, <2>7 DEF CacheTrue, Typed
<1> QED BY <1>5, <1>6

-----------------------------------------------------------------------------
(* Archives.                                                               *)

\* Steps that leave the archives alone.
LEMMA ZipsStay ==
  ASSUME Inv, NEW t \in Threads, Frame(t), UNCHANGED <<sc, zips, crashed>>,
         thread'[t].run \in Nat,
         \/ t \in Workers
         \/ /\ thread'[t].run = thread[t].run /\ thread'[t].pc = thread[t].pc
            /\ thread'[t].art = thread[t].art
         \/ /\ thread'[t].run = thread[t].run /\ thread[t].pc \notin Zipping
            /\ sc.kind[t] # "zip"
         \/ /\ thread'[t].run = thread[t].run + 1 /\ thread[t].pc \notin Zipping
            /\ thread'[t].art = thread[t].art
  PROVE  ZipsFit'
<1>1. /\ Typed /\ ZipsFit /\ zips \subseteq Jobs \X Nat \X BOOLEAN
      /\ \A j \in Jobs : j \in Threads /\ j \notin Workers /\ thread[j].run \in Nat
  BY ThreadAssumption, ThreadTyped DEF Inv, Typed, Threads
<1>2. \A u \in Threads \ {t} : Same(thread[u], thread'[u]) BY DEF Frame
<1>3. \A z \in zips : z[1] \in Jobs /\ z[2] \in Nat BY <1>1
<1>4. ASSUME NEW z \in zips PROVE z[2] <= thread'[z[1]].run
  <2>1. z[2] <= thread[z[1]].run /\ thread[z[1]].run \in Nat BY <1>1, <1>3 DEF ZipsFit
  <2>2. CASE z[1] # t BY <1>1, <1>2, <1>3, <2>1, <2>2 DEF Same
  <2>3. CASE z[1] = t
    <3>1. thread'[t].run >= thread[t].run BY <1>1, <1>3, <2>1, <2>3
    <3> QED BY <1>3, <2>1, <2>3, <3>1
  <2> QED BY <2>2, <2>3
<1>5. ASSUME ~crashed, NEW z \in zips, ~z[3]
      PROVE  thread'[z[1]].pc \in {"zipwait", "zipwrite"} /\ thread'[z[1]].run = z[2]
  <2>1. thread[z[1]].pc \in {"zipwait", "zipwrite"} /\ thread[z[1]].run = z[2]
    BY <1>1, <1>5 DEF ZipsFit
  <2>2. CASE z[1] # t BY <1>1, <1>2, <1>3, <2>1, <2>2 DEF Same
  <2>3. CASE z[1] = t BY <1>1, <1>3, <2>1, <2>3 DEF Zipping
  <2> QED BY <2>2, <2>3
<1>6. ASSUME NEW j \in Jobs, sc.kind[j] = "zip", thread'[j].art # <<>>
      PROVE  \E r \in Nat : /\ thread'[j].art = <<j, r>> /\ <<j, r, FALSE>> \notin zips
                            /\ r <= thread'[j].run
                            /\ thread'[j].pc \in Zipping => r < thread'[j].run
  <2>1. thread'[j].art = thread[j].art
    BY <1>1, <1>2, <1>6 DEF Same
  <2>2. PICK r \in Nat : /\ thread[j].art = <<j, r>> /\ <<j, r, FALSE>> \notin zips
                         /\ r <= thread[j].run
                         /\ thread[j].pc \in Zipping => r < thread[j].run
    BY <1>1, <1>6, <2>1 DEF ZipsFit
  <2>3. r <= thread'[j].run /\ (thread'[j].pc \in Zipping => r < thread'[j].run)
    <3>1. CASE j # t BY <1>1, <1>2, <2>2, <3>1 DEF Same
    <3>2. CASE j = t
      <4>1. \/ thread'[j].run = thread[j].run /\ thread'[j].pc = thread[j].pc
            \/ thread'[j].run = thread[j].run + 1
        BY <1>1, <1>6, <3>2
      <4>2. thread[j].run \in Nat BY <1>1
      <4> QED BY <2>2, <4>1, <4>2
    <3> QED BY <3>1, <3>2
  <2> QED BY <2>1, <2>2, <2>3
<1> QED BY <1>4, <1>5, <1>6 DEF ZipsFit

\* An archive's own job.
LEMMA ZipKeeps ==
  ASSUME Inv, NEW j \in Jobs, ZipBegins(j) \/ ZipSemaphore(j) \/ ZipAborts(j) \/ ZipEnds(j)
  PROVE  ZipsFit' /\ zips' \subseteq Jobs \X Nat \X BOOLEAN
<1>1. /\ Typed /\ ZipsFit /\ zips \subseteq Jobs \X Nat \X BOOLEAN
      /\ \A k \in Jobs : k \in Threads /\ thread[k].run \in Nat
  BY ThreadTyped DEF Inv, Typed, Threads
<1>2. /\ Frame(j) /\ thread[j].pc \in Zipping /\ thread'[j].pc \in {"zipwait", "zipwrite", "rest"}
      /\ thread'[j].run = thread[j].run /\ sc.kind[j] = "zip" /\ UNCHANGED <<sc, crashed>>
      /\ thread'[j].art = IF ZipEnds(j) THEN <<j, thread[j].run>> ELSE thread[j].art
  BY ZipRow
<1>3. PICK n : n = thread[j].run OBVIOUS
<1>4. n \in Nat BY <1>1, <1>3
<1>5. /\ \/ /\ zips' \subseteq zips
            /\ ~crashed /\ thread'[j].pc = "rest" => <<j, n, FALSE>> \notin zips'
            /\ ~ZipEnds(j)
         \/ /\ zips' = zips \cup {<<j, n, FALSE>>} /\ thread'[j].pc = "zipwait" /\ ~ZipEnds(j)
         \/ /\ zips' = (zips \ {<<j, n, FALSE>>}) \cup {<<j, n, TRUE>>} /\ thread'[j].pc = "rest"
  <2>1. CASE ZipBegins(j)
    <3>1. ~ZipEnds(j) /\ thread[j].pc = "zip" BY <2>1 DEF ZipBegins, ZipEnds, At
    <3>2. CASE UNCHANGED zips /\ ~crashed
      <4>1. <<j, n, FALSE>> \notin zips
        <5>1. <<j, n, FALSE>>[1] = j /\ <<j, n, FALSE>>[3] = FALSE OBVIOUS
        <5> QED BY <1>1, <3>1, <3>2, <5>1 DEF ZipsFit
      <4> QED BY <3>1, <3>2, <4>1
    <3>3. CASE UNCHANGED zips /\ crashed BY <3>1, <3>3
    <3>4. CASE zips' = zips \cup {Archive(j, FALSE)} /\ To(j, "zipwait")
      <4>1. thread'[j].pc = "zipwait" BY <1>1, <3>4 DEF To, Typed, Thread
      <4> QED BY <1>3, <3>1, <3>4, <4>1 DEF Archive
    <3> QED BY <2>1, <3>2, <3>3, <3>4 DEF ZipBegins
  <2>2. CASE ZipSemaphore(j)
    <3>1. ~ZipEnds(j) /\ zips' = zips /\ To(j, "zipwrite")
      BY <2>2 DEF ZipSemaphore, ZipEnds, At
    <3>2. thread'[j].pc = "zipwrite" BY <1>1, <3>1 DEF To, Typed, Thread
    <3> QED BY <3>1, <3>2
  <2>3. CASE ZipAborts(j) /\ ~ZipEnds(j)
    BY <1>3, <2>3 DEF ZipAborts, Aborted, Archive
  <2>4. CASE ZipEnds(j)
    <3>1. zips' = (zips \ {<<j, n, FALSE>>}) \cup {<<j, n, TRUE>>}
      BY <1>3, <2>4 DEF ZipEnds, Finished, Archive
    <3>2. thread'[j].pc = "rest" BY <1>1, <2>4 DEF ZipEnds, Typed, Thread
    <3> QED BY <3>1, <3>2
  <2> QED BY <2>1, <2>2, <2>3, <2>4
<1>6. PICK x, y : x = <<j, n, FALSE>> /\ y = <<j, n, TRUE>> OBVIOUS
<1>7. /\ x \in Jobs \X Nat \X BOOLEAN /\ y \in Jobs \X Nat \X BOOLEAN
       /\ x[1] = j /\ y[1] = j /\ x[2] = n /\ y[2] = n /\ x[3] = FALSE /\ y[3] = TRUE
       /\ \A z \in zips : z[1] = j /\ z[2] = n /\ ~z[3] => z = x
  <2>1. /\ x \in Jobs \X Nat \X BOOLEAN /\ y \in Jobs \X Nat \X BOOLEAN
        /\ x[1] = j /\ y[1] = j /\ x[2] = n /\ y[2] = n /\ x[3] = FALSE /\ y[3] = TRUE
    BY <1>4, <1>6
  <2>2. ASSUME NEW z \in zips, z[1] = j, z[2] = n, ~z[3] PROVE z = x
    <3>1. PICK a \in Jobs, b \in Nat, c \in BOOLEAN : z = <<a, b, c>> BY <1>1, <2>2
    <3>2. a = j /\ b = n /\ c = FALSE BY <2>2, <3>1
    <3> QED BY <1>6, <3>1, <3>2
  <2> QED BY <2>1, <2>2
<1>8. \A z \in zips' : z \in zips \/ z = x \/ z = y BY <1>5, <1>6
<1>9. \A z \in zips' : z \in zips \/ z = y \/ (z = x /\ thread'[j].pc = "zipwait")
  <2>1. x # y BY <1>7
  <2> QED BY <1>5, <1>6, <2>1
<1>10. zips' \subseteq Jobs \X Nat \X BOOLEAN BY <1>1, <1>7, <1>8
<1>11. \A k \in Jobs \ {j} : Same(thread[k], thread'[k]) BY <1>1, <1>2 DEF Frame
<1>12. ASSUME NEW z \in zips' PROVE z[2] <= thread'[z[1]].run
  <2>1. z \in zips \/ z = x \/ z = y BY <1>8
  <2>2. CASE z \in zips
    <3>1. z[2] <= thread[z[1]].run /\ z[1] \in Jobs BY <1>1, <2>2 DEF ZipsFit
    <3> QED BY <1>2, <1>11, <3>1 DEF Same
  <2>3. CASE z = x \/ z = y
    <3>1. z[1] = j /\ z[2] = n BY <1>7, <2>3
    <3> QED BY <1>2, <1>3, <1>4, <3>1
  <2> QED BY <2>1, <2>2, <2>3
<1>13. ASSUME ~crashed, NEW z \in zips', ~z[3]
      PROVE  thread'[z[1]].pc \in {"zipwait", "zipwrite"} /\ thread'[z[1]].run = z[2]
  <2>1. CASE z \in zips
    <3>1. /\ thread[z[1]].pc \in {"zipwait", "zipwrite"} /\ thread[z[1]].run = z[2]
          /\ z[1] \in Jobs
      BY <1>1, <1>13, <2>1 DEF ZipsFit
    <3>2. CASE z[1] # j BY <1>11, <3>1, <3>2 DEF Same
    <3>3. CASE z[1] = j
      <4>1. z = x BY <1>3, <1>13, <1>7, <2>1, <3>1, <3>3
      <4>2. thread'[j].pc # "rest"
        <5>1. <<j, n, FALSE>> \in zips' BY <1>13, <1>6, <4>1
        <5>2. <<j, n, FALSE>> # <<j, n, TRUE>> OBVIOUS
        <5> QED BY <1>5, <1>13, <5>1, <5>2
      <4> QED BY <1>2, <3>1, <3>3, <4>2
    <3> QED BY <3>2, <3>3
  <2>2. CASE z \notin zips
    <3>1. z = x /\ thread'[j].pc = "zipwait" BY <1>13, <1>7, <1>9, <2>2
    <3> QED BY <1>2, <1>3, <1>7, <3>1
  <2> QED BY <2>1, <2>2
<1>14. ASSUME NEW k \in Jobs, sc.kind[k] = "zip", thread'[k].art # <<>>
       PROVE  \E r \in Nat : /\ thread'[k].art = <<k, r>> /\ <<k, r, FALSE>> \notin zips'
                             /\ r <= thread'[k].run
                             /\ thread'[k].pc \in Zipping => r < thread'[k].run
  <2>1. CASE k # j
    <3>1. Same(thread[k], thread'[k]) BY <1>11, <2>1
    <3>2. PICK r \in Nat : /\ thread[k].art = <<k, r>> /\ <<k, r, FALSE>> \notin zips
                           /\ r <= thread[k].run
                           /\ thread[k].pc \in Zipping => r < thread[k].run
      BY <1>1, <1>14, <3>1 DEF ZipsFit, Same
    <3>3. <<k, r, FALSE>> \notin zips'
      <4>1. PICK z : z = <<k, r, FALSE>> OBVIOUS
      <4>2. z[1] = k BY <4>1
      <4>3. z # x /\ z # y BY <1>7, <2>1, <4>2
      <4> QED BY <1>8, <3>2, <4>1, <4>3
    <3> QED BY <3>1, <3>2, <3>3 DEF Same
  <2>2. CASE k = j /\ ~ZipEnds(j)
    <3>1. PICK r \in Nat : /\ thread[j].art = <<j, r>> /\ <<j, r, FALSE>> \notin zips
                           /\ r < n
      BY <1>1, <1>2, <1>3, <1>14, <2>2 DEF ZipsFit
    <3>2. <<j, r, FALSE>> \notin zips'
      <4>1. PICK z : z = <<j, r, FALSE>> OBVIOUS
      <4>2. z[2] = r BY <4>1
      <4>3. z # x /\ z # y BY <1>4, <1>7, <3>1, <4>2
      <4> QED BY <1>8, <3>1, <4>1, <4>3
    <3>3. r <= thread'[j].run /\ r < thread'[j].run BY <1>2, <1>3, <1>4, <3>1
    <3> QED BY <1>2, <2>2, <3>1, <3>2, <3>3
  <2>3. CASE k = j /\ ZipEnds(j)
    <3>1. thread'[j].art = <<j, n>> /\ thread'[j].run = n BY <1>2, <1>3, <2>3
    <3>2. thread'[j].pc = "rest" BY <1>1, <2>3 DEF ZipEnds, Typed, Thread
    <3>3. <<j, n, FALSE>> \notin zips' BY <1>3, <2>3 DEF ZipEnds, Finished, Archive
    <3>4. thread'[j].pc \notin Zipping /\ n <= n BY <1>4, <3>2 DEF Zipping
    <3> QED BY <1>4, <2>3, <3>1, <3>3, <3>4
  <2> QED BY <2>1, <2>2, <2>3
<1>15. crashed' = crashed /\ sc' = sc BY <1>2
<1> QED BY <1>10, <1>12, <1>13, <1>14, <1>15 DEF ZipsFit

-----------------------------------------------------------------------------
(* Batches.                                                                *)

\* The threads of a batch's workers and their job.
LEMMA OwnerIs ==
  ASSUME Inv, NEW w \in Workers, thread[w].owner # "none"
  PROVE  /\ thread[w].owner \in Jobs /\ thread[w].src \in Sources /\ w \in Threads
         /\ thread[w].pc \in Making /\ thread[thread[w].owner].pc \in Pooling
         /\ thread[thread[w].owner].results[thread[w].src] = "taken"
         /\ thread[w].owner # w /\ w \notin Jobs
<1>1. w \in Threads /\ w \notin Jobs BY ThreadAssumption DEF Threads
<1>2. thread[w].owner \in Jobs \cup {"none"} BY <1>1, ThreadTyped DEF Inv
<1>3. OwnersFit BY DEF Inv, BatchFits
<1>4. thread[w].pc \in Making BY <1>3 DEF OwnersFit
<1>5. thread[w].src \in Sources BY <1>1, <1>4 DEF Inv, Placed, PlaceFits
<1> QED BY <1>1, <1>2, <1>3, <1>4, <1>5 DEF OwnersFit

\* A step of a job that is no batch's, or that only changes its status.
LEMMA JobBatch ==
  ASSUME Inv, NEW j \in Jobs, Frame(j), sc' = sc, thread'[j].owner = thread[j].owner,
         \A u \in Threads \ {j} : thread'[u].results = thread[u].results,
         \/ /\ thread'[j].pc = thread[j].pc /\ thread'[j].results = thread[j].results
            /\ Stopping(j) => Stopping(j)'
            /\ thread'[j].status # "done"
         \/ /\ thread[j].pc \notin Pooling /\ thread'[j].pc \notin Pooling
            /\ thread'[j].pc = "fill" => thread'[j].results = [s \in Sources |-> "none"]
            /\ sc.kind[j] = "fill" => thread'[j].pc # "rest"
  PROVE  BatchFits'
<1>1. /\ \A w \in Workers : w \in Threads /\ w # j
      /\ \A k \in Jobs : k \in Threads /\ k \notin Workers
  BY ThreadAssumption DEF Threads
<1>2. \A u \in Threads \ {j} : Same(thread[u], thread'[u]) BY DEF Frame
<1>3. \A w \in Workers : /\ thread'[w].owner = thread[w].owner /\ thread'[w].src = thread[w].src
                         /\ thread'[w].pc = thread[w].pc
  BY <1>1, <1>2 DEF Same
<1>4. OwnersFit /\ OwnersApart /\ \A k \in Jobs, s \in Sources : ResultsFit(k, s)
  BY DEF Inv, BatchFits
<1>5. OwnersFit'
  <2> SUFFICES ASSUME NEW w \in Workers, thread'[w].owner # "none"
               PROVE  /\ thread'[w].pc \in Making /\ thread'[thread'[w].owner].pc \in Pooling
                      /\ thread'[thread'[w].owner].results[thread'[w].src] = "taken"
    BY DEF OwnersFit
  <2>1. PICK k : k = thread[w].owner OBVIOUS
  <2>2. /\ k \in Jobs /\ thread[w].pc \in Making /\ thread[k].pc \in Pooling
        /\ thread[k].results[thread[w].src] = "taken"
    BY <1>3, <2>1, OwnerIs
  <2>3. thread'[k].pc = thread[k].pc /\ thread'[k].results = thread[k].results
    BY <1>1, <1>2, <2>2 DEF Same
  <2> QED BY <1>3, <2>1, <2>2, <2>3
<1>6. OwnersApart' BY <1>3, <1>4 DEF OwnersApart
<1>7. ASSUME NEW k \in Jobs, NEW s \in Sources PROVE ResultsFit(k, s)'
  <2>1. ResultsFit(k, s) BY <1>4
  <2>2. CASE k # j
    <3>1. Same(thread[k], thread'[k]) /\ thread'[k].results = thread[k].results
      BY <1>1, <1>2, <2>2
    <3> QED BY <1>3, <2>1, <3>1 DEF ResultsFit, Same, Stopping
  <2>3. CASE k = j
    <3>1. CASE thread'[j].pc = thread[j].pc /\ thread'[j].results = thread[j].results
               /\ (Stopping(j) => Stopping(j)') /\ thread'[j].status # "done"
      BY <1>3, <2>1, <2>3, <3>1 DEF ResultsFit
    <3>2. CASE /\ thread'[j].pc \notin Pooling
               /\ thread'[j].pc = "fill" => thread'[j].results = [x \in Sources |-> "none"]
               /\ sc.kind[j] = "fill" => thread'[j].pc # "rest"
      BY <2>3, <3>2 DEF ResultsFit
    <3> QED BY <3>1, <3>2
  <2> QED BY <2>2, <2>3
<1> QED BY <1>5, <1>6, <1>7 DEF BatchFits

\* A request's worker starts.
LEMMA RequestBatch ==
  ASSUME Inv, NEW w \in Workers, Frame(w), sc' = sc,
         \A u \in Threads \ {w} : thread'[u] = thread[u],
         thread[w].pc = "rest", thread'[w].owner = "none"
  PROVE  BatchFits'
<1>1. /\ \A u \in Workers : u \in Threads
      /\ \A k \in Jobs : k \in Threads /\ k # w
  BY ThreadAssumption DEF Threads
<1>2. thread[w].owner = "none" BY OwnerIs DEF Making
<1>3. OwnersFit /\ OwnersApart /\ \A k \in Jobs, s \in Sources : ResultsFit(k, s)
  BY DEF Inv, BatchFits
<1>4. OwnersFit'
  <2> SUFFICES ASSUME NEW u \in Workers, thread'[u].owner # "none"
               PROVE  /\ thread'[u].pc \in Making /\ thread'[thread'[u].owner].pc \in Pooling
                      /\ thread'[thread'[u].owner].results[thread'[u].src] = "taken"
    BY DEF OwnersFit
  <2>1. u # w /\ thread'[u] = thread[u] BY <1>1
  <2>2. PICK k : k = thread[u].owner OBVIOUS
  <2>3. k \in Jobs /\ thread'[k] = thread[k] BY <1>1, <2>1, <2>2, OwnerIs
  <2> QED BY <2>1, <2>2, <2>3, OwnerIs
<1>5. OwnersApart'
  <2> SUFFICES ASSUME NEW u \in Workers, NEW x \in Workers, thread'[u].owner # "none",
                      thread'[u].owner = thread'[x].owner, thread'[u].src = thread'[x].src
               PROVE  u = x
    BY DEF OwnersApart
  <2>1. u # w /\ x # w BY <1>1
  <2> QED BY <1>1, <1>3, <2>1 DEF OwnersApart
<1>6. ASSUME NEW k \in Jobs, NEW s \in Sources PROVE ResultsFit(k, s)'
  <2>1. ResultsFit(k, s) /\ thread'[k] = thread[k] /\ (Stopping(k)' <=> Stopping(k))
    BY <1>1, <1>3 DEF Stopping
  <2>2. ASSUME NEW u \in Workers, thread[u].owner = k
        PROVE  thread'[u].owner = k /\ thread'[u].src = thread[u].src
    <3>1. u # w BY <1>2, <2>2, ThreadAssumption DEF Threads
    <3> QED BY <1>1, <2>2, <3>1
  <2> QED BY <2>1, <2>2 DEF ResultsFit
<1> QED BY <1>4, <1>5, <1>6 DEF BatchFits

\* A thread that makes an output goes on or ends.
LEMMA TurnsBatch ==
  ASSUME Inv, NEW t \in Threads, Turns(t), sc' = sc, thread[t].pc \in Making,
         Kind(t) \in {"play", "poster", "thumb"}
  PROVE  BatchFits'
<1>1. /\ \A u \in Workers : u \in Threads /\ u \notin Jobs
      /\ \A k \in Jobs : k \in Threads /\ k \notin Workers
      /\ "none" \notin Jobs
  BY ThreadAssumption DEF Threads
<1>2. /\ Frame(t) /\ thread'[t].src = thread[t].src
      /\ thread[t].pc \notin Pooling \cup {"fill", "rest"}
      /\ t \in Jobs => sc.kind[t] # "fill" /\ thread[t].owner = "none"
  BY ThreadTyped DEF Turns, Making, Pooling, Kind, Inv, Placed, PlaceFits
<1>3. \A u \in Threads \ {t} : Same(thread[u], thread'[u]) BY <1>2 DEF Frame
<1>4. OwnersFit /\ OwnersApart /\ \A k \in Jobs, s \in Sources : ResultsFit(k, s)
  BY DEF Inv, BatchFits
<1>5. \A k \in Jobs : thread[k].results \in [Sources -> Results]
  BY <1>1, ThreadTyped DEF Inv
\* Who keeps an owner, and what becomes of the results.
<1>6. \A u \in Workers : thread'[u].owner # "none" =>
        /\ thread'[u].owner = thread[u].owner /\ thread'[u].src = thread[u].src
        /\ thread'[u].pc \in Making
  <2> SUFFICES ASSUME NEW u \in Workers, thread'[u].owner # "none"
               PROVE  /\ thread'[u].owner = thread[u].owner /\ thread'[u].src = thread[u].src
                      /\ thread'[u].pc \in Making
    OBVIOUS
  <2>1. CASE u = t BY <1>1, <1>2, <2>1 DEF Turns
  <2>2. CASE u # t
    <3>1. Same(thread[u], thread'[u]) BY <1>1, <1>3, <2>2
    <3> QED BY <3>1, OwnerIs DEF Same
  <2> QED BY <2>1, <2>2
<1>7. ASSUME NEW k \in Jobs, NEW s \in Sources
      PROVE  \/ /\ thread'[k].results[s] = thread[k].results[s]
                /\ \A u \in Workers : thread[u].owner = k /\ thread[u].src = s =>
                     thread'[u].owner = k /\ thread'[u].src = s
             \/ /\ thread'[k].results[s] \in {"failed", "skipped", "generated"}
                /\ t \in Workers /\ thread[t].owner = k /\ thread[t].src = s
                /\ thread'[t].owner = "none"
  <2>1. CASE /\ \A u \in Threads : thread'[u].results = thread[u].results
             /\ thread'[t].owner = thread[t].owner
    <3>1. \A u \in Threads : thread'[u].owner = thread[u].owner /\ thread'[u].src = thread[u].src
      BY <1>2, <1>3, <2>1 DEF Same
    <3> QED BY <1>1, <2>1, <3>1
  <2>2. ASSUME NEW how \in {"failed", "skipped", "generated"}, Hands(t, how),
               thread'[t].owner = "none"
        PROVE  \/ /\ thread'[k].results[s] = thread[k].results[s]
                  /\ \A u \in Workers : thread[u].owner = k /\ thread[u].src = s =>
                       thread'[u].owner = k /\ thread'[u].src = s
               \/ /\ thread'[k].results[s] \in {"failed", "skipped", "generated"}
                  /\ t \in Workers /\ thread[t].owner = k /\ thread[t].src = s
                  /\ thread'[t].owner = "none"
    <3>1. thread'[k].results =
            IF thread[t].owner = k THEN [thread[k].results EXCEPT ![thread[t].src] = how]
            ELSE thread[k].results
      BY <1>1, <2>2 DEF Hands
    <3>2. CASE thread[t].owner = k /\ thread[t].src = s
      <4>1. t \in Workers BY <1>1, <1>2, <3>2 DEF Threads
      <4>2. thread'[k].results[s] = how BY <1>5, <3>1, <3>2
      <4> QED BY <2>2, <3>2, <4>1, <4>2
    <3>3. CASE ~(thread[t].owner = k /\ thread[t].src = s)
      <4>1. thread'[k].results[s] = thread[k].results[s] BY <1>5, <3>1, <3>3
      <4>2. ASSUME NEW u \in Workers, thread[u].owner = k, thread[u].src = s
            PROVE  thread'[u].owner = k /\ thread'[u].src = s
        BY <1>1, <1>3, <3>3, <4>2 DEF Same
      <4> QED BY <4>1, <4>2
    <3> QED BY <3>2, <3>3
  <2> QED BY <2>1, <2>2 DEF Turns
<1>8. OwnersFit'
  <2> SUFFICES ASSUME NEW u \in Workers, thread'[u].owner # "none"
               PROVE  /\ thread'[u].pc \in Making /\ thread'[thread'[u].owner].pc \in Pooling
                      /\ thread'[thread'[u].owner].results[thread'[u].src] = "taken"
    BY DEF OwnersFit
  <2>1. PICK k, s : k = thread[u].owner /\ s = thread[u].src OBVIOUS
  <2>2. k = thread'[u].owner /\ s = thread'[u].src /\ thread'[u].pc \in Making BY <1>6, <2>1
  <2>3. /\ k \in Jobs /\ s \in Sources /\ thread[k].pc \in Pooling
        /\ thread[k].results[s] = "taken" /\ thread[u].owner # "none"
    BY <2>1, <2>2, OwnerIs
  <2>4. k # t /\ k \in Threads BY <1>1, <1>2, <2>3
  <2>5. thread'[k].pc = thread[k].pc BY <1>3, <2>4 DEF Same
  <2>6. ~(t \in Workers /\ thread[t].owner = k /\ thread[t].src = s /\ thread'[t].owner = "none")
    <3>1. SUFFICES ASSUME t \in Workers, thread[t].owner = k, thread[t].src = s,
                          thread'[t].owner = "none"
                   PROVE  FALSE
      OBVIOUS
    <3>2. u = t BY <1>4, <2>1, <2>3, <3>1 DEF OwnersApart
    <3> QED BY <3>1, <3>2
  <2>7. thread'[k].results[s] = thread[k].results[s] BY <1>7, <2>3, <2>6
  <2> QED BY <2>2, <2>3, <2>5, <2>7
<1>9. OwnersApart'
  <2> SUFFICES ASSUME NEW u \in Workers, NEW x \in Workers, thread'[u].owner # "none",
                      thread'[u].owner = thread'[x].owner, thread'[u].src = thread'[x].src
               PROVE  u = x
    BY DEF OwnersApart
  <2> QED BY <1>4, <1>6 DEF OwnersApart
<1>10. ASSUME NEW k \in Jobs, NEW s \in Sources PROVE ResultsFit(k, s)'
  <2>1. ResultsFit(k, s) BY <1>4
  <2>2. CASE k = t
    <3>1. sc.kind[k] # "fill" /\ thread'[k].pc \notin Pooling \cup {"fill"}
      BY <1>2, <2>2 DEF Turns, Making, Pooling
    <3> QED BY <3>1 DEF ResultsFit
  <2>3. CASE k # t
    <3>1. Same(thread[k], thread'[k]) /\ (Stopping(k)' <=> Stopping(k))
      BY <1>1, <1>3, <2>3 DEF Same, Stopping
    <3>2. CASE /\ thread'[k].results[s] = thread[k].results[s]
               /\ \A u \in Workers : thread[u].owner = k /\ thread[u].src = s =>
                    thread'[u].owner = k /\ thread'[u].src = s
      BY <2>1, <3>1, <3>2 DEF ResultsFit, Same
    <3>3. CASE /\ thread'[k].results[s] \in {"failed", "skipped", "generated"}
               /\ t \in Workers /\ thread[t].owner = k
      <4>1. thread[k].pc \in Pooling BY <1>1, <3>3, OwnerIs
      <4> QED BY <3>1, <3>3, <4>1 DEF ResultsFit, Same, Pooling
    <3> QED BY <1>7, <3>2, <3>3
  <2> QED BY <2>2, <2>3
<1> QED BY <1>8, <1>9, <1>10 DEF BatchFits

\* A batch begins, goes on and ends.
LEMMA FillBatch ==
  ASSUME Inv, NEW j \in Jobs, FillBegins(j) \/ FillCollects(j) \/ FillEnds(j)
  PROVE  BatchFits'
<1>1. /\ \A u \in Workers : u \in Threads /\ u # j
      /\ \A k \in Jobs : k \in Threads /\ k \notin Workers
      /\ thread[j].results \in [Sources -> Results]
  BY ThreadAssumption, ThreadTyped DEF Threads, Inv
<1>2. /\ Frame(j) /\ \A u \in Threads \ {j} : thread'[u].results = thread[u].results
      /\ thread[j].pc \in Pooling \cup {"fill"} /\ thread'[j].pc \in Pooling \cup {"rest"}
      /\ sc' = sc
      /\ IF thread[j].pc = "fill"
         THEN IF thread'[j].pc = "rest" THEN thread'[j].results = thread[j].results
              ELSE \A s \in Sources : thread'[j].results[s] \in {"left", "none"}
         ELSE /\ thread'[j].results = thread[j].results
              /\ thread'[j].pc \in Pooling => thread'[j].status = thread[j].status
              /\ thread'[j].pc = "rest" =>
                   FillEnds(j) /\ thread'[j].status = Outcome(j, "done")
  BY FillRow DEF Calm
<1>3. \A u \in Threads \ {j} : Same(thread[u], thread'[u]) BY <1>2 DEF Frame
<1>4. \A w \in Workers : /\ thread'[w].owner = thread[w].owner /\ thread'[w].src = thread[w].src
                         /\ thread'[w].pc = thread[w].pc
  BY <1>1, <1>3 DEF Same
<1>5. OwnersFit /\ OwnersApart /\ \A k \in Jobs, s \in Sources : ResultsFit(k, s)
  BY DEF Inv, BatchFits
<1>6. FillEnds(j) => Left(j) = {} /\ Mine(j) = {} BY DEF FillEnds, PoolEmpty
<1>7. OwnersFit'
  <2> SUFFICES ASSUME NEW w \in Workers, thread'[w].owner # "none"
               PROVE  /\ thread'[w].pc \in Making /\ thread'[thread'[w].owner].pc \in Pooling
                      /\ thread'[thread'[w].owner].results[thread'[w].src] = "taken"
    BY DEF OwnersFit
  <2>1. PICK k : k = thread[w].owner OBVIOUS
  <2>2. /\ k \in Jobs /\ thread[w].pc \in Making /\ thread[k].pc \in Pooling
        /\ thread[k].results[thread[w].src] = "taken"
    BY <1>4, <2>1, OwnerIs
  <2>3. CASE k # j
    <3>1. thread'[k].pc = thread[k].pc /\ thread'[k].results = thread[k].results
      BY <1>1, <1>2, <1>3, <2>2, <2>3 DEF Same
    <3> QED BY <1>4, <2>1, <2>2, <3>1
  <2>4. CASE k = j
    <3>1. Mine(j) # {} BY <2>1, <2>4 DEF Mine
    <3>2. thread[j].pc # "fill" BY <2>2, <2>4 DEF Pooling
    <3>3. thread'[j].pc \in Pooling /\ thread'[j].results = thread[j].results
      BY <1>2, <1>6, <3>1, <3>2
    <3> QED BY <1>4, <2>1, <2>2, <2>4, <3>3
  <2> QED BY <2>3, <2>4
<1>8. OwnersApart' BY <1>4, <1>5 DEF OwnersApart
<1>9. ASSUME NEW k \in Jobs, NEW s \in Sources PROVE ResultsFit(k, s)'
  <2>1. ResultsFit(k, s) BY <1>5
  <2>2. CASE k # j
    <3>1. Same(thread[k], thread'[k]) /\ thread'[k].results = thread[k].results
      BY <1>1, <1>2, <1>3, <2>2
    <3> QED BY <1>2, <1>4, <2>1, <3>1 DEF ResultsFit, Same, Stopping
  <2>3. CASE k = j /\ thread[j].pc = "fill"
    <3>1. thread[j].results[s] = "none" BY <2>1, <2>3 DEF ResultsFit
    <3> QED BY <1>2, <2>3, <3>1 DEF ResultsFit, Pooling
  <2>4. CASE k = j /\ thread[j].pc \in Pooling /\ thread'[j].pc \in Pooling
    <3>1. thread[j].pc # "fill" /\ thread'[j].pc \notin {"fill", "rest"} BY <2>4 DEF Pooling
    <3>2. thread'[j].results = thread[j].results /\ (Stopping(j)' <=> Stopping(j))
      BY <1>2, <2>4, <3>1 DEF Stopping
    <3> QED BY <1>4, <2>1, <2>4, <3>1, <3>2 DEF ResultsFit
  <2>5. CASE k = j /\ thread[j].pc \in Pooling /\ thread'[j].pc = "rest"
    <3>1. thread[j].pc # "fill" BY <2>5 DEF Pooling
    <3>2. /\ thread'[j].results = thread[j].results /\ Left(j) = {} /\ Mine(j) = {}
          /\ thread'[j].status = Outcome(j, "done")
      BY <1>2, <1>6, <2>5, <3>1
    <3>3. thread'[j].status = "done" => ~Stopping(j) BY <3>2 DEF Outcome, Stopping
    <3>4. thread[j].results[s] \in Results \ {"left", "taken"}
      BY <1>1, <2>1, <2>5, <3>2 DEF Left, Mine, ResultsFit
    <3>5. thread'[j].status = "done" =>
            thread'[j].results[s] \in {"none", "generated", "skipped", "failed"}
      BY <2>1, <2>5, <3>2, <3>3, <3>4 DEF ResultsFit, Results
    <3> QED BY <2>5, <3>5 DEF ResultsFit, Pooling
  <2> QED BY <1>2, <2>2, <2>3, <2>4, <2>5
<1> QED BY <1>7, <1>8, <1>9 DEF BatchFits

\* A source that is taken has the worker that took it.
LEMMA TakesBatch ==
  ASSUME Inv, NEW j \in Jobs, NEW w \in Workers, PoolTakes(j, w)
  PROVE  BatchFits'
<1>1. /\ \A u \in Workers : u \in Threads /\ u # j
      /\ \A k \in Jobs : k \in Threads /\ k \notin Workers /\ k # w
      /\ thread[j].results \in [Sources -> Results]
  BY ThreadAssumption, ThreadTyped DEF Threads, Inv
<1>2. /\ Frame(w) /\ \A u \in Threads \ {j, w} : thread'[u].results = thread[u].results
      /\ Same(thread[j], thread'[j]) /\ thread[j].pc \in Pooling /\ thread[w].pc = "rest"
      /\ sc' = sc
  BY TakesRow DEF Calm
<1>3. PICK s \in Left(j) :
        \/ /\ Stopping(j) /\ thread'[w] = thread[w]
           /\ thread'[j].results = [thread[j].results EXCEPT ![s] = "stopped"]
        \/ /\ thread'[w].pc = "begin" /\ thread'[w].src = s /\ thread'[w].owner = j
           /\ thread'[j].results = [thread[j].results EXCEPT ![s] = "taken"]
  <2>1. \E s \in Left(j) : Takes(j, w, s) BY TakesRow
  <2> QED BY <2>1 DEF Takes
<1>4. s \in Sources /\ thread[j].results[s] = "left" BY <1>3 DEF Left
<1>5. thread[w].owner = "none" BY <1>2, OwnerIs DEF Making
<1>6. OwnersFit /\ OwnersApart /\ \A k \in Jobs, x \in Sources : ResultsFit(k, x)
  BY DEF Inv, BatchFits
<1>7. \A u \in Threads \ {w} : Same(thread[u], thread'[u]) BY <1>2 DEF Frame
<1>8. \A k \in Jobs, x \in Sources :
        k # j \/ x # s => thread'[k].results[x] = thread[k].results[x]
  BY <1>1, <1>2, <1>3
<1>9. ASSUME NEW u \in Workers, thread'[u].owner # "none"
      PROVE  \/ /\ u = w /\ thread'[u].owner = j /\ thread'[u].src = s /\ thread'[u].pc = "begin"
                /\ thread'[j].results = [thread[j].results EXCEPT ![s] = "taken"]
             \/ /\ u # w /\ thread'[u].owner = thread[u].owner /\ thread'[u].src = thread[u].src
                /\ thread'[u].pc = thread[u].pc /\ thread[u].owner \in Jobs
                /\ thread[u].src \in Sources
                /\ thread[u].owner # j \/ thread[u].src # s
  <2>1. CASE u = w BY <1>3, <1>5, <1>9, <2>1
  <2>2. CASE u # w
    <3>1. Same(thread[u], thread'[u]) BY <1>1, <1>7, <2>2
    <3>2. thread[u].owner # "none" BY <1>9, <3>1 DEF Same
    <3>3. /\ thread[u].owner \in Jobs /\ thread[u].src \in Sources
          /\ thread[thread[u].owner].results[thread[u].src] = "taken"
      BY <3>2, OwnerIs
    <3> QED BY <1>4, <2>2, <3>1, <3>3 DEF Same
  <2> QED BY <2>1, <2>2
<1>10. OwnersFit'
  <2> SUFFICES ASSUME NEW u \in Workers, thread'[u].owner # "none"
               PROVE  /\ thread'[u].pc \in Making /\ thread'[thread'[u].owner].pc \in Pooling
                      /\ thread'[thread'[u].owner].results[thread'[u].src] = "taken"
    BY DEF OwnersFit
  <2>1. CASE u = w
    <3>1. thread'[w].owner = j /\ thread'[w].src = s /\ thread'[w].pc = "begin"
      BY <1>9, <2>1
    <3>2. thread'[j].results[s] = "taken" BY <1>1, <1>4, <1>9, <2>1
    <3>3. thread'[j].pc \in Pooling BY <1>2 DEF Same
    <3> QED BY <2>1, <3>1, <3>2, <3>3 DEF Making
  <2>2. CASE u # w
    <3>1. PICK k, x : k = thread[u].owner /\ x = thread[u].src OBVIOUS
    <3>2. /\ thread'[u].owner = k /\ thread'[u].src = x /\ thread'[u].pc = thread[u].pc
          /\ k \in Jobs /\ x \in Sources /\ (k # j \/ x # s) /\ k # "none"
      BY <1>9, <2>2, <3>1
    <3>3. thread[u].pc \in Making /\ thread[k].pc \in Pooling /\ thread[k].results[x] = "taken"
      BY <3>1, <3>2, OwnerIs
    <3>4. thread'[k].pc = thread[k].pc BY <1>1, <1>7, <3>2 DEF Same
    <3>5. thread'[k].results[x] = thread[k].results[x] BY <1>8, <3>2
    <3> QED BY <3>2, <3>3, <3>4, <3>5
  <2> QED BY <2>1, <2>2
<1>11. OwnersApart'
  <2> SUFFICES ASSUME NEW u \in Workers, NEW x \in Workers, thread'[u].owner # "none",
                      thread'[u].owner = thread'[x].owner, thread'[u].src = thread'[x].src
               PROVE  u = x
    BY DEF OwnersApart
  <2>1. CASE u = w \/ x = w BY <1>9, <2>1
  <2>2. CASE u # w /\ x # w BY <1>6, <1>9, <2>2 DEF OwnersApart
  <2> QED BY <2>1, <2>2
<1>12. ASSUME NEW k \in Jobs, NEW x \in Sources PROVE ResultsFit(k, x)'
  <2>1. ResultsFit(k, x) BY <1>6
  <2>2. Same(thread[k], thread'[k]) /\ (Stopping(k)' <=> Stopping(k))
    BY <1>1, <1>7 DEF Same, Stopping
  <2>3. CASE k # j \/ x # s
    <3>1. ASSUME NEW u \in Workers, thread[u].owner = k
          PROVE  thread'[u].owner = k /\ thread'[u].src = thread[u].src
      <4>1. u # w BY <1>5, <3>1, ThreadAssumption DEF Threads
      <4> QED BY <1>1, <1>7, <3>1, <4>1 DEF Same
    <3>2. thread'[k].results[x] = thread[k].results[x] BY <1>8, <2>3
    <3> QED BY <1>2, <2>1, <2>2, <3>1, <3>2 DEF ResultsFit, Same
  <2>4. CASE k = j /\ x = s
    <3>1. thread'[j].pc \in Pooling /\ thread'[j].pc \notin {"fill", "rest"}
      BY <1>2 DEF Same, Pooling
    <3>2. CASE /\ Stopping(j)
               /\ thread'[j].results = [thread[j].results EXCEPT ![s] = "stopped"]
      <4>1. thread'[j].results[s] = "stopped" BY <1>1, <1>4, <3>2
      <4> QED BY <2>2, <2>4, <3>1, <3>2, <4>1 DEF ResultsFit
    <3>3. CASE /\ thread'[w].src = s /\ thread'[w].owner = j
               /\ thread'[j].results = [thread[j].results EXCEPT ![s] = "taken"]
      <4>1. thread'[j].results[s] = "taken" BY <1>1, <1>4, <3>3
      <4> QED BY <2>4, <3>1, <3>3, <4>1 DEF ResultsFit
    <3> QED BY <1>3, <3>2, <3>3
  <2> QED BY <2>3, <2>4
<1> QED BY <1>10, <1>11, <1>12 DEF BatchFits

-----------------------------------------------------------------------------
(* Every step.                                                             *)

\* The steps of making a file keep the invariant.
LEMMA MakeKeeps ==
  ASSUME Inv, PostersApart, NEW t \in Threads, MakeStep(t)
  PROVE  Inv'
<1>1. /\ Turns(t) /\ Calm /\ thread[t].pc \in Making
      /\ Kind(t) \in {"play", "poster", "thumb"}
  BY MakeTurns
<1>2. /\ thread' \in [Threads -> Thread] /\ Frame(t) /\ PlaceFits(t)' /\ LooksFit(t)'
      /\ thread'[t].run = thread[t].run /\ sc' = sc /\ version' = version
      /\ zips' = zips /\ crashed' = crashed /\ Typed
  BY <1>1 DEF Turns, Calm, Inv
<1>3. Placed' /\ Looked' BY <1>2, FramePlace, FrameLooks
<1>4. /\ Locked' /\ TempTrue' /\ CacheTrue' /\ TempOwned'
      /\ \A o \in DOMAIN temp' : temp'[o] \in Output
      /\ \A o \in DOMAIN cache' : cache'[o] \in Output
  <2>1. CASE FirstLook(t) \/ SecondLook(t) \/ Record(t)
    <3>1. UNCHANGED <<sc, version, files, lock, crashed>> /\ thread[t].pc \notin Writing
      BY <2>1 DEF FirstLook, SecondLook, Record, slots, At, Writing
    <3>2. thread'[t].pc \notin Writing /\ (thread'[t].pc \in Keyed => Kind(t) = "poster")
      BY <2>1, FirstTurns, SecondTurns, RecordTurns DEF Writing, Keyed
    <3>3. Locked' /\ TempTrue' /\ CacheTrue' /\ TempOwned'
      BY <1>2, <3>1, <3>2, QuietKeeps
    <3> QED BY <1>2, <3>1, <3>3 DEF files, Typed
  <2>2. CASE Lock(t)
    <3>1. \A o \in DOMAIN temp' : o \in DOMAIN temp /\ temp'[o] = temp[o]
      <4>1. temp' = temp \/ temp' = Without(temp, KeyOf(t)) BY <2>2 DEF Lock
      <4> QED BY <4>1 DEF Without
    <3>2. cache' = cache BY <2>2 DEF Lock
    <3> QED BY <1>1, <1>2, <2>2, <3>1, <3>2, LockKeeps DEF Typed
  <2>3. CASE Control(t)
    <3>1. cache' = cache /\ temp' = temp BY <2>3 DEF Control, files
    <3> QED BY <1>1, <1>2, <2>3, <3>1, ControlKeeps DEF Typed
  <2>4. CASE Ffmpeg(t)
    <3>1. cache' = cache BY <2>4 DEF Ffmpeg
    <3> QED BY <1>1, <1>2, <2>4, <3>1, FfmpegKeeps DEF Typed
  <2>5. CASE FfmpegEnds(t)
    <3>1. cache' = cache BY <2>5 DEF FfmpegEnds
    <3> QED BY <1>1, <1>2, <2>5, <3>1, FfmpegEndsKeeps DEF Typed
  <2>6. CASE FfmpegFails(t)
    <3>1. cache' = cache BY <2>6 DEF FfmpegFails
    <3> QED BY <1>1, <1>2, <2>6, <3>1, FfmpegFailsKeeps DEF Typed
  <2>7. CASE Replace(t) BY <1>1, <2>7, ReplaceKeeps
  <2> QED BY <2>1, <2>2, <2>3, <2>4, <2>5, <2>6, <2>7 DEF MakeStep
<1>5. ZipsFit'
  <2>1. thread'[t].run \in Nat BY <1>2, ThreadTyped
  <2>2. t \in Workers \/ (thread[t].pc \notin Zipping /\ sc.kind[t] # "zip")
    BY <1>1 DEF Kind, Threads, Making, Zipping
  <2> QED BY <1>2, <2>1, <2>2, ZipsStay
<1>6. BatchFits' BY <1>1, <1>2, TurnsBatch
<1>7. Typed' BY <1>2, <1>4 DEF Typed
<1> QED BY <1>3, <1>4, <1>5, <1>6, <1>7 DEF Inv

\* Steps of other threads.
LEMMA QuietInv ==
  ASSUME Inv, NEW t \in Threads, thread' \in [Threads -> Thread], Frame(t),
         PlaceFits(t)', LooksFit(t)', UNCHANGED <<sc, version, files, lock, crashed>>,
         \/ /\ thread'[t].pc = thread[t].pc /\ thread'[t].first = thread[t].first
            /\ thread'[t].second = thread[t].second
            /\ thread'[t].src = thread[t].src \/ thread[t].pc = "rest"
         \/ thread[t].pc \notin Writing /\ thread'[t].pc \notin Keyed,
         zips' \subseteq Jobs \X Nat \X BOOLEAN, ZipsFit', BatchFits'
  PROVE  Inv'
<1>1. Placed' /\ Looked' BY FramePlace, FrameLooks
<1>2. Locked' /\ TempTrue' /\ CacheTrue' /\ TempOwned'
  <2>1. CASE /\ thread'[t].pc = thread[t].pc /\ thread'[t].first = thread[t].first
             /\ thread'[t].second = thread[t].second /\ thread'[t].src = thread[t].src
    BY <2>1, QuietKeeps
  <2>2. CASE thread[t].pc \notin Writing /\ thread'[t].pc \notin Keyed
    <3>1. thread'[t].pc \notin Writing BY <2>2 DEF Writing, Keyed
    <3> QED BY <2>2, <3>1, QuietKeeps
  <2>3. CASE thread'[t].pc = thread[t].pc /\ thread[t].pc = "rest"
    <3>1. thread[t].pc \notin Writing /\ thread'[t].pc \notin Writing
          /\ thread'[t].pc \notin Keyed
      BY <2>3 DEF Writing, Keyed
    <3> QED BY <3>1, QuietKeeps
  <2> QED BY <2>1, <2>2, <2>3
<1>3. Typed'
  <2>1. Typed BY DEF Inv
  <2> QED BY <2>1 DEF Typed, files
<1> QED BY <1>1, <1>2, <1>3 DEF Inv

\* The steps of jobs and of requests on them keep the invariant.
LEMMA JobsKeep ==
  ASSUME Inv, NEW j \in Jobs,
         CreateJob(j) \/ Start(j) \/ JobStep(j) \/ PauseOrCancel(j) \/ ResumeOrRetry(j)
  PROVE  Inv'
<1>1. /\ j \in Threads /\ Typed /\ thread[j].run \in Nat /\ PlaceFits(j)
      /\ sc.kind \in [Jobs -> {"play", "poster", "zip", "fill", "unused"}]
      /\ zips \subseteq Jobs \X Nat \X BOOLEAN
  BY ThreadTyped DEF Threads, Inv, Placed, Typed
<1>2. CASE CreateJob(j) \/ PauseOrCancel(j) \/ ResumeOrRetry(j)
  <2>1. /\ StatusOnly(j) /\ PlaceFits(j)' /\ LooksFit(j)'
        /\ thread'[j].src = thread[j].src \/ thread[j].pc = "rest"
        /\ thread'[j].status # "done"
        /\ Stopping(j) => Stopping(j)'
        /\ Calm /\ UNCHANGED <<files, slots>>
    BY <1>2, StatusRow
  <2>2. /\ thread' \in [Threads -> Thread] /\ Frame(j)
        /\ \A u \in Threads \ {j} : thread'[u].results = thread[u].results
        /\ thread'[j].pc = thread[j].pc /\ thread'[j].run = thread[j].run
        /\ thread'[j].owner = thread[j].owner /\ thread'[j].first = thread[j].first
        /\ thread'[j].second = thread[j].second /\ thread'[j].art = thread[j].art
        /\ thread'[j].results = thread[j].results
        /\ UNCHANGED <<sc, version, files, lock, crashed>> /\ zips' = zips
    BY <2>1 DEF StatusOnly, Calm, slots
  <2>3. ZipsFit' BY <1>1, <2>2, ZipsStay
  <2>4. BatchFits' BY <2>1, <2>2, JobBatch
  <2> QED BY <1>1, <2>1, <2>2, <2>3, <2>4, QuietInv
<1>3. CASE Start(j)
  <2>1. /\ thread' \in [Threads -> Thread] /\ Frame(j) /\ PlaceFits(j)' /\ LooksFit(j)'
        /\ \A u \in Threads \ {j} : thread'[u] = thread[u]
        /\ thread[j].pc = "rest" /\ thread'[j].pc \in {"zip", "fill", "begin"}
        /\ thread'[j].owner = "none" /\ thread'[j].run = thread[j].run + 1
        /\ thread'[j].art = thread[j].art /\ thread'[j].results = [s \in Sources |-> "none"]
        /\ Calm /\ UNCHANGED <<files, slots>>
    BY <1>3, StartRow
  <2>2. UNCHANGED <<sc, version, files, lock, crashed>> /\ zips' = zips BY <2>1 DEF Calm, slots
  <2>3. ZipsFit'
    <3>1. thread'[j].run \in Nat /\ thread[j].pc \notin Zipping BY <1>1, <2>1 DEF Zipping
    <3> QED BY <1>1, <2>1, <2>2, <3>1, ZipsStay
  <2>4. BatchFits'
    <3>1. thread[j].pc \notin Pooling /\ thread'[j].pc \notin Pooling /\ thread'[j].pc # "rest"
      BY <2>1 DEF Pooling
    <3>2. thread[j].owner = "none" BY <1>1 DEF PlaceFits
    <3> QED BY <2>1, <2>2, <3>1, <3>2, JobBatch
  <2>5. thread[j].pc \notin Writing /\ thread'[j].pc \notin Keyed BY <2>1 DEF Writing, Keyed
  <2> QED BY <1>1, <2>1, <2>2, <2>3, <2>4, <2>5, QuietInv
<1>4. CASE ZipBegins(j) \/ ZipSemaphore(j) \/ ZipAborts(j) \/ ZipEnds(j)
  <2>1. /\ thread' \in [Threads -> Thread] /\ Frame(j) /\ PlaceFits(j)' /\ LooksFit(j)'
        /\ \A u \in Threads : thread'[u].results = thread[u].results
        /\ thread[j].pc \in Zipping /\ thread'[j].pc \in {"zipwait", "zipwrite", "rest"}
        /\ thread'[j].owner = thread[j].owner
        /\ sc.kind[j] = "zip" /\ UNCHANGED <<sc, version, files, lock, crashed>>
    BY <1>4, ZipRow
  <2>2. ZipsFit' /\ zips' \subseteq Jobs \X Nat \X BOOLEAN BY <1>4, ZipKeeps
  <2>3. BatchFits'
    <3>1. thread[j].pc \notin Pooling /\ thread'[j].pc \notin Pooling /\ thread'[j].pc # "fill"
      BY <2>1 DEF Pooling, Zipping
    <3> QED BY <2>1, <3>1, JobBatch
  <2>4. thread[j].pc \notin Writing /\ thread'[j].pc \notin Keyed
    BY <2>1 DEF Writing, Keyed, Zipping
  <2> QED BY <1>1, <2>1, <2>2, <2>3, <2>4, QuietInv
<1>5. CASE FillBegins(j) \/ FillCollects(j) \/ FillEnds(j)
  <2>1. /\ thread' \in [Threads -> Thread] /\ Frame(j) /\ PlaceFits(j)' /\ LooksFit(j)'
        /\ thread[j].pc \in Pooling \cup {"fill"} /\ thread'[j].pc \in Pooling \cup {"rest"}
        /\ thread'[j].run = thread[j].run
        /\ sc.kind[j] = "fill" /\ Calm /\ UNCHANGED <<files, slots>>
    BY <1>5, FillRow
  <2>2. UNCHANGED <<sc, version, files, lock, crashed>> /\ zips' = zips BY <2>1 DEF Calm, slots
  <2>3. ZipsFit'
    <3>1. thread[j].pc \notin Zipping BY <2>1 DEF Pooling, Zipping
    <3> QED BY <1>1, <2>1, <2>2, <3>1, ZipsStay
  <2>4. BatchFits' BY <1>5, FillBatch
  <2>5. thread[j].pc \notin Writing /\ thread'[j].pc \notin Keyed
    BY <2>1 DEF Writing, Keyed, Pooling
  <2> QED BY <1>1, <2>1, <2>2, <2>3, <2>4, <2>5, QuietInv
<1>6. ASSUME NEW w \in Workers, PoolTakes(j, w) PROVE Inv'
  <2>1. /\ thread' \in [Threads -> Thread] /\ Frame(w) /\ PlaceFits(w)' /\ LooksFit(w)'
        /\ thread[w].pc = "rest" /\ Calm /\ UNCHANGED <<files, slots>>
        /\ \E s \in Left(j) : Takes(j, w, s)
    BY <1>6, TakesRow
  <2>2. UNCHANGED <<sc, version, files, lock, crashed>> /\ zips' = zips BY <2>1 DEF Calm, slots
  <2>3. w \in Threads BY DEF Threads
  <2>4. thread'[w].pc \in {"rest", "begin"} BY <2>1 DEF Takes
  <2>5. thread'[w].run \in Nat BY <2>1, <2>3 DEF Thread
  <2>6. ZipsFit' BY <2>1, <2>2, <2>3, <2>5, ZipsStay
  <2>7. BatchFits' BY <1>6, TakesBatch
  <2>8. thread[w].pc \notin Writing /\ thread'[w].pc \notin Keyed
    BY <2>1, <2>4 DEF Writing, Keyed
  <2> QED BY <1>1, <2>1, <2>2, <2>3, <2>6, <2>7, <2>8, QuietInv
<1> QED BY <1>2, <1>3, <1>4, <1>5, <1>6 DEF JobStep

\* A thumbnail request keeps the invariant.
LEMMA RequestKeeps ==
  ASSUME Inv, NEW w \in Workers, RequestThumbnail(w)
  PROVE  Inv'
<1>1. /\ thread' \in [Threads -> Thread] /\ Frame(w) /\ PlaceFits(w)' /\ LooksFit(w)'
      /\ \A u \in Threads \ {w} : thread'[u] = thread[u]
      /\ thread[w].pc = "rest" /\ thread'[w].pc = "begin" /\ thread'[w].owner = "none"
      /\ Calm /\ UNCHANGED <<files, slots>>
  BY RequestRow
<1>2. UNCHANGED <<sc, version, files, lock, crashed>> /\ zips' = zips BY <1>1 DEF Calm, slots
<1>3. w \in Threads /\ zips \subseteq Jobs \X Nat \X BOOLEAN BY DEF Threads, Inv, Typed
<1>4. thread'[w].run \in Nat BY <1>1, <1>3 DEF Thread
<1>5. ZipsFit' BY <1>1, <1>2, <1>3, <1>4, ZipsStay
<1>6. BatchFits' BY <1>1, <1>2, RequestBatch
<1>7. thread[w].pc \notin Writing /\ thread'[w].pc \notin Keyed BY <1>1 DEF Writing, Keyed
<1> QED BY <1>1, <1>2, <1>3, <1>5, <1>6, <1>7, QuietInv

\* Steps that leave the threads alone.
LEMMA StillThreads ==
  ASSUME Inv, UNCHANGED <<sc, lock, zips, thread, crashed>>
  PROVE  Placed' /\ Locked' /\ ZipsFit' /\ BatchFits'
<1>1. Placed /\ Locked /\ ZipsFit /\ BatchFits BY DEF Inv
<1>2. Placed' BY <1>1 DEF Placed, PlaceFits, Kind
<1>3. Locked' BY <1>1 DEF Locked, KeyOf, Kind
<1>4. ZipsFit' BY <1>1 DEF ZipsFit
<1>5. BatchFits' BY <1>1 DEF BatchFits, OwnersFit, OwnersApart, ResultsFit, Stopping
<1> QED BY <1>2, <1>3, <1>4, <1>5

\* A source is rewritten or goes away: no output is named after its new version.
LEMMA SourceKeeps ==
  ASSUME Inv, NEW s \in Sources, SourceChanges(s)
  PROVE  Inv'
<1>1. /\ Typed /\ version \in [Sources -> Nat] /\ version[s] > 0
      /\ UNCHANGED <<sc, cache, temp, stale, lock, zips, thread, crashed>>
  BY DEF Inv, Typed, SourceChanges, files, slots
<1>2. PICK v \in {0, version[s] + 1} : version' = [version EXCEPT ![s] = v]
  BY DEF SourceChanges
<1>3. /\ version' \in [Sources -> Nat] /\ version'[s] = v
      /\ \A x \in Sources \ {s} : version'[x] = version[x]
  BY <1>1, <1>2
<1>4. ASSUME NEW x \in Sources, NEW n \in Nat, Older(n, x)
      PROVE  Older(n, x)' /\ (n > 0 /\ n = version'[x] => n = version[x])
  <2>1. CASE x = s BY <1>1, <1>3, <1>4, <2>1 DEF Older
  <2>2. CASE x # s BY <1>3, <1>4, <2>2 DEF Older
  <2> QED BY <2>1, <2>2
<1>5. Placed' /\ Locked' /\ ZipsFit' /\ BatchFits' BY <1>1, StillThreads
<1>6. Looked'
  <2> SUFFICES ASSUME NEW t \in Threads PROVE LooksFit(t)' BY DEF Looked
  <2>1. /\ LooksFit(t) /\ PlaceFits(t) /\ thread' = thread
        /\ thread[t].first \in Nat /\ thread[t].second \in Nat /\ thread[t].read \in Nat
    BY <1>1, ThreadTyped DEF Inv, Looked, Placed
  <2>2. CASE thread[t].pc \in Making
    <3>1. PICK x : x = thread[t].src OBVIOUS
    <3>2. x \in Sources BY <2>1, <2>2, <3>1 DEF PlaceFits
    <3>3. version[x] = 0 => version'[x] = 0 BY <1>1, <1>3, <3>2
    <3> QED BY <1>4, <2>1, <3>1, <3>2, <3>3 DEF LooksFit
  <2>3. CASE thread[t].pc \notin Making
    <3>1. thread'[t].pc \notin Making BY <2>1, <2>3
    <3> QED BY <3>1, StillFits
  <2> QED BY <2>2, <2>3
<1>7. TempTrue'
  <2> SUFFICES ASSUME NEW t \in Threads, thread[t].pc = "replace", KeyOf(t) \in DOMAIN temp
               PROVE  /\ temp[KeyOf(t)].whole
                      /\ Version(t) = version'[thread[t].src] => temp[KeyOf(t)].from = Version(t)
    BY <1>1 DEF TempTrue, KeyOf, Version, Kind
  <2>1. /\ Version(t) \in Nat /\ Version(t) > 0 /\ Older(Version(t), thread[t].src)
        /\ thread[t].src \in Sources
    BY VersionFits DEF Keyed
  <2>2. Version(t) = version'[thread[t].src] => Version(t) = version[thread[t].src]
    BY <1>4, <2>1
  <2> QED BY <2>2 DEF Inv, TempTrue
<1>8. CacheTrue'
  <2>1. CacheTrue BY DEF Inv
  <2>2. \A o \in DOMAIN cache' : cache'[o].whole BY <1>1, <2>1 DEF CacheTrue
  <2>3. ASSUME NEW kind \in {"play", "poster", "thumb"}, NEW x \in Sources, NEW n \in Nat,
               Key(kind, x, n) \in DOMAIN cache'
        PROVE  n > 0 /\ Older(n, x)' /\ (n = version'[x] => cache'[Key(kind, x, n)].from = n)
    <3>1. n > 0 /\ Older(n, x) /\ (n = version[x] => cache[Key(kind, x, n)].from = n)
      BY <1>1, <2>1, <2>3 DEF CacheTrue
    <3> QED BY <1>1, <1>4, <3>1
  <2> QED BY <2>2, <2>3 DEF CacheTrue
<1>9. TempOwned'
  <2>1. TempOwned BY DEF Inv
  <2> QED BY <1>1, <2>1 DEF TempOwned, KeyOf, Kind
<1>10. Typed' BY <1>1, <1>3 DEF Typed
<1> QED BY <1>5, <1>6, <1>7, <1>8, <1>9, <1>10 DEF Inv

\* Files age and are removed.
LEMMA FilesKeep ==
  ASSUME Inv, UNCHANGED <<sc, version, lock, zips, thread, crashed>>,
         \A o \in DOMAIN cache' : o \in DOMAIN cache /\ cache'[o] = cache[o],
         \A o \in DOMAIN temp' : o \in DOMAIN temp /\ temp'[o] = temp[o],
         \/ "age" \in sc.events
         \/ temp' = temp /\ stale' \subseteq stale
  PROVE  Inv'
<1>1. /\ Typed /\ Looked /\ TempTrue /\ CacheTrue /\ TempOwned /\ UNCHANGED <<sc, version, thread, crashed>>
  BY DEF Inv
<1>2. Placed' /\ Locked' /\ ZipsFit' /\ BatchFits' BY StillThreads
<1>3. Looked' BY <1>1 DEF Looked, LooksFit, Older
<1>4. \A t \in Threads : KeyOf(t)' = KeyOf(t) /\ Version(t)' = Version(t)
  BY <1>1 DEF KeyOf, Version, Kind
<1>5. TempTrue' BY <1>1, <1>4 DEF TempTrue
<1>6. CacheTrue' BY <1>1 DEF CacheTrue, Older
<1>7. TempOwned' BY <1>1, <1>4 DEF TempOwned
<1>8. Typed' BY <1>1 DEF Typed
<1> QED BY <1>2, <1>3, <1>5, <1>6, <1>7, <1>8 DEF Inv

\* The clean-up keeps the invariant.
LEMMA CleanKeeps ==
  ASSUME Inv,
         \/ \E f \in CacheFiles : Ages(f) \/ RemoveStale(f)
         \/ \E o \in DOMAIN cache \cup DOMAIN temp :
              ClearOrQuota(o, "all") \/ ClearOrQuota(o, "thumbnails")
  PROVE  Inv'
<1>1. ASSUME NEW f, Ages(f) PROVE Inv'
  BY <1>1, FilesKeep DEF Ages, slots
<1>2. ASSUME NEW f, RemoveStale(f) PROVE Inv'
  <2>1. "age" \in sc.events BY <1>2 DEF RemoveStale, Inv, TempOwned
  <2>2. \/ cache' = Without(cache, f[2]) /\ temp' = temp
        \/ temp' = Without(temp, f[2]) /\ cache' = cache
    BY <1>2 DEF RemoveStale
  <2>3. /\ \A o \in DOMAIN cache' : o \in DOMAIN cache /\ cache'[o] = cache[o]
        /\ \A o \in DOMAIN temp' : o \in DOMAIN temp /\ temp'[o] = temp[o]
    BY <2>2 DEF Without
  <2>4. UNCHANGED <<sc, version, lock, zips, thread, crashed>> BY <1>2 DEF RemoveStale, slots
  <2> QED BY <2>1, <2>3, <2>4, FilesKeep
<1>3. ASSUME NEW o, NEW scope, ClearOrQuota(o, scope) PROVE Inv'
  <2>1. /\ cache' = Without(cache, o) /\ temp' = temp /\ stale' \subseteq stale
        /\ UNCHANGED <<sc, version, lock, zips, thread, crashed>>
    BY <1>3 DEF ClearOrQuota, TempSpared, slots
  <2>2. \A p \in DOMAIN cache' : p \in DOMAIN cache /\ cache'[p] = cache[p]
    BY <2>1 DEF Without
  <2> QED BY <2>1, <2>2, FilesKeep
<1> QED BY <1>1, <1>2, <1>3

\* After a crash no thread goes on and no key is held.
LEMMA RestartKeeps ==
  ASSUME Inv, Restart
  PROVE  Inv'
<1>1. /\ Typed /\ thread \in [Threads -> Thread] /\ zips \subseteq Jobs \X Nat \X BOOLEAN
      /\ crashed' = TRUE /\ zips' \in {zips, {}}
      /\ UNCHANGED <<sc, version, cache, temp, stale>>
  BY DEF Inv, Typed, Restart, files
<1>2. thread' = [t \in Threads |-> [thread[t] EXCEPT !.pc = "rest", !.owner = "none",
                                                     !.status = Booted(@)]]
  BY DEF Restart
<1>3. ASSUME NEW t \in Threads
      PROVE  /\ thread'[t] \in Thread /\ thread'[t].pc = "rest" /\ thread'[t].owner = "none"
             /\ thread'[t].status = Booted(thread[t].status) /\ thread'[t].src = thread[t].src
             /\ thread'[t].run = thread[t].run /\ thread'[t].art = thread[t].art
             /\ thread'[t].results = thread[t].results
  <2>1. PICK st : st = Booted(thread[t].status) OBVIOUS
  <2>2. thread[t] \in Thread BY <1>1
  <2>3. st \in {"none", "queued", "paused", "canceled", "failed", "done"}
    BY <2>1, <2>2 DEF Booted, Thread
  <2>4. PICK e : e = [thread[t] EXCEPT !.pc = "rest", !.owner = "none", !.status = st] OBVIOUS
  <2>5. [thread[t] EXCEPT !.pc = "rest"] \in Thread BY <2>2 DEF Thread
  <2>6. [thread[t] EXCEPT !.pc = "rest", !.owner = "none"] \in Thread BY <2>5 DEF Thread
  <2>7. e \in Thread BY <2>3, <2>4, <2>6, ZenonT(60) DEF Thread
  <2>8. thread'[t] = e BY <1>2, <2>1, <2>2, <2>4 DEF Thread
  <2> QED BY <2>1, <2>2, <2>4, <2>7, <2>8 DEF Thread
<1>4. thread' \in [Threads -> Thread] BY <1>2, <1>3
<1>5. Placed'
  <2> SUFFICES ASSUME NEW t \in Threads PROVE PlaceFits(t)' BY DEF Placed
  <2>1. PlaceFits(t) /\ thread[t] \in Thread BY <1>1 DEF Inv, Placed
  <2>2. PICK st : st = thread[t].status OBVIOUS
  <2>3. /\ Booted(st) \notin {"running", "pausing", "canceling"}
        /\ Booted(st) # "none" <=> st # "none"
    BY <2>1, <2>2 DEF Booted, Thread
  <2>4. sc' = sc BY <1>1
  <2> QED BY <1>3, <2>1, <2>2, <2>3, <2>4 DEF PlaceFits, Making, Zipping, Pooling
<1>6. Looked' BY <1>3, StillFits DEF Looked, Making
<1>7. Locked' BY <1>3 DEF Locked, Keyed
<1>8. TempTrue' BY <1>3 DEF TempTrue
<1>9. CacheTrue' BY <1>1, CacheStays
<1>10. TempOwned'
  <2>1. TempOwned BY DEF Inv
  <2> QED BY <1>1, <2>1 DEF TempOwned
<1>11. ZipsFit'
  <2>1. ZipsFit /\ \A j \in Jobs : j \in Threads BY DEF Inv, Threads
  <2>2. zips' \subseteq zips /\ \A z \in zips : z[1] \in Jobs BY <1>1
  <2>3. \A z \in zips' : z[2] <= thread'[z[1]].run BY <1>3, <2>1, <2>2 DEF ZipsFit
  <2>4. ASSUME NEW j \in Jobs, sc.kind[j] = "zip", thread'[j].art # <<>>
        PROVE  \E r \in Nat : /\ thread'[j].art = <<j, r>> /\ <<j, r, FALSE>> \notin zips'
                              /\ r <= thread'[j].run
                              /\ thread'[j].pc \in Zipping => r < thread'[j].run
    <3>1. PICK r \in Nat : /\ thread[j].art = <<j, r>> /\ <<j, r, FALSE>> \notin zips
                           /\ r <= thread[j].run
      BY <1>3, <2>1, <2>4, ZenonT(60) DEF ZipsFit
    <3>2. thread'[j].pc \notin Zipping BY <1>3, <2>1 DEF Zipping
    <3> QED BY <1>3, <2>1, <2>2, <3>1, <3>2
  <2> QED BY <1>1, <2>3, <2>4 DEF ZipsFit
<1>12. BatchFits'
  <2>1. /\ \A w \in Workers : w \in Threads /\ thread'[w].owner = "none"
        /\ \A j \in Jobs : j \in Threads
    BY <1>3 DEF Threads
  <2>2. OwnersFit' /\ OwnersApart' BY <2>1 DEF OwnersFit, OwnersApart
  <2>3. ASSUME NEW j \in Jobs, NEW s \in Sources PROVE ResultsFit(j, s)'
    <3>1. ResultsFit(j, s) /\ PlaceFits(j) BY <2>1 DEF Inv, BatchFits, Placed
    <3>2. thread'[j].pc \notin Pooling /\ thread'[j].pc # "fill" BY <1>3, <2>1 DEF Pooling
    <3>3. ASSUME thread'[j].status = "done"
          PROVE  thread[j].status = "done" /\ thread[j].pc = "rest"
      <4>1. thread[j].status = "done"
        <5>1. PICK st : st = thread[j].status OBVIOUS
        <5>2. Booted(st) = "done" BY <1>3, <2>1, <3>3, <5>1
        <5> QED BY <5>1, <5>2 DEF Booted
      <4> QED BY <3>1, <4>1 DEF PlaceFits
    <3> QED BY <1>1, <1>3, <2>1, <3>1, <3>2, <3>3 DEF ResultsFit
  <2> QED BY <2>2, <2>3 DEF BatchFits
<1>13. Typed' BY <1>1, <1>4 DEF Typed
<1> QED BY <1>5, <1>6, <1>7, <1>8, <1>9, <1>10, <1>11, <1>12, <1>13 DEF Inv

-----------------------------------------------------------------------------
(* The theorems.                                                           *)

\* The invariant holds at first.
LEMMA InitInv == Init => Inv
<1> SUFFICES ASSUME Init PROVE Inv OBVIOUS
<1>1. /\ sc \in Scenarios /\ version = [s \in Sources |-> IF s \in sc.sources THEN 1 ELSE 0]
      /\ cache = Empty /\ temp = Empty /\ stale = {} /\ zips = {} /\ lock = Empty
      /\ thread = [t \in Threads |-> Idle] /\ crashed = FALSE
  BY DEF Init
<1>2. Idle \in Thread /\ Idle.owner = "none" /\ Idle.art = <<>> /\ Idle.pc = "rest"
      /\ Idle.status = "none"
  BY IdleTyped
<1>3. thread \in [Threads -> Thread] BY <1>1, <1>2
<1>4. \A t \in Threads : thread[t] = Idle BY <1>1
<1>5. \A o : o \notin DOMAIN cache /\ o \notin DOMAIN temp BY <1>1 DEF Empty
<1>6. Typed BY <1>1, <1>3, <1>5 DEF Typed
<1>7. Placed BY <1>2, <1>4 DEF Placed, PlaceFits, Making, Zipping, Pooling
<1>8. Looked BY <1>2, <1>4 DEF Looked, LooksFit, Making, Keyed, Writing
<1>9. Locked BY <1>2, <1>4 DEF Locked, Keyed
<1>10. TempTrue /\ CacheTrue BY <1>2, <1>4, <1>5 DEF TempTrue, CacheTrue
<1>11. TempOwned BY <1>1, <1>2, <1>4, <1>5 DEF TempOwned, Writing
<1>12. ZipsFit
  <2>1. \A j \in Jobs : thread[j].art = <<>> BY <1>2, <1>4 DEF Threads
  <2> QED BY <1>1, <2>1 DEF ZipsFit
<1>13. BatchFits
  <2>1. /\ \A w \in Workers : thread[w].owner = "none"
        /\ \A j \in Jobs : thread[j].pc = "rest" /\ thread[j].status = "none"
    BY <1>2, <1>4 DEF Threads
  <2> QED BY <2>1 DEF BatchFits, OwnersFit, OwnersApart, ResultsFit, Pooling
<1> QED BY <1>6, <1>7, <1>8, <1>9, <1>10, <1>11, <1>12, <1>13 DEF Inv

\* Every step keeps the invariant, where posters are made apart.
LEMMA NextInv == Inv /\ PostersApart /\ [Next]_vars => Inv'
<1> SUFFICES ASSUME Inv, PostersApart, [Next]_vars PROVE Inv' OBVIOUS
<1>1. CASE UNCHANGED vars
  <2>1. /\ UNCHANGED <<sc, version, lock, zips, thread, crashed>>
        /\ cache' = cache /\ temp' = temp /\ stale' \subseteq stale
    BY <1>1 DEF vars
  <2> QED BY <2>1, FilesKeep
<1>2. CASE Restart BY <1>2, RestartKeeps
<1> QED BY <1>1, <1>2, MakeKeeps, JobsKeep, RequestKeeps, SourceKeeps, CleanKeeps DEF Next

\* The invariant always holds, where posters are always made apart.
LEMMA InvHolds == Spec /\ []PostersApart => []Inv
<1>1. Init => Inv BY InitInv
<1>2. Inv /\ PostersApart /\ [Next]_vars => Inv' BY NextInv
<1> QED BY <1>1, <1>2, PTL DEF Spec

\* What is served for a source is whole and made of the source as it is,
\* however it changes meanwhile, and the file of a done job is whole.
THEOREM OffersAreTrue == Spec /\ []PostersApart => []OfferedIsTrue
<1>1. Inv => OfferedIsTrue
  <2> SUFFICES ASSUME Inv PROVE OfferedIsTrue OBVIOUS
  <2>1. Typed /\ CacheTrue /\ ZipsFit BY DEF Inv
  <2>2. ASSUME NEW kind \in {"play", "poster", "thumb"}, NEW s \in Sources, Ready(kind, s)
        PROVE  Served(kind, s) = [from |-> version[s], whole |-> TRUE]
    <3>1. PICK v, e : v = version[s] /\ e = cache[Key(kind, s, v)] OBVIOUS
    <3>2. v \in Nat /\ Key(kind, s, v) \in DOMAIN cache
      BY <2>1, <2>2, <3>1 DEF Ready, Has, Typed
    <3>3. e \in Output /\ e.whole /\ e.from = v BY <2>1, <3>1, <3>2 DEF CacheTrue, Typed
    <3>4. e = [from |-> v, whole |-> TRUE] BY <3>3 DEF Output
    <3> QED BY <3>1, <3>4 DEF Served
  <2>3. ASSUME NEW j \in Jobs, NEW a \in Artifact(j)
        PROVE  IF sc.kind[j] = "zip" THEN a[3] ELSE cache[a].whole
    <3>1. thread[j].art # <<>> BY <2>3 DEF Artifact
    <3>2. CASE sc.kind[j] = "zip"
      <4>1. a \in zips /\ <<a[1], a[2]>> = thread[j].art BY <2>3, <3>1, <3>2 DEF Artifact
      <4>2. PICK r \in Nat : thread[j].art = <<j, r>> /\ <<j, r, FALSE>> \notin zips
        BY <2>1, <3>1, <3>2 DEF ZipsFit
      <4>3. PICK x \in Jobs, y \in Nat, z \in BOOLEAN : a = <<x, y, z>>
        BY <2>1, <4>1 DEF Typed
      <4>4. a[1] = x /\ a[2] = y /\ a[3] = z BY <4>3
      <4>5. <<x, y>> = <<j, r>> BY <4>1, <4>2, <4>4
      <4>6. x = j /\ y = r BY <4>5
      <4> QED BY <3>2, <4>1, <4>2, <4>3, <4>4, <4>6
    <3>3. CASE sc.kind[j] # "zip"
      <4>1. a \in DOMAIN cache BY <2>3, <3>1, <3>3 DEF Artifact, Has
      <4> QED BY <2>1, <3>3, <4>1 DEF CacheTrue
    <3> QED BY <3>2, <3>3
  <2> QED BY <2>2, <2>3 DEF OfferedIsTrue, ServedIsCurrent, DoneIsWhole
<1> QED BY <1>1, InvHolds, PTL

\* What was begun has someone who will end it, until a crash: no failure,
\* timeout, stop or pause leaves a temporary file, an incomplete archive or
\* a worker of a batch that is over.
THEOREM OwnersAreThere == Spec /\ []PostersApart => []BegunHasOwner
<1>1. Inv => BegunHasOwner
  <2> SUFFICES ASSUME Inv PROVE BegunHasOwner OBVIOUS
  <2>1. TempHasWriter BY DEF Inv, TempOwned, TempTrue, TempHasWriter, Writing
  <2>2. PartialHasWriter BY DEF Inv, ZipsFit, PartialHasWriter
  <2>3. BatchIsOver
    <3> SUFFICES ASSUME NEW j \in Jobs, sc.kind[j] = "fill", thread[j].pc = "rest"
                 PROVE  /\ \A w \in Workers : thread[w].owner # j
                        /\ thread[j].status = "done" => \A s \in Sources :
                             thread[j].results[s] \in {"none", "generated", "skipped", "failed"}
      BY DEF BatchIsOver
    <3>1. j # "none" BY ThreadAssumption
    <3>2. ASSUME NEW w \in Workers, thread[w].owner = j PROVE FALSE
      BY <3>1, <3>2, OwnerIs DEF Pooling
    <3>3. \A s \in Sources : ResultsFit(j, s) BY DEF Inv, BatchFits
    <3> QED BY <3>2, <3>3 DEF ResultsFit
  <2> QED BY <2>1, <2>2, <2>3 DEF BegunHasOwner
<1> QED BY <1>1, InvHolds, PTL

=============================================================================
