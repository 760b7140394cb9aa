---------------------------- MODULE Subscriptions ----------------------------
(***************************************************************************)
(* YouTube subscriptions of HugCivi (app/subscriptions.py over two tables  *)
(* of app/db.py): one thread checks the sources that are due, one thread   *)
(* downloads the items that are ready, and HTTP requests check a source by *)
(* hand, change it, and queue, skip and retry items.                       *)
(*                                                                         *)
(* A database call is one step.  A check and a download act on the row they*)
(* read before a network call of minutes.  A time in a row is abstracted   *)
(* to whether it is NULL, past or future.  The wake events of the threads  *)
(* only shorten waits that time out anyway and are left out.               *)
(***************************************************************************)
EXTENDS Integers, FiniteSets

CONSTANTS
  Subs,          \* subscriptions that may be created
  Videos,        \* numbers, in the order in which a listing has them, last first
  SourceOf,      \* the subscription that lists a video
  Older,         \* videos published before their subscription was created
  Recent,        \* videos listed with a date after its creation
  LatestN,       \* initial_limit
  InitialPolicies, \* bound: the policies users choose
  ChecksEnabled, DownloadsEnabled,  \* SUBSCRIPTION_..._SCHEDULER_ENABLED
  MaxAttempts,   \* SUBSCRIPTION_DOWNLOAD_MAX_ATTEMPTS
  Clients,       \* concurrent HTTP requests
  MaxRequests,   \* bound on the requests of users
  Operations     \* bound: what users and the host do

Policies == {"from_now", "latest_n", "full_backfill"}

ASSUME VideosAssumption == /\ Videos \subseteq Nat /\ IsFiniteSet(Videos)
                           /\ Older \subseteq Videos
                           /\ Recent \subseteq Videos \ Older
                           /\ SourceOf \in [Videos -> Subs]
ASSUME LimitsAssumption == /\ MaxAttempts \in Nat \ {0} /\ MaxRequests \in Nat
                           /\ LatestN \in Nat /\ InitialPolicies \subseteq Policies
                           /\ ChecksEnabled \in BOOLEAN /\ DownloadsEnabled \in BOOLEAN
                           /\ "scheduler" \notin Clients
ASSUME OperationsAssumption ==
  Operations \subseteq {"create", "enable", "auto", "remove", "check", "queue", "skip",
                        "retry", "stop", "crash"}

VARIABLES
  sub,         \* the subscriptions table
  item,        \* the subscription_items table
  published,   \* the videos the site lists at this moment
  active,      \* _active_check_ids
  checker,     \* checks under way: the scheduler thread's and the requests'
  worker,      \* the download thread
  lost,        \* items the download thread has left by an exception (not in the code)
  request,     \* requests about an item
  phase,       \* of the process
  asked        \* requests made so far

vars == <<sub, item, published, active, checker, worker, lost, request, phase, asked>>

CheckStatuses == {"idle", "due", "checking", "backoff", "paused"}
ItemStatuses == {"known", "eligible", "queued", "downloading", "done", "skipped", "failed"}
Times == {"null", "past", "future"}
Chosen == {"new_after_first_check", "full_backfill", "latest_n", "from_now"}
Reasons == Chosen \cup {"outside_latest_n", "older_than_cutoff", "manual"}

NoSub == [state |-> "none", policy |-> "from_now", enabled |-> FALSE, auto |-> FALSE,
          check |-> "idle", first |-> FALSE, next |-> "null"]
NoItem == [status |-> "none", reason |-> "manual", attempts |-> 0, next |-> "null"]
Nobody == [pc |-> "idle", sub |-> "none", enabled |-> FALSE, first |-> FALSE,
           todo |-> {}, index |-> 0]
Resting == [pc |-> "idle", video |-> 0, attempts |-> 0]
NoRequest == [pc |-> "idle", video |-> 0, reset |-> FALSE]

Scheduler == "scheduler"
Checkers == Clients \cup {Scheduler}

Live(s) == sub[s].state = "live"

Newest(V) == CHOOSE v \in V : \A w \in V : w <= v

-----------------------------------------------------------------------------
(* Helpers.                                                                *)

\* UPDATE subscriptions ... WHERE id = ? does nothing when the row is gone.
UpdateSub(s, row) == sub' = IF Live(s) THEN [sub EXCEPT ![s] = row] ELSE sub

\* UPDATE subscription_items.  The row somebody read is gone when its
\* subscription is: a row inserted since then has another id.
UpdateItem(v, row) ==
  item' = IF Live(SourceOf[v]) /\ item[v].status # "none" THEN [item EXCEPT ![v] = row] ELSE item

\* Mutant of Due: a failed check is not repeated.
DueUnlessFailed(s) ==
  /\ Live(s) /\ sub[s].enabled
  /\ sub[s].check \in {"idle", "due"}
  /\ sub[s].next # "future"

\* list_due_subscriptions.
Due(s) == /\ Live(s) /\ sub[s].enabled
          /\ sub[s].check \in {"idle", "due", "backoff"}
          /\ sub[s].next # "future"

\* Mutant of Ready: a NULL time is not in the past.
ReadyWhenTimed(v) == /\ Live(SourceOf[v]) /\ sub[SourceOf[v]].enabled /\ sub[SourceOf[v]].auto
                     /\ item[v].status \in {"eligible", "queued"}
                     /\ item[v].attempts < MaxAttempts
                     /\ item[v].next = "past"

\* list_ready_subscription_items.
Ready(v) == /\ Live(SourceOf[v]) /\ sub[SourceOf[v]].enabled /\ sub[SourceOf[v]].auto
            /\ item[v].status \in {"eligible", "queued"}
            /\ item[v].attempts < MaxAttempts
            /\ item[v].next # "future"

\* Queued items first, then the oldest.
Before(v, w) == \/ item[v].status = "queued" /\ item[w].status # "queued"
                \/ item[v].status = item[w].status /\ v <= w

\* item_policy: the status and the reason of a video listed at an index.
ItemPolicy(s, first, v, index) ==
  CASE first -> <<"eligible", "new_after_first_check">>
    [] ~first /\ sub[s].policy = "full_backfill" -> <<"eligible", "full_backfill">>
    [] ~first /\ sub[s].policy = "latest_n" ->
         IF index < LatestN THEN <<"eligible", "latest_n">> ELSE <<"known", "outside_latest_n">>
    [] ~first /\ sub[s].policy = "from_now" ->
         IF v \in Recent THEN <<"eligible", "from_now">> ELSE <<"known", "older_than_cutoff">>

-----------------------------------------------------------------------------
Init == /\ sub = [s \in Subs |-> NoSub]
        /\ item = [v \in Videos |-> NoItem]
        /\ published = Older
        /\ active = {}
        /\ checker = [a \in Checkers |-> Nobody]
        /\ worker = Resting
        /\ lost = {}
        /\ request = [c \in Clients |-> NoRequest]
        /\ phase = "down"
        /\ asked = 0

\* What each kind of step leaves alone.
CheckKeeps == UNCHANGED <<published, worker, lost, request, phase, asked>>
WorkerKeeps == UNCHANGED <<sub, published, active, checker, lost, request, phase, asked>>

-----------------------------------------------------------------------------
(* The process and its surroundings.                                       *)

\* Mutant of RecoverChecks: interrupted checks are left as they are.
RecoverNoChecks ==
  /\ phase = "down"
  /\ phase' = "starting"
  /\ UNCHANGED <<sub, item, published, active, checker, worker, lost, request, asked>>

\* start_workers: interrupted checks become due, the scheduler thread starts.
RecoverChecks ==
  /\ phase = "down"
  /\ phase' = "starting"
  /\ sub' = [s \in Subs |-> IF ChecksEnabled /\ Live(s) /\ sub[s].check = "checking"
                            THEN [sub[s] EXCEPT !.check = "due", !.next = "past"] ELSE sub[s]]
  /\ UNCHANGED <<item, published, active, checker, worker, lost, request, asked>>

\* Interrupted downloads are queued again, the download thread starts.
RecoverDownloads ==
  /\ phase = "starting"
  /\ phase' = "up"
  /\ item' = [v \in Videos |-> IF DownloadsEnabled /\ item[v].status = "downloading"
                               THEN [item[v] EXCEPT !.status = "queued", !.next = "past"]
                               ELSE item[v]]
  /\ lost' = {}
  /\ UNCHANGED <<sub, published, active, checker, worker, request, asked>>

RequestStop ==
  /\ "stop" \in Operations
  /\ phase = "up"
  /\ phase' = "stopping"
  /\ UNCHANGED <<sub, item, published, active, checker, worker, lost, request, asked>>

Crash ==
  /\ "crash" \in Operations \/ phase = "stopping"
  /\ phase # "down"
  /\ phase' = "down"
  /\ active' = {}
  /\ checker' = [a \in Checkers |-> Nobody]
  /\ worker' = Resting
  /\ request' = [c \in Clients |-> NoRequest]
  /\ UNCHANGED <<sub, item, published, lost, asked>>

\* A video appears on the site after somebody has subscribed to it.
Publish(v) ==
  /\ v \in Videos \ published
  /\ sub[SourceOf[v]].state # "none"
  /\ published' = published \cup {v}
  /\ UNCHANGED <<sub, item, active, checker, worker, lost, request, phase, asked>>

\* A future time of a row comes.
CheckTimeComes(s) ==
  /\ sub[s].next = "future"
  /\ sub' = [sub EXCEPT ![s].next = "past"]
  /\ UNCHANGED <<item, published, active, checker, worker, lost, request, phase, asked>>

AttemptTimeComes(v) ==
  /\ item[v].next = "future"
  /\ item' = [item EXCEPT ![v].next = "past"]
  /\ UNCHANGED <<sub, published, active, checker, worker, lost, request, phase, asked>>

TimePasses == \/ \E s \in Subs : CheckTimeComes(s)
              \/ \E v \in Videos : AttemptTimeComes(v)

-----------------------------------------------------------------------------
(* Checks: check_subscription_now, by the scheduler thread or a request.   *)

At(a, pc) == checker' = [checker EXCEPT ![a].pc = pc]

\* run_due_subscription_checks lists one subscription that is due.
SchedulerPicks(s) ==
  /\ ChecksEnabled /\ phase \in {"starting", "up"}
  /\ checker[Scheduler].pc = "idle"
  /\ Due(s)
  /\ checker' = [checker EXCEPT ![Scheduler] = [Nobody EXCEPT !.pc = "enter", !.sub = s]]
  /\ UNCHANGED <<sub, item, active>>
  /\ CheckKeeps

\* The stop event is looked at before the list and before the check.
SchedulerExits ==
  /\ phase = "stopping"
  /\ checker[Scheduler].pc \in {"idle", "enter"}
  /\ checker' = [checker EXCEPT ![Scheduler] = [Nobody EXCEPT !.pc = "exited"]]
  /\ UNCHANGED <<sub, item, active>>
  /\ CheckKeeps

\* One check of a subscription at a time.
CheckEnter(a) ==
  /\ checker[a].pc = "enter"
  /\ \/ /\ checker[a].sub \in active
        /\ checker' = [checker EXCEPT ![a] = Nobody]
        /\ UNCHANGED active
     \/ /\ checker[a].sub \notin active
        /\ active' = active \cup {checker[a].sub}
        /\ At(a, "read")
  /\ UNCHANGED <<sub, item>>
  /\ CheckKeeps

\* Mutant of CheckRead: a check that is not needed returns without cleaning up.
CheckReadReturns(a) ==
  LET row == sub[checker[a].sub]
  IN  /\ checker[a].pc = "read"
      /\ IF row.state # "live" \/ (a = Scheduler /\ ~row.enabled)
         THEN checker' = [checker EXCEPT ![a] = Nobody]
         ELSE checker' = [checker EXCEPT ![a] = [@ EXCEPT !.pc = "mark", !.first = row.first,
                                                          !.enabled = row.enabled]]
      /\ UNCHANGED <<sub, item, active>>
      /\ CheckKeeps

\* The row as it is now decides how the check will end.
CheckRead(a) ==
  LET row == sub[checker[a].sub]
  IN  /\ checker[a].pc = "read"
      /\ IF row.state # "live" \/ (a = Scheduler /\ ~row.enabled)
         THEN At(a, "leave")
         ELSE checker' = [checker EXCEPT ![a] = [@ EXCEPT !.pc = "mark", !.first = row.first,
                                                          !.enabled = row.enabled]]
      /\ UNCHANGED <<sub, item, active>>
      /\ CheckKeeps

\* Mutant of CheckMark: the first check counts as soon as it begins.
CheckMarksFirst(a) ==
  /\ checker[a].pc = "mark"
  /\ UpdateSub(checker[a].sub, [sub[checker[a].sub] EXCEPT !.check = "checking", !.first = TRUE])
  /\ At(a, "discover")
  /\ UNCHANGED <<item, active>>
  /\ CheckKeeps

CheckMark(a) ==
  /\ checker[a].pc = "mark"
  /\ UpdateSub(checker[a].sub, [sub[checker[a].sub] EXCEPT !.check = "checking"])
  /\ At(a, "discover")
  /\ UNCHANGED <<item, active>>
  /\ CheckKeeps

\* yt-dlp lists everything there is, fails or times out.
Discover(a) ==
  /\ checker[a].pc = "discover"
  /\ \/ At(a, "fail")
     \/ checker' = [checker EXCEPT ![a] = [@ EXCEPT !.pc = "store",
                      !.todo = {v \in published : SourceOf[v] = checker[a].sub}]]
  /\ UNCHANGED <<sub, item, active>>
  /\ CheckKeeps

\* One upsert of store_discovered_items: a known row keeps its status.  It is
\* inserted also when the subscription has been deleted meanwhile.
StoreItem(a) ==
  LET v == Newest(checker[a].todo)
      policy == ItemPolicy(checker[a].sub, checker[a].first, v, checker[a].index)
  IN  /\ checker[a].pc = "store"
      /\ checker[a].todo # {}
      /\ item' = [item EXCEPT ![v] = IF @.status = "none"
                                     THEN [status |-> policy[1], reason |-> policy[2],
                                           attempts |-> 0, next |-> "null"]
                                     ELSE @]
      /\ checker' = [checker EXCEPT
                        ![a] = [checker[a] EXCEPT !.todo = checker[a].todo \ {v},
                                                  !.index = checker[a].index + 1]]
      /\ UNCHANGED <<sub, active>>
      /\ CheckKeeps

CheckSucceeds(a) ==
  LET s == checker[a].sub
  IN  /\ checker[a].pc = "store"
      /\ checker[a].todo = {}
      /\ UpdateSub(s, [sub[s] EXCEPT !.first = TRUE,
                         !.check = IF checker[a].enabled THEN "idle" ELSE "paused",
                         !.next = IF checker[a].enabled THEN "future" ELSE "null"])
      /\ At(a, "leave")
      /\ UNCHANGED <<item, active>>
      /\ CheckKeeps

CheckFails(a) ==
  LET s == checker[a].sub
  IN  /\ checker[a].pc = "fail"
      /\ UpdateSub(s, [sub[s] EXCEPT
                         !.check = IF checker[a].enabled THEN "backoff" ELSE "paused",
                         !.next = IF checker[a].enabled THEN "future" ELSE "null"])
      /\ At(a, "leave")
      /\ UNCHANGED <<item, active>>
      /\ CheckKeeps

CheckLeave(a) ==
  /\ checker[a].pc = "leave"
  /\ active' = active \ {checker[a].sub}
  /\ checker' = [checker EXCEPT ![a] = Nobody]
  /\ UNCHANGED <<sub, item>>
  /\ CheckKeeps

CheckStep(a) == \/ CheckEnter(a) \/ CheckRead(a) \/ CheckMark(a) \/ Discover(a)
                \/ StoreItem(a) \/ CheckSucceeds(a) \/ CheckFails(a) \/ CheckLeave(a)

-----------------------------------------------------------------------------
(* Downloads: run_ready_subscription_downloads, one at a time.             *)

\* list_ready_subscription_items lists one item.
WorkerPicks(v) ==
  /\ DownloadsEnabled /\ phase = "up"
  /\ worker.pc = "idle"
  /\ Ready(v)
  /\ \A w \in Videos : Ready(w) => Before(v, w)
  /\ worker' = [pc |-> "begin", video |-> v, attempts |-> item[v].attempts]
  /\ UNCHANGED item
  /\ WorkerKeeps

WorkerExits ==
  /\ phase = "stopping"
  /\ worker.pc \in {"idle", "begin"}
  /\ worker' = [Resting EXCEPT !.pc = "exited"]
  /\ UNCHANGED item
  /\ WorkerKeeps

\* The row is overwritten from what was listed, whatever it has become.
WorkerBegins ==
  /\ worker.pc = "begin"
  /\ UpdateItem(worker.video, [item[worker.video] EXCEPT !.status = "downloading",
                                 !.attempts = worker.attempts + 1, !.next = "null"])
  /\ worker' = [worker EXCEPT !.pc = "prepare"]
  /\ WorkerKeeps

\* The target folder and its metadata file.
WorkerPrepares ==
  /\ worker.pc = "prepare"
  /\ worker' = [worker EXCEPT !.pc = "work"]
  /\ UNCHANGED item
  /\ WorkerKeeps

\* An error there is raised outside of the try statement that would note it.
WorkerCannotPrepare ==
  /\ worker.pc = "prepare"
  /\ worker' = Resting
  /\ lost' = lost \cup {worker.video}
  /\ UNCHANGED <<sub, item, published, active, checker, request, phase, asked>>

\* yt-dlp has saved a file, has failed, or is ended by a stop.
DownloadEnds ==
  /\ worker.pc = "work"
  /\ \E pc \in {"done", "fail"} : worker' = [worker EXCEPT !.pc = pc]
  /\ UNCHANGED item
  /\ WorkerKeeps

WorkerDone ==
  /\ worker.pc = "done"
  /\ UpdateItem(worker.video, [item[worker.video] EXCEPT !.status = "done", !.next = "null"])
  /\ worker' = Resting
  /\ WorkerKeeps

\* Mutant of WorkerFails: only the time of the next attempt is written.
WorkerFailsSilently ==
  /\ worker.pc = "fail"
  /\ UpdateItem(worker.video, [item[worker.video] EXCEPT !.next = "future"])
  /\ worker' = Resting
  /\ WorkerKeeps

\* Another attempt later, unless this was the last one.
WorkerFails ==
  /\ worker.pc = "fail"
  /\ UpdateItem(worker.video,
       IF worker.attempts + 1 < MaxAttempts
       THEN [item[worker.video] EXCEPT !.status = "queued", !.next = "future"]
       ELSE [item[worker.video] EXCEPT !.status = "failed", !.next = "null"])
  /\ worker' = Resting
  /\ WorkerKeeps

WorkerStep == \/ \E v \in Videos : WorkerPicks(v)
              \/ WorkerExits \/ WorkerBegins \/ WorkerPrepares \/ WorkerCannotPrepare
              \/ DownloadEnds \/ WorkerDone \/ WorkerFails

-----------------------------------------------------------------------------
(* Requests.                                                               *)

Asks(op) == /\ op \in Operations
            /\ phase = "up"
            /\ asked < MaxRequests
            /\ asked' = asked + 1

Free(c) == request[c].pc = "idle" /\ checker[c].pc = "idle"

\* create_subscription, due at once unless it is created disabled.
Create(s) ==
  /\ Asks("create")
  /\ sub[s].state = "none"
  /\ \E on, auto \in BOOLEAN, policy \in InitialPolicies :
       sub' = [sub EXCEPT ![s] = [state |-> "live", policy |-> policy, enabled |-> on,
                                  auto |-> auto, check |-> IF on THEN "idle" ELSE "paused",
                                  first |-> FALSE, next |-> IF on THEN "past" ELSE "null"]]
  /\ UNCHANGED <<item, published, active, checker, worker, lost, request, phase>>

\* update_subscription with "enabled".
SetEnabled(s) ==
  /\ Asks("enable")
  /\ Live(s)
  /\ \E on \in BOOLEAN :
       UpdateSub(s, [sub[s] EXCEPT !.enabled = on, !.check = IF on THEN "idle" ELSE "paused",
                                   !.next = IF on THEN "past" ELSE "null"])
  /\ UNCHANGED <<item, published, active, checker, worker, lost, request, phase>>

\* update_subscription with "auto_queue".
SetAuto(s) ==
  /\ Asks("auto")
  /\ Live(s)
  /\ \E auto \in BOOLEAN : UpdateSub(s, [sub[s] EXCEPT !.auto = auto])
  /\ UNCHANGED <<item, published, active, checker, worker, lost, request, phase>>

\* One transaction deletes the subscription and its items; ids are not reused.
Remove(s) ==
  /\ Asks("remove")
  /\ Live(s)
  /\ sub' = [sub EXCEPT ![s] = [NoSub EXCEPT !.state = "gone", !.policy = sub[s].policy]]
  /\ item' = [v \in Videos |-> IF SourceOf[v] = s THEN NoItem ELSE item[v]]
  /\ UNCHANGED <<published, active, checker, worker, lost, request, phase>>

CheckRequest(c, s) ==
  /\ Asks("check")
  /\ Free(c)
  /\ Live(s)
  /\ checker' = [checker EXCEPT ![c] = [Nobody EXCEPT !.pc = "enter", !.sub = s]]
  /\ UNCHANGED <<sub, item, published, active, worker, lost, request, phase>>

ItemKeeps == UNCHANGED <<sub, published, active, checker, worker, lost, phase>>

Goes(c, pc, v, reset) == request' = [request EXCEPT ![c] = [pc |-> pc, video |-> v, reset |-> reset]]

Held == {"done", "downloading"}

\* queue_subscription_item reads the row, then writes it.
QueueRequest(c, v) ==
  /\ Asks("queue")
  /\ Free(c)
  /\ Live(SourceOf[v]) /\ item[v].status \notin Held \cup {"none"}
  /\ Goes(c, "queue", v, FALSE)
  /\ UNCHANGED item
  /\ ItemKeeps

\* retry_subscription_item reads it once more, since it calls the former.
RetryRequest(c, v) ==
  /\ Asks("retry")
  /\ Free(c)
  /\ Live(SourceOf[v]) /\ item[v].status \in {"failed", "skipped"}
  /\ Goes(c, "retry", v, TRUE)
  /\ UNCHANGED item
  /\ ItemKeeps

RetryReads(c) ==
  LET v == request[c].video
  IN  /\ request[c].pc = "retry"
      /\ IF Live(SourceOf[v]) /\ item[v].status \notin Held \cup {"none"}
         THEN Goes(c, "queue", v, TRUE)
         ELSE request' = [request EXCEPT ![c] = NoRequest]
      /\ UNCHANGED <<item, asked>>
      /\ ItemKeeps

WriteQueued(c) ==
  LET v == request[c].video
  IN  /\ request[c].pc = "queue"
      /\ UpdateItem(v, [item[v] EXCEPT !.status = "queued", !.next = "past",
                                       !.attempts = IF request[c].reset THEN 0 ELSE @])
      /\ request' = [request EXCEPT ![c] = NoRequest]
      /\ UNCHANGED asked
      /\ ItemKeeps

SkipRequest(c, v) ==
  /\ Asks("skip")
  /\ Free(c)
  /\ Live(SourceOf[v]) /\ item[v].status \notin Held \cup {"none"}
  /\ Goes(c, "skip", v, FALSE)
  /\ UNCHANGED item
  /\ ItemKeeps

WriteSkipped(c) ==
  LET v == request[c].video
  IN  /\ request[c].pc = "skip"
      /\ UpdateItem(v, [item[v] EXCEPT !.status = "skipped", !.reason = "manual", !.next = "null"])
      /\ request' = [request EXCEPT ![c] = NoRequest]
      /\ UNCHANGED asked
      /\ ItemKeeps

NewRequest ==
  \/ \E s \in Subs : Create(s) \/ SetEnabled(s) \/ SetAuto(s) \/ Remove(s)
  \/ \E c \in Clients : \/ \E s \in Subs : CheckRequest(c, s)
                        \/ \E v \in Videos : \/ QueueRequest(c, v) \/ RetryRequest(c, v)
                                             \/ SkipRequest(c, v)

RequestStep(c) == RetryReads(c) \/ WriteQueued(c) \/ WriteSkipped(c)

-----------------------------------------------------------------------------
SchedulerStep == (\E s \in Subs : SchedulerPicks(s)) \/ SchedulerExits \/ CheckStep(Scheduler)

Next ==
  \/ RecoverChecks \/ RecoverDownloads \/ RequestStop \/ Crash
  \/ TimePasses
  \/ \E v \in Videos : Publish(v)
  \/ SchedulerStep
  \/ WorkerStep
  \/ NewRequest
  \/ \E c \in Clients : RequestStep(c) \/ CheckStep(c)

Spec == Init /\ [][Next]_vars

\* The two threads run, yt-dlp ends, times come, a request that has begun is
\* finished and a start is completed.  No request, crash or stop is promised.
Fairness ==
  /\ WF_vars(RecoverDownloads)
  /\ WF_vars(SchedulerStep)
  /\ WF_vars(WorkerStep)
  /\ \A s \in Subs : WF_vars(CheckTimeComes(s))
  /\ \A v \in Videos : WF_vars(AttemptTimeComes(v))
  /\ \A c \in Clients : WF_vars(RequestStep(c) \/ CheckStep(c))

FairSpec == Spec /\ Fairness

-----------------------------------------------------------------------------
(* Properties.                                                             *)

CheckPCs == {"idle", "enter", "read", "mark", "discover", "store", "fail", "leave", "exited"}
SubRow == [state : {"none", "live", "gone"}, policy : Policies, enabled : BOOLEAN,
           auto : BOOLEAN, check : CheckStatuses, first : BOOLEAN, next : Times]
ItemRow == [status : ItemStatuses \cup {"none"}, reason : Reasons,
            attempts : 0..MaxAttempts, next : Times]
CheckRow == [pc : CheckPCs, sub : Subs \cup {"none"}, enabled : BOOLEAN,
             first : BOOLEAN, todo : SUBSET Videos, index : Nat]
Request == [pc : {"idle", "queue", "retry", "skip"}, video : Videos \cup {0}, reset : BOOLEAN]

SubsTyped == sub \in [Subs -> SubRow] /\ published \in SUBSET Videos
ItemsTyped == item \in [Videos -> ItemRow] /\ lost \in SUBSET Videos
ChecksTyped ==
  /\ active \in SUBSET Subs
  /\ checker \in [Checkers -> CheckRow]
  /\ \A a \in Checkers : checker[a].pc \notin {"idle", "exited"} => checker[a].sub \in Subs
WorkerTyped ==
  /\ worker \in [pc : {"idle", "exited", "begin", "prepare", "work", "done", "fail"},
                 video : Videos \cup {0}, attempts : 0..(MaxAttempts - 1)]
  /\ worker.pc \notin {"idle", "exited"} => worker.video \in Videos
RequestsTyped ==
  /\ request \in [Clients -> Request]
  /\ \A c \in Clients : request[c].pc # "idle" => request[c].video \in Videos
  /\ asked \in 0..MaxRequests
  /\ phase \in {"down", "starting", "up", "stopping"}

\* Every variable stays in its domain: no item is ever given more attempts
\* than the limit, by the worker from a stale row or by a racing retry.
TypeOK == SubsTyped /\ ItemsTyped /\ ChecksTyped /\ WorkerTyped /\ RequestsTyped

\* The checks that have entered.
Inside == {a \in Checkers : checker[a].pc \notin {"idle", "enter", "exited"}}

\* The scheduler and the users never check one subscription twice at a time,
\* and a subscription is registered exactly while it is checked: one that
\* stayed registered would be refused every check until the next restart.
ChecksExclude ==
  /\ \A a, b \in Inside : checker[a].sub = checker[b].sub => a = b
  /\ active = {checker[a].sub : a \in Inside}

\* A subscription says "checking" only while a check of it is under way, and
\* an item says "downloading" only while the worker has it or has left it by an
\* exception, across crashes, restarts, deletions and requests, where the
\* thread that recovers the status at a start is enabled.
StatusHasOwner ==
  /\ \A s \in Subs : ChecksEnabled /\ Live(s) /\ sub[s].check = "checking" /\ phase # "down" =>
       \E a \in Inside : checker[a].sub = s
  /\ \A v \in Videos : DownloadsEnabled /\ item[v].status = "downloading" /\ phase \in {"up", "stopping"} =>
       worker.video = v \/ v \in lost

\* Of the videos that were there before the subscription, discovery chooses
\* none (from_now) or at most LatestN, however often the first check is
\* interrupted, fails, or is overtaken by new videos and by other requests.
PolicyKept ==
  \A s \in Subs :
    LET chosen == {v \in Older : SourceOf[v] = s /\ item[v].reason \in Chosen}
    IN  /\ Live(s) /\ sub[s].policy = "from_now" => chosen = {}
        /\ Live(s) /\ sub[s].policy = "latest_n" => Cardinality(chosen) <= LatestN

\* An enabled subscription is checked again and again, whether its checks
\* succeed, fail or are interrupted.  A check of a disabled subscription that is
\* enabled meanwhile ends by writing "paused"; from there nothing is promised.
ChecksRecur ==
  \A s \in Subs :
    LET checks == Live(s) /\ sub[s].enabled /\ sub[s].check # "paused" /\ phase = "up"
    IN  ChecksEnabled /\ checks ~> sub[s].check = "checking" \/ ~checks

\* An item with attempts left is taken by the worker, as long as its
\* subscription downloads at all, whatever failed before it.
ItemsDrain ==
  \A v \in Videos :
    LET waits == item[v].status \in {"eligible", "queued"} /\ item[v].attempts < MaxAttempts
        downloads == Live(SourceOf[v]) /\ sub[SourceOf[v]].enabled /\ sub[SourceOf[v]].auto
    IN  DownloadsEnabled /\ waits /\ downloads /\ phase = "up" ~> ~waits \/ ~downloads \/ phase # "up"

=============================================================================
