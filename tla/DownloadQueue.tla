--------------------------- MODULE DownloadQueue ---------------------------
(***************************************************************************)
(* The external-download queue of HugCivi: the scheduler thread, the       *)
(* job_runner threads, the stall watchdogs and the HTTP handlers that      *)
(* control jobs (app/downloader.py, app/main.py), over the jobs table of   *)
(* SQLite (app/db.py).                                                     *)
(*                                                                         *)
(* Granularity: db.py serialises every call with _DB_LOCK, so one call is  *)
(* one step.  _SCHEDULER_CONDITION is held by the scheduler for a whole    *)
(* scan of the pending list, which takes many steps, so every other        *)
(* critical section of that lock is an action guarded by LockFree.         *)
(***************************************************************************)
EXTENDS Integers, Sequences, FiniteSets, PendingList

CONSTANTS
  MaxJobs,         \* bound on the rows ever created (AUTOINCREMENT ids)
  InitialRows,     \* rows an earlier run of the program left in the table
  Providers,       \* provider buckets (provider_key_for_job)
  ProviderOf,      \* the bucket of each job
  BadPayload,      \* old rows whose payload no longer parses
  Runners,         \* thread slots, one per job_runner thread alive at once
  Clients,         \* concurrent HTTP requests
  GlobalCap,       \* hard limit on MAX_CONCURRENT_DOWNLOADS (12 by default)
  ProviderCap,     \* hard limit on QUEUE_PER_PROVIDER_LIMIT (4 by default)
  ResumeLimit,     \* rows enqueue_existing_jobs looks at (500 in the code)
  CooldownDraws,   \* {FALSE}: maximum cooldown 0; {TRUE}: minimum above 0
  WatchdogOn,      \* DOWNLOAD_STALL_TIMEOUT_SECONDS > 0
  Operations       \* bound: what users and the host do in this instance

Jobs == 1..MaxJobs
NoJob == 0
NoRow == "none"

ASSUME SizesAssumption == /\ MaxJobs \in Nat \ {0}
                          /\ InitialRows \in 0..MaxJobs
                          /\ ResumeLimit \in Nat
ASSUME ProvidersAssumption == /\ ProviderOf \in [Jobs -> Providers]
                              /\ BadPayload \subseteq 1..InitialRows
ASSUME ThreadsAssumption == IsFiniteSet(Runners)
ASSUME ConfigAssumption ==
  /\ CooldownDraws \subseteq BOOLEAN /\ CooldownDraws # {}
  /\ WatchdogOn \in BOOLEAN
  /\ Operations \subseteq {"add", "pause", "resume", "retry", "delete", "clear",
                          "settings", "stop", "crash"}
ASSUME CapsAssumption == GlobalCap \in Nat \ {0} /\ ProviderCap \in Nat \ {0}

\* What queue_global_limit and queue_per_provider_limit can return.
GlobalLimits == 1..GlobalCap
ProviderLimits == 1..ProviderCap

Statuses == {"queued", "running", "paused", "pausing", "canceling",
             "canceled", "deleting", "failed", "done"}
ActiveStatuses == {"queued", "running", "paused", "pausing", "canceling",
                   "deleting"}

VARIABLES
  status,     \* jobs.status of each row, NoRow when there is no such row
  nextId,     \* the next AUTOINCREMENT id
  limits,     \* the two queue limits in the settings table
  pending,    \* _PENDING_JOB_IDS
  active,     \* _ACTIVE_GLOBAL_JOBS
  activeIn,   \* _ACTIVE_PROVIDER_JOBS
  cooling,    \* is _PROVIDER_COOLDOWN_UNTIL in the future?
  sched,      \* where the scheduler thread is; "down" when no process runs
  scan,       \* locals of pick_next_schedulable_job_locked
  chosen,     \* the job the scheduler selected or rejects
  boot,       \* rows enqueue_existing_jobs still has to visit
  stopping,   \* _SCHEDULER_STOP_EVENT, and whether stop_workers has notified
  runner,     \* the job_runner threads
  verdicts,   \* watchdogs that judged a job stalled and have not written yet
  client      \* the HTTP requests in flight

vars == <<status, nextId, limits, pending, active, activeIn, cooling, sched,
          scan, chosen, boot, stopping, runner, verdicts, client>>
dbVars == <<status, nextId, limits>>
slotVars == <<active, activeIn, cooling>>
schedVars == <<sched, scan, chosen>>
threadVars == <<runner, verdicts>>

RunnerPCs == {"free", "start", "begin", "check", "work", "finalCheck",
              "finish", "stop", "except", "fail", "leave"}
Signals == {"none", "deleted", "paused", "canceled"}
ClientPCs == {"idle", "enqueue", "unpendToPause", "writePaused",
              "writePausing", "requeue", "writeDeleting", "unpendToDelete",
              "deleteRow", "saveProvider", "notify"}

FreeRunner == [pc |-> "free", job |-> NoJob, signal |-> "none", watchdog |-> "off"]
IdleClient == [pc |-> "idle", job |-> NoJob]
NoScan == [index |-> 1, limit |-> 0, cooling |-> {}]

Live == {r \in Runners : runner[r].pc # "free"}
LiveIn(p) == {r \in Live : ProviderOf[runner[r].job] = p}

-----------------------------------------------------------------------------
(* Helpers: the rows, the pending list, the slots, the condition variable. *)

\* UPDATE ... WHERE id = ? does nothing when the row is gone.
Update(j, s) == status' = [status EXCEPT ![j] = IF @ = NoRow THEN NoRow ELSE s]

DeleteRow(j) == status' = [status EXCEPT ![j] = NoRow]

Rows == {j \in Jobs : status[j] # NoRow}


\* The scheduler holds _SCHEDULER_CONDITION while it scans.
LockFree == sched \notin {"scan", "reject"}

\* notify_all reaches the scheduler only if it is in Condition.wait.
Notify == sched' = IF sched = "wait" THEN "ready" ELSE sched

Decrement(n) == IF n > 0 THEN n - 1 ELSE 0

ReleaseSlot(p) == /\ active' = Decrement(active)
                  /\ activeIn' = [activeIn EXCEPT ![p] = Decrement(@)]

ReserveSlot(p) == /\ active' = active + 1
                  /\ activeIn' = [activeIn EXCEPT ![p] = @ + 1]

\* Mutant of ControlSignal: the thread of a job being deleted runs on.
IgnoresDeleting(s) == CASE s = NoRow                       -> "deleted"
                        [] s \in {"pausing", "paused"}     -> "paused"
                        [] s \in {"canceling", "canceled"} -> "canceled"
                        [] OTHER                           -> "none"

\* What check_job_control raises for a status; "none" lets the job go on.
ControlSignal(s) == CASE s \in {NoRow, "deleting"}       -> "deleted"
                      [] s \in {"pausing", "paused"}     -> "paused"
                      [] s \in {"canceling", "canceled"} -> "canceled"
                      [] OTHER                           -> "none"

-----------------------------------------------------------------------------
Init == /\ status \in [Jobs -> Statuses \cup {NoRow}]
        /\ \A j \in Jobs : status[j] # NoRow => j <= InitialRows
        /\ nextId = InitialRows + 1
        /\ limits \in [global : GlobalLimits, provider : ProviderLimits]
        /\ pending = <<>>
        /\ active = 0
        /\ activeIn = [p \in Providers |-> 0]
        /\ cooling = [p \in Providers |-> FALSE]
        /\ sched = "down"
        /\ scan = NoScan
        /\ chosen = NoJob
        /\ boot = {}
        /\ stopping = "no"
        /\ runner = [r \in Runners |-> FreeRunner]
        /\ verdicts = {}
        /\ client = [c \in Clients |-> IdleClient]

-----------------------------------------------------------------------------
(* Process start: start_workers runs enqueue_existing_jobs before any      *)
(* request is served and before the scheduler thread exists.               *)

\* list_download_jobs_to_resume: the newest ResumeLimit rows.
Resumable == {j \in Rows : Cardinality({k \in Rows : k > j}) < ResumeLimit}

Restart ==
  /\ sched = "down"
  /\ sched' = "boot"
  /\ boot' = Resumable
  /\ UNCHANGED <<dbVars, pending, slotVars, scan, chosen, stopping, threadVars, client>>

\* Mutant of BootRow: a restart overlooks rows in "pausing".
BootRowSkipsPausing(j) ==
  /\ sched = "boot"
  /\ j \in boot
  /\ \A k \in boot : j <= k
  /\ boot' = boot \ {j}
  /\ \/ /\ status[j] = "deleting"
        /\ DeleteRow(j)
        /\ UNCHANGED pending
     \/ /\ status[j] = "canceling"
        /\ Update(j, "canceled")
        /\ UNCHANGED pending
     \/ /\ status[j] \in {"queued", "running"}
        /\ Update(j, "queued")
        /\ pending' = Enlisted(pending, j)
     \/ /\ status[j] \in {"pausing", "paused", "canceled", "failed", "done"}
        /\ UNCHANGED <<status, pending>>
  /\ UNCHANGED <<nextId, limits, slotVars, schedVars, stopping, threadVars, client>>

\* One iteration of enqueue_existing_jobs, oldest row first.
BootRow(j) ==
  /\ sched = "boot"
  /\ j \in boot
  /\ \A k \in boot : j <= k
  /\ boot' = boot \ {j}
  /\ \/ /\ status[j] = "deleting"
        /\ DeleteRow(j)
        /\ UNCHANGED pending
     \/ /\ status[j] = "canceling"
        /\ Update(j, "canceled")
        /\ UNCHANGED pending
     \/ /\ status[j] = "pausing"
        /\ Update(j, "paused")
        /\ UNCHANGED pending
     \/ /\ status[j] \in {"queued", "running"}
        /\ Update(j, "queued")
        /\ pending' = Enlisted(pending, j)
     \/ /\ status[j] \in {"paused", "canceled", "failed", "done"}
        /\ UNCHANGED <<status, pending>>
  /\ UNCHANGED <<nextId, limits, slotVars, schedVars, stopping, threadVars, client>>

BootDone ==
  /\ sched = "boot"
  /\ boot = {}
  /\ sched' = "ready"
  /\ UNCHANGED <<dbVars, pending, slotVars, scan, chosen, boot, stopping, threadVars, client>>

\* The process dies, or is ended after a stop: only SQLite survives.
Crash ==
  /\ "crash" \in Operations
  /\ sched # "down"
  /\ pending' = <<>>
  /\ active' = 0
  /\ activeIn' = [p \in Providers |-> 0]
  /\ cooling' = [p \in Providers |-> FALSE]
  /\ sched' = "down"
  /\ scan' = NoScan
  /\ chosen' = NoJob
  /\ boot' = {}
  /\ stopping' = "no"
  /\ runner' = [r \in Runners |-> FreeRunner]
  /\ verdicts' = {}
  /\ client' = [c \in Clients |-> IdleClient]
  /\ UNCHANGED dbVars

-----------------------------------------------------------------------------
(* Shutdown: stop_workers sets the event, then notifies under the lock. *)

RequestStop ==
  /\ "stop" \in Operations
  /\ sched \notin {"down", "boot"}
  /\ stopping = "no"
  /\ stopping' = "set"
  /\ UNCHANGED <<dbVars, pending, slotVars, schedVars, boot, threadVars, client>>

NotifyStop ==
  /\ stopping = "set"
  /\ LockFree
  /\ stopping' = "notified"
  /\ Notify
  /\ UNCHANGED <<dbVars, pending, slotVars, scan, chosen, boot, threadVars, client>>

-----------------------------------------------------------------------------
(* The scheduler thread: scheduler_loop around                             *)
(* pick_next_schedulable_job_locked.                                       *)

Stopping == stopping # "no"

\* The head of the loop, with the lock just acquired.
SchedulerQuits ==
  /\ sched = "ready"
  /\ Stopping
  /\ sched' = "exited"
  /\ UNCHANGED <<dbVars, pending, slotVars, scan, chosen, boot, stopping, threadVars, client>>

SchedulerFull ==
  /\ sched = "ready"
  /\ ~Stopping
  /\ active >= limits.global
  /\ sched' = "wait"
  /\ scan' = NoScan
  /\ UNCHANGED <<dbVars, pending, slotVars, chosen, boot, stopping, threadVars, client>>

\* Mutant of SchedulerScans: the scan starts before the first element.
SchedulerScansFromZero ==
  /\ sched = "ready"
  /\ ~Stopping
  /\ active < limits.global
  /\ sched' = "scan"
  /\ scan' = [index |-> 0, limit |-> limits.provider, cooling |-> {}]
  /\ UNCHANGED <<dbVars, pending, slotVars, chosen, boot, stopping, threadVars, client>>

SchedulerScans ==
  /\ sched = "ready"
  /\ ~Stopping
  /\ active < limits.global
  /\ sched' = "scan"
  /\ scan' = [index |-> 1, limit |-> limits.provider, cooling |-> {}]
  /\ UNCHANGED <<dbVars, pending, slotVars, chosen, boot, stopping, threadVars, client>>

\* The scan is at a pending job of bucket p whose row is as the queue expects.
At(j) == /\ sched = "scan"
         /\ scan.index <= Len(pending)
         /\ pending[scan.index] = j
Schedulable(j) == status[j] = "queued" /\ j \notin BadPayload
\* Mutant of HasRoom: the limit is exceeded by one.
HasRoomAtLimit(p) == activeIn[p] <= scan.limit

HasRoom(p) == activeIn[p] < scan.limit

\* The row is gone or no longer queued.
ScanDrop(j) ==
  /\ At(j)
  /\ status[j] # "queued"
  /\ pending' = DropAt(pending, scan.index)
  /\ UNCHANGED <<dbVars, slotVars, schedVars, boot, stopping, threadVars, client>>

\* The payload does not parse: drop the job, then mark it failed.
ScanReject(j) ==
  /\ At(j)
  /\ status[j] = "queued" /\ j \in BadPayload
  /\ pending' = DropAt(pending, scan.index)
  /\ chosen' = j
  /\ sched' = "reject"
  /\ UNCHANGED <<dbVars, slotVars, scan, boot, stopping, threadVars, client>>

WriteRejected ==
  /\ sched = "reject"
  /\ Update(chosen, "failed")
  /\ chosen' = NoJob
  /\ sched' = "scan"
  /\ UNCHANGED <<nextId, limits, pending, slotVars, scan, boot, stopping, threadVars, client>>

\* Mutant of ScanSkip: the first job that cannot start ends the scan.
ScanSkipsRest(j) ==
  /\ At(j)
  /\ Schedulable(j)
  /\ ~HasRoom(ProviderOf[j]) \/ cooling[ProviderOf[j]]
  /\ scan' = [scan EXCEPT !.index = Len(pending) + 1,
                          !.cooling = IF HasRoom(ProviderOf[j]) THEN {ProviderOf[j]} ELSE {}]
  /\ UNCHANGED <<dbVars, pending, slotVars, sched, chosen, boot, stopping, threadVars, client>>

ScanSkip(j) ==
  /\ At(j)
  /\ Schedulable(j)
  /\ \/ /\ ~HasRoom(ProviderOf[j])
        /\ scan' = [scan EXCEPT !.index = @ + 1]
     \/ /\ HasRoom(ProviderOf[j])
        /\ cooling[ProviderOf[j]]
        /\ scan' = [scan EXCEPT !.index = @ + 1,
                                !.cooling = @ \cup {ProviderOf[j]}]
  /\ UNCHANGED <<dbVars, pending, slotVars, sched, chosen, boot, stopping, threadVars, client>>

\* Selected; unless a stop arrived, reserve the slot and release the lock.
ScanSelect(j) ==
  /\ At(j)
  /\ Schedulable(j)
  /\ HasRoom(ProviderOf[j])
  /\ ~cooling[ProviderOf[j]]
  /\ pending' = DropAt(pending, scan.index)
  /\ scan' = NoScan
  /\ \/ /\ Stopping
        /\ sched' = "exited"
        /\ UNCHANGED <<active, activeIn, chosen>>
     \/ /\ ~Stopping
        /\ sched' = "chosen"
        /\ chosen' = j
        /\ ReserveSlot(ProviderOf[j])
  /\ UNCHANGED <<dbVars, cooling, boot, stopping, threadVars, client>>

\* Nothing to start: Condition.wait, for at most the shortest cooldown seen.
ScanEnd ==
  /\ sched = "scan"
  /\ scan.index > Len(pending)
  /\ sched' = "wait"
  /\ scan' = [NoScan EXCEPT !.cooling = scan.cooling]
  /\ UNCHANGED <<dbVars, pending, slotVars, chosen, boot, stopping, threadVars, client>>

WaitTimeout ==
  /\ sched = "wait"
  /\ \E p \in scan.cooling : ~cooling[p]
  /\ sched' = "ready"
  /\ UNCHANGED <<dbVars, pending, slotVars, scan, chosen, boot, stopping, threadVars, client>>

\* After the reservation, outside the lock.
ReturnReservation ==
  /\ sched = "chosen"
  /\ Stopping
  /\ ReleaseSlot(ProviderOf[chosen])
  /\ chosen' = NoJob
  /\ sched' = "exited"
  /\ UNCHANGED <<dbVars, pending, cooling, scan, boot, stopping, threadVars, client>>

Launch(r) ==
  /\ sched = "chosen"
  /\ ~Stopping
  /\ runner[r].pc = "free"
  /\ runner' = [runner EXCEPT ![r] = [pc |-> "start", job |-> chosen,
                                      signal |-> "none", watchdog |-> "on"]]
  /\ chosen' = NoJob
  /\ sched' = "ready"
  /\ UNCHANGED <<dbVars, pending, slotVars, scan, boot, stopping, verdicts, client>>

SchedulerStep ==
  \/ SchedulerQuits \/ SchedulerFull \/ SchedulerScans
  \/ \E j \in Jobs : ScanDrop(j) \/ ScanReject(j) \/ ScanSkip(j) \/ ScanSelect(j)
  \/ WriteRejected \/ ScanEnd \/ WaitTimeout \/ ReturnReservation
  \/ \E r \in Runners : Launch(r)

\* time.monotonic() passes the deadline, or the setting is now zero.
CooldownElapses(p) ==
  /\ cooling[p]
  /\ cooling' = [cooling EXCEPT ![p] = FALSE]
  /\ UNCHANGED <<dbVars, pending, active, activeIn, schedVars, boot, stopping, threadVars, client>>

-----------------------------------------------------------------------------
(* A job_runner thread: run_job, check_job_control, handle_control_stop.   *)
(* The provider handler is the "work" phase: it looks at the row again and *)
(* again, and returns or raises.                                           *)

Goto(r, pc) == runner' = [runner EXCEPT ![r].pc = pc]

\* The finally clause begins: the watchdog is told to stop.
GotoLeave(r) == runner' = [runner EXCEPT ![r] = [pc |-> "leave", job |-> @.job,
                                                 signal |-> "none", watchdog |-> "off"]]

\* JobControlStop is raised: handle_control_stop follows.
GotoStop(r, signal) == runner' = [runner EXCEPT ![r] = [pc |-> "stop", job |-> @.job,
                                                        signal |-> signal, watchdog |-> @.watchdog]]

RunnerKeeps == UNCHANGED <<nextId, limits, pending, slotVars, schedVars, boot,
                           stopping, verdicts, client>>

\* db.get_job: run the job only if its row still says it should run.
RunnerStart(r) ==
  /\ runner[r].pc = "start"
  /\ \/ /\ status[runner[r].job] \in {"queued", "running"}
        /\ Goto(r, "begin")
     \/ /\ status[runner[r].job] \notin {"queued", "running"}
        /\ GotoLeave(r)
  /\ UNCHANGED status
  /\ RunnerKeeps

RunnerBegin(r) ==
  /\ runner[r].pc = "begin"
  /\ Update(runner[r].job, "running")
  /\ Goto(r, "check")
  /\ RunnerKeeps

\* check_job_control, before, during and after the handler.
RunnerCheck(r) ==
  /\ \/ /\ runner[r].pc = "check"
        /\ ControlSignal(status[runner[r].job]) = "none"
        /\ Goto(r, "work")
     \/ /\ runner[r].pc = "finalCheck"
        /\ ControlSignal(status[runner[r].job]) = "none"
        /\ Goto(r, "finish")
     \/ /\ runner[r].pc \in {"check", "work", "finalCheck"}
        /\ ControlSignal(status[runner[r].job]) # "none"
        /\ GotoStop(r, ControlSignal(status[runner[r].job]))
  /\ UNCHANGED status
  /\ RunnerKeeps

HandlerEnds(r) ==
  /\ runner[r].pc = "work"
  /\ \/ Goto(r, "finalCheck")
     \/ Goto(r, "except")
  /\ UNCHANGED status
  /\ RunnerKeeps

RunnerFinish(r) ==
  /\ runner[r].pc = "finish"
  /\ Update(runner[r].job, "done")
  /\ GotoLeave(r)
  /\ RunnerKeeps

\* except Exception: a control request explains the failure, else "failed".
\* Unlike check_job_control, a missing row is not a request to delete.
RunnerExcept(r) ==
  LET s == status[runner[r].job]
      request == IF s = NoRow THEN "none" ELSE ControlSignal(s)
  IN  /\ runner[r].pc = "except"
      /\ \/ /\ request # "none"
            /\ GotoStop(r, request)
         \/ /\ request = "none"
            /\ Goto(r, "fail")
      /\ UNCHANGED status
      /\ RunnerKeeps

\* Mutant of RunnerFail: the failure is logged and the row left as it is.
RunnerFailUnwritten(r) ==
  /\ runner[r].pc = "fail"
  /\ GotoLeave(r)
  /\ UNCHANGED status
  /\ RunnerKeeps

RunnerFail(r) ==
  /\ runner[r].pc = "fail"
  /\ Update(runner[r].job, "failed")
  /\ GotoLeave(r)
  /\ RunnerKeeps

HandleControlStop(r) ==
  /\ runner[r].pc = "stop"
  /\ \/ /\ runner[r].signal = "deleted"
        /\ DeleteRow(runner[r].job)
     \/ /\ runner[r].signal # "deleted"
        /\ Update(runner[r].job, runner[r].signal)
  /\ GotoLeave(r)
  /\ RunnerKeeps

\* release_provider_slot: the cooldown is drawn now, and may be zero.
RunnerLeave(r) ==
  LET p == ProviderOf[runner[r].job]
  IN  /\ runner[r].pc = "leave"
      /\ LockFree
      /\ runner' = [runner EXCEPT ![r] = FreeRunner]
      /\ ReleaseSlot(p)
      /\ \E b \in CooldownDraws : cooling' = [cooling EXCEPT ![p] = b]
      /\ Notify
      /\ UNCHANGED <<dbVars, pending, scan, chosen, boot, stopping, verdicts, client>>

RunnerStep(r) ==
  \/ RunnerStart(r) \/ RunnerBegin(r) \/ RunnerCheck(r) \/ HandlerEnds(r)
  \/ RunnerFinish(r) \/ RunnerExcept(r) \/ RunnerFail(r)
  \/ HandleControlStop(r) \/ RunnerLeave(r)

\* job_stall_watchdog reads "running" and finds no progress for too long ...
WatchdogJudges(r) ==
  /\ WatchdogOn
  /\ runner[r].watchdog = "on"
  /\ status[runner[r].job] = "running"
  /\ runner' = [runner EXCEPT ![r].watchdog = "off"]
  /\ verdicts' = verdicts \cup {<<r, runner[r].job>>}
  /\ UNCHANGED <<dbVars, pending, slotVars, schedVars, boot, stopping, client>>

\* ... and writes "pausing" without reading again, whatever happened since.
WatchdogPauses(v) ==
  /\ v \in verdicts
  /\ verdicts' = verdicts \ {v}
  /\ Update(v[2], "pausing")
  /\ UNCHANGED <<nextId, limits, pending, slotVars, schedVars, boot, stopping, runner, client>>

-----------------------------------------------------------------------------
(* The HTTP handlers.  Each reads the row (require_job), and acts on what  *)
(* it read in later steps, whatever the row has become.                    *)

Serving(c, op) == /\ op \in Operations
                  /\ sched \notin {"down", "boot"}
                  /\ stopping = "no"
                  /\ client[c].pc = "idle"

ClientAt(c, pc, j) == client' = [client EXCEPT ![c] = [pc |-> pc, job |-> j]]

ClientDone(c) == client' = [client EXCEPT ![c] = IdleClient]

ClientKeeps == UNCHANGED <<limits, slotVars, scan, chosen, boot, stopping, threadVars>>

\* add_job, one line of add_jobs_bulk: INSERT with status queued ...
AddJob(c) ==
  /\ Serving(c, "add")
  /\ nextId <= MaxJobs
  /\ status' = [status EXCEPT ![nextId] = "queued"]
  /\ nextId' = nextId + 1
  /\ ClientAt(c, "enqueue", nextId)
  /\ UNCHANGED <<pending, sched>>
  /\ ClientKeeps

\* Mutant of Enqueue: the id is appended without notify_all.
EnqueueSilently(c) ==
  /\ client[c].pc = "enqueue"
  /\ LockFree
  /\ pending' = Enlisted(pending, client[c].job)
  /\ ClientDone(c)
  /\ UNCHANGED <<status, nextId, sched>>
  /\ ClientKeeps

\* ... then enqueue_job.
Enqueue(c) ==
  /\ client[c].pc = "enqueue"
  /\ LockFree
  /\ pending' = Enlisted(pending, client[c].job)
  /\ Notify
  /\ ClientDone(c)
  /\ UNCHANGED <<status, nextId>>
  /\ ClientKeeps

\* The first step of the job controls.  A request that the row's status does
\* not admit is refused, or has nothing to do, and changes nothing.
PauseRequest(c, j) ==
  /\ Serving(c, "pause")
  /\ \/ status[j] = "queued" /\ ClientAt(c, "unpendToPause", j)
     \/ status[j] = "running" /\ ClientAt(c, "writePausing", j)
  /\ UNCHANGED <<status, nextId, pending, sched>>
  /\ ClientKeeps

ResumeRequest(c, j) ==
  /\ Serving(c, "resume")
  /\ status[j] = "paused"
  /\ ClientAt(c, "requeue", j)
  /\ UNCHANGED <<status, nextId, pending, sched>>
  /\ ClientKeeps

RetryRequest(c, j) ==
  /\ Serving(c, "retry")
  /\ status[j] \in {"failed", "canceled"}
  /\ ClientAt(c, "requeue", j)
  /\ UNCHANGED <<status, nextId, pending, sched>>
  /\ ClientKeeps

DeleteRequest(c, j) ==
  /\ Serving(c, "delete")
  /\ \/ status[j] \in {"running", "pausing"} /\ ClientAt(c, "writeDeleting", j)
     \/ /\ status[j] \notin {NoRow, "running", "pausing", "deleting"}
        /\ ClientAt(c, "unpendToDelete", j)
  /\ UNCHANGED <<status, nextId, pending, sched>>
  /\ ClientKeeps

\* remove_pending_job, for a pause or a delete.
Unpend(c) ==
  /\ LockFree
  /\ \/ /\ client[c].pc = "unpendToPause"
        /\ ClientAt(c, "writePaused", client[c].job)
     \/ /\ client[c].pc = "unpendToDelete"
        /\ ClientAt(c, "deleteRow", client[c].job)
  /\ pending' = Unlisted(pending, client[c].job)
  /\ Notify
  /\ UNCHANGED <<status, nextId>>
  /\ ClientKeeps

\* The database write that ends a pause or a delete.
WriteControl(c) ==
  LET j == client[c].job
  IN  /\ \/ client[c].pc = "writePaused" /\ Update(j, "paused")
         \/ client[c].pc = "writePausing" /\ Update(j, "pausing")
         \/ client[c].pc = "writeDeleting" /\ Update(j, "deleting")
         \/ client[c].pc = "deleteRow" /\ DeleteRow(j)
      /\ ClientDone(c)
      /\ UNCHANGED <<nextId, pending, sched>>
      /\ ClientKeeps

\* Mutant of Requeue: the row is queued again, its id is not enqueued.
RequeueRowOnly(c) ==
  /\ client[c].pc = "requeue"
  /\ Update(client[c].job, "queued")
  /\ ClientDone(c)
  /\ UNCHANGED <<nextId, pending, sched>>
  /\ ClientKeeps

\* Resume and retry write the row before they enqueue.
Requeue(c) ==
  /\ client[c].pc = "requeue"
  /\ Update(client[c].job, "queued")
  /\ ClientAt(c, "enqueue", client[c].job)
  /\ UNCHANGED <<nextId, pending, sched>>
  /\ ClientKeeps

\* POST /api/jobs/clear: one DELETE of every row that is not active.
ClearHistory(c) ==
  /\ Serving(c, "clear")
  /\ status' = [j \in Jobs |-> IF status[j] \in ActiveStatuses THEN status[j] ELSE NoRow]
  /\ UNCHANGED <<nextId, pending, sched, client>>
  /\ ClientKeeps

\* save_settings writes one limit, then the other, then notifies.
SaveGlobalLimit(c) ==
  /\ Serving(c, "settings")
  /\ \E g \in GlobalLimits : limits' = [limits EXCEPT !.global = g]
  /\ ClientAt(c, "saveProvider", NoJob)
  /\ UNCHANGED <<status, nextId, pending, slotVars, schedVars, boot, stopping, threadVars>>

SaveProviderLimit(c) ==
  /\ client[c].pc = "saveProvider"
  /\ \E l \in ProviderLimits : limits' = [limits EXCEPT !.provider = l]
  /\ ClientAt(c, "notify", NoJob)
  /\ UNCHANGED <<status, nextId, pending, slotVars, schedVars, boot, stopping, threadVars>>

NotifySettings(c) ==
  /\ client[c].pc = "notify"
  /\ LockFree
  /\ Notify
  /\ ClientDone(c)
  /\ UNCHANGED <<status, nextId, pending>>
  /\ ClientKeeps

NewRequest(c) == \/ AddJob(c) \/ ClearHistory(c) \/ SaveGlobalLimit(c)
                 \/ \E j \in Jobs : \/ PauseRequest(c, j) \/ ResumeRequest(c, j)
                                     \/ RetryRequest(c, j) \/ DeleteRequest(c, j)

ClientStep(c) == \/ Enqueue(c) \/ Unpend(c) \/ WriteControl(c) \/ Requeue(c)
                 \/ SaveProviderLimit(c) \/ NotifySettings(c)

-----------------------------------------------------------------------------
BootStep == (\E j \in Jobs : BootRow(j)) \/ BootDone

Next ==
  \/ Restart \/ BootStep \/ Crash
  \/ RequestStop \/ NotifyStop
  \/ SchedulerStep
  \/ \E p \in Providers : CooldownElapses(p)
  \/ \E r \in Runners : RunnerStep(r) \/ WatchdogJudges(r)
  \/ \E v \in verdicts : WatchdogPauses(v)
  \/ \E c \in Clients : NewRequest(c) \/ ClientStep(c)

Spec == Init /\ [][Next]_vars

\* Threads that can run do run, handlers return or raise, time passes.  No
\* request, crash, restart, stop or stall is promised.
Fairness ==
  /\ WF_vars(BootStep)
  /\ WF_vars(NotifyStop)
  /\ WF_vars(SchedulerStep)
  /\ \A p \in Providers : WF_vars(CooldownElapses(p))
  /\ \A r \in Runners : WF_vars(RunnerStep(r))
  /\ \A c \in Clients : WF_vars(ClientStep(c))

FairSpec == Spec /\ Fairness

-----------------------------------------------------------------------------
(* Properties.                                                             *)

RowsTyped ==
  /\ status \in [Jobs -> Statuses \cup {NoRow}]
  /\ nextId \in 1..(MaxJobs + 1)
  /\ limits \in [global : GlobalLimits, provider : ProviderLimits]

\* enqueue_job never lists an id twice.
PendingTyped == IsList(pending, Jobs)

SlotsTyped ==
  /\ active \in Nat
  /\ activeIn \in [Providers -> Nat]
  /\ cooling \in [Providers -> BOOLEAN]

SchedulerTyped ==
  /\ sched \in {"down", "boot", "ready", "scan", "reject", "wait", "chosen", "exited"}
  /\ scan \in [index : Nat \ {0}, limit : Nat, cooling : SUBSET Providers]
  /\ chosen \in IF sched \in {"chosen", "reject"} THEN Jobs ELSE {NoJob}
  /\ boot \subseteq Jobs
  /\ stopping \in {"no", "set", "notified"}

ThreadsTyped ==
  /\ runner \in [Runners -> [pc : RunnerPCs, job : Jobs \cup {NoJob},
                             signal : Signals, watchdog : {"on", "off"}]]
  /\ \A r \in Runners : IF runner[r].pc = "free" THEN runner[r] = FreeRunner
                                               ELSE runner[r].job \in Jobs
  /\ \A r \in Runners : runner[r].pc = "stop" <=> runner[r].signal # "none"
  /\ verdicts \subseteq Runners \X Jobs

ClientsTyped ==
  /\ client \in [Clients -> [pc : ClientPCs, job : Jobs \cup {NoJob}]]
  /\ \A c \in Clients : client[c].pc \in {"idle", "saveProvider", "notify"}
                          <=> client[c].job = NoJob

\* Every variable stays in its domain; in particular the pending list names
\* real job ids, none twice, a thread or a request that is under way has its
\* job, and the slot counters never go negative.
TypeOK == /\ RowsTyped /\ PendingTyped /\ SlotsTyped
          /\ SchedulerTyped /\ ThreadsTyped /\ ClientsTyped

\* 1 when the scheduler holds a reservation no thread has taken over yet.
Reserved == IF sched = "chosen" THEN 1 ELSE 0
ReservedIn(p) == IF sched = "chosen" /\ ProviderOf[chosen] = p THEN 1 ELSE 0

\* The two slot counters are exactly the job threads alive plus the
\* reservation in hand, in total and in each provider bucket: no exit path of
\* job_runner or scheduler_loop leaks a slot or returns one twice.
SlotAccounting ==
  /\ active = Cardinality(Live) + Reserved
  /\ \A p \in Providers : activeIn[p] = Cardinality(LiveIn(p)) + ReservedIn(p)

\* Job threads and reservations never exceed the hard caps, in total or in a
\* provider bucket, however the limits change while jobs run.
WithinCaps ==
  /\ Cardinality(Live) + Reserved <= GlobalCap
  /\ \A p \in Providers : Cardinality(LiveIn(p)) + ReservedIn(p) <= ProviderCap

\* Where the per-provider limit cannot be raised above its default of 1, two
\* threads never work on the same job, even though a pause and a resume that
\* race with the scheduler can enqueue a job again before its thread has read
\* the row.
OneRunnerPerJob ==
  ProviderCap = 1 =>
    \A r, s \in Live : runner[r].job = runner[s].job => r = s

\* A row says "running" only while a thread is past its first write and has
\* not yet written how it ended.  (From boot on: nothing cleans such a row up
\* before the next restart.)
RunningHasRunner ==
  sched \notin {"down", "boot"} =>
    \A j \in Jobs : status[j] = "running" =>
      \E r \in Live : /\ runner[r].job = j
                      /\ runner[r].pc \notin {"start", "leave"}

\* A queued row is never forgotten: it is on the pending list, in the
\* scheduler's hands, about to be started by a thread, or some request is
\* about to enqueue, pause or delete it.
QueuedIsOwned ==
  sched \notin {"down", "boot", "exited"} =>
    \A j \in Jobs : status[j] = "queued" =>
      \/ Listed(pending, j)
      \/ sched \in {"chosen", "reject"} /\ chosen = j
      \/ \E r \in Live : runner[r].job = j /\ runner[r].pc # "leave"
      \/ \E c \in Clients : client[c].job = j

\* A status that a thread must end, or start, has a thread or a request that
\* will: the two sides of one promise, that no job is forgotten in mid-course.
StatusHasOwner == RunningHasRunner /\ QueuedIsOwned

\* The scheduler sleeps only while nothing it could start is waiting: every
\* slot is taken, or each listed job is in a bucket that is full, or cooling
\* with the timer set, or a request on it or on the limits will wake it.  So
\* no bucket holds up another, and no release, enqueue or raised limit passes
\* unnoticed.  scheduler_loop, pick_next_schedulable_job_locked
WaitIsJustified ==
  sched = "wait" =>
    \/ active >= limits.global
    \/ \E c \in Clients : client[c].pc \in {"saveProvider", "notify"}
    \/ \A j \in Jobs : Listed(pending, j) /\ status[j] = "queued" =>
         \/ activeIn[ProviderOf[j]] >= limits.provider
         \/ ProviderOf[j] \in scan.cooling
         \/ \E c \in Clients : client[c].job = j

\* Once a restart is complete, no row is left in a status that only a live
\* thread could complete, and every queued row, the interrupted ones included,
\* is on the pending list when the scheduler starts.  This is for tables of at
\* most ResumeLimit rows: behind 500 newer rows the code leaves a row as it is.
RestartSettles ==
  [][BootDone => \A j \in Jobs :
       /\ status[j] \notin {"running", "pausing", "canceling", "deleting"}
       /\ status[j] = "queued" => Listed(pending, j)]_vars

\* A job that waits its turn is eventually taken off the queue, by a thread
\* or by a request: no wakeup is lost and no provider starves another.
QueueDrains ==
  \A j \in Jobs : status[j] = "queued" /\ sched \notin {"down", "boot"}
                    ~> status[j] # "queued" \/ sched = "down" \/ stopping # "no"

\* A single thread is running job j and has control checks ahead of it, and
\* no request or watchdog is about to write what it read of j earlier.
Undisturbed(j) ==
  /\ \E r \in Live : /\ runner[r].job = j
                   /\ runner[r].pc \in {"check", "work", "finalCheck", "except"}
                   /\ \A s \in Live \ {r} : runner[s].job # j
  /\ \A c \in Clients : client[c].job # j
  /\ \A v \in verdicts : v[2] # j

\* A pause or delete that reaches a job while its thread has control checks
\* ahead takes effect: the row goes, or ends paused (or on its way to being
\* deleted).  Without Undisturbed the code does not promise this: a request
\* that read the row earlier, or the thread's own last write, can undo it.
ControlTakesEffect ==
  \A j \in Jobs :
    /\ status[j] = "deleting" /\ Undisturbed(j) ~> status[j] = NoRow \/ sched = "down"
    /\ status[j] = "pausing" /\ Undisturbed(j)
         ~> status[j] \in {"paused", "deleting", NoRow} \/ sched = "down"

\* The queue implements the abstract pool of download slots.
Pool == INSTANCE DownloadSlots WITH
          Threads <- Runners, Cap <- GlobalCap, BucketCap <- ProviderCap,
          holder <- [r \in Runners |-> runner[r].job]
ImplementsSlots == Pool!Spec

=============================================================================
