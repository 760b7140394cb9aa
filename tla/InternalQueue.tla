--------------------------- MODULE InternalQueue ---------------------------
(***************************************************************************)
(* The internal-job queue of HugCivi (app/internal_jobs.py): ZIP archives, *)
(* media jobs, transfers and library reindexing, run by at most            *)
(* INTERNAL_JOB_MAX_CONCURRENT threads, the heavy kinds only when the      *)
(* maintenance policy allows, with the HTTP handlers of app/main.py that   *)
(* create and control these jobs over the jobs table (app/db.py).          *)
(*                                                                         *)
(* Granularity as in DownloadQueue: a database call is one step; _CONDITION*)
(* is held through a whole scan of the pending list.                       *)
(***************************************************************************)
EXTENDS Integers, Sequences, FiniteSets, PendingList

CONSTANTS
  MaxJobs,       \* bound on the rows ever created
  InitialRows,   \* rows an earlier run of the program left in the table
  Payloads,      \* what a job is asked to do: its kind and parameters
  Heavy,         \* the payloads of heavy kinds (heavy_internal_job_kinds)
  Reused,        \* library_reindex scopes: an active job is reused
  NoHandler,     \* payloads of a kind no handler is registered for
  Runners,       \* thread slots, one per job_runner thread alive at once
  Clients,       \* concurrent HTTP requests
  Cap,           \* INTERNAL_JOB_MAX_CONCURRENT
  ResumeLimit,   \* rows enqueue_existing_jobs looks at (500 in the code)
  Operations     \* bound: what users, the host and the clock do

Jobs == 1..MaxJobs
NoJob == 0
NoRow == "none"

ASSUME SizesAssumption == /\ MaxJobs \in Nat \ {0}
                          /\ InitialRows \in 0..MaxJobs
                          /\ ResumeLimit \in Nat
ASSUME PayloadsAssumption == /\ Heavy \cup Reused \cup NoHandler \subseteq Payloads
                             /\ Payloads # {}
ASSUME ThreadsAssumption == IsFiniteSet(Runners) /\ Cap \in Nat \ {0}
ASSUME ConfigAssumption ==
  Operations \subseteq {"create", "batch", "reindex", "pause", "resume", "retry", "delete",
                        "clear", "policy", "clock", "stop", "crash"}

Statuses == {"queued", "running", "paused", "pausing", "canceling",
             "canceled", "deleting", "failed", "done"}
ActiveStatuses == {"queued", "running", "paused", "pausing", "canceling", "deleting"}

VARIABLES
  status,     \* jobs.status of each row, NoRow when there is no such row
  payload,    \* the payload of each row ever created
  nextId,     \* the next AUTOINCREMENT id
  gate,       \* would job_start_allowed let a heavy job start now?
  pending,    \* _PENDING_JOB_IDS
  active,     \* _ACTIVE_JOBS
  sched,      \* where the scheduler thread is; "down" when no process runs
  scan,       \* the index of pop_next_startable_job_locked
  chosen,     \* the job popped and not yet handed to a thread
  boot,       \* rows enqueue_existing_jobs still has to visit
  stopping,   \* _STOP_EVENT, and whether stop_workers has notified
  runner,     \* the job_runner threads
  client      \* the HTTP requests in flight

vars == <<status, payload, nextId, gate, pending, active, sched, scan, chosen, boot,
          stopping, runner, client>>
dbVars == <<status, payload, nextId, gate>>
schedVars == <<sched, scan, chosen>>

RunnerPCs == {"free", "start", "begin", "check", "work", "finalCheck", "finalRead",
              "finish", "stop", "except", "fail", "leave"}
Signals == {"none", "deleted", "paused", "canceled"}
ClientPCs == {"idle", "batch", "abandon", "enqueue", "look", "unpendToPause", "writePaused",
              "writePausing", "requeue", "writeDeleting", "unpendToDelete", "deleteRow",
              "saveStartHour", "saveEndHour", "notify"}

FreeRunner == [pc |-> "free", job |-> NoJob, signal |-> "none"]
IdleClient == [pc |-> "idle", todo |-> <<>>]

Live == {r \in Runners : runner[r].pc # "free"}
Runnable == {"queued", "running"}

-----------------------------------------------------------------------------
(* Helpers.                                                                *)

\* UPDATE ... WHERE id = ? does nothing when the row is gone.
Update(j, s) == status' = [status EXCEPT ![j] = IF @ = NoRow THEN NoRow ELSE s]

DeleteRow(j) == status' = [status EXCEPT ![j] = NoRow]

Rows == {j \in Jobs : status[j] # NoRow}

\* The scheduler holds _CONDITION while it scans.
LockFree == sched # "scan"

\* notify_all ends either wait of the scheduler.
Notify == sched' = IF sched \in {"wait", "poll"} THEN "ready" ELSE sched

\* What check_job_control raises for a status; "none" lets the job go on.
ControlSignal(s) == CASE s \in {NoRow, "deleting"}       -> "deleted"
                      [] s \in {"pausing", "paused"}     -> "paused"
                      [] s \in {"canceling", "canceled"} -> "canceled"
                      [] OTHER                           -> "none"

-----------------------------------------------------------------------------
Init == /\ status \in [Jobs -> Statuses \cup {NoRow}]
        /\ \A j \in Jobs : status[j] # NoRow => j <= InitialRows
        /\ payload \in [Jobs -> Payloads]
        /\ nextId = InitialRows + 1
        /\ gate \in BOOLEAN
        /\ pending = <<>>
        /\ active = 0
        /\ sched = "down"
        /\ scan = 1
        /\ chosen = NoJob
        /\ boot = {}
        /\ stopping = "no"
        /\ runner = [r \in Runners |-> FreeRunner]
        /\ client = [c \in Clients |-> IdleClient]

-----------------------------------------------------------------------------
(* Process start, stop and death.                                          *)

\* list_internal_jobs_to_resume: the newest ResumeLimit rows.
Resumable == {j \in Rows : Cardinality({k \in Rows : k > j}) < ResumeLimit}

Restart ==
  /\ sched = "down"
  /\ sched' = "boot"
  /\ boot' = Resumable
  /\ UNCHANGED <<dbVars, pending, active, scan, chosen, stopping, runner, client>>

\* One iteration of enqueue_existing_jobs, oldest row first.
BootRow(j) ==
  /\ sched = "boot"
  /\ j \in boot
  /\ \A k \in boot : j <= k
  /\ boot' = boot \ {j}
  /\ \/ /\ status[j] = "deleting"
        /\ DeleteRow(j)
        /\ UNCHANGED pending
     \/ /\ status[j] = "canceling"
        /\ Update(j, "canceled")
        /\ UNCHANGED pending
     \/ /\ status[j] = "pausing"
        /\ Update(j, "paused")
        /\ UNCHANGED pending
     \/ /\ status[j] \in Runnable
        /\ Update(j, "queued")
        /\ pending' = Enlisted(pending, j)
     \/ /\ status[j] \in {"paused", "canceled", "failed", "done"}
        /\ UNCHANGED <<status, pending>>
  /\ UNCHANGED <<payload, nextId, gate, active, schedVars, stopping, runner, client>>

BootDone ==
  /\ sched = "boot"
  /\ boot = {}
  /\ sched' = "ready"
  /\ UNCHANGED <<dbVars, pending, active, scan, chosen, boot, stopping, runner, client>>

\* The process dies, or is ended after a stop: only SQLite survives.
Crash ==
  /\ "crash" \in Operations
  /\ sched # "down"
  /\ pending' = <<>>
  /\ active' = 0
  /\ sched' = "down"
  /\ scan' = 1
  /\ chosen' = NoJob
  /\ boot' = {}
  /\ stopping' = "no"
  /\ runner' = [r \in Runners |-> FreeRunner]
  /\ client' = [c \in Clients |-> IdleClient]
  /\ UNCHANGED dbVars

RequestStop ==
  /\ "stop" \in Operations
  /\ sched \notin {"down", "boot"}
  /\ stopping = "no"
  /\ stopping' = "set"
  /\ UNCHANGED <<dbVars, pending, active, schedVars, boot, runner, client>>

NotifyStop ==
  /\ stopping = "set"
  /\ LockFree
  /\ stopping' = "notified"
  /\ Notify
  /\ UNCHANGED <<dbVars, pending, active, scan, chosen, boot, runner, client>>

-----------------------------------------------------------------------------
(* The scheduler thread: scheduler_loop around                             *)
(* pop_next_startable_job_locked.                                          *)

Stopping == stopping # "no"

Idle == pending = <<>> \/ active >= Cap

SchedulerQuits ==
  /\ sched = "ready"
  /\ Stopping
  /\ sched' = "exited"
  /\ UNCHANGED <<dbVars, pending, active, scan, chosen, boot, stopping, runner, client>>

\* Condition.wait without a timeout.
SchedulerWaits ==
  /\ sched = "ready"
  /\ ~Stopping
  /\ Idle
  /\ sched' = "wait"
  /\ UNCHANGED <<dbVars, pending, active, scan, chosen, boot, stopping, runner, client>>

SchedulerScans ==
  /\ sched = "ready"
  /\ ~Stopping
  /\ ~Idle
  /\ sched' = "scan"
  /\ scan' = 1
  /\ UNCHANGED <<dbVars, pending, active, chosen, boot, stopping, runner, client>>

\* Mutant of StartAllowed: only interrupted rows are held back.
StartAllowedUnlessResumed(j) == (status[j] = "running" /\ payload[j] \in Heavy) => gate

\* pending_job_start_allowed: a row that is gone or not to be run is left to
\* the thread to turn down.
StartAllowed(j) == (status[j] \in Runnable /\ payload[j] \in Heavy) => gate

\* Mutant of ScanSkip: a held-back job ends the scan.
ScanStopsAtHeldBack ==
  /\ sched = "scan"
  /\ scan <= Len(pending)
  /\ ~StartAllowed(pending[scan])
  /\ sched' = "poll"
  /\ UNCHANGED <<dbVars, pending, active, scan, chosen, boot, stopping, runner, client>>

ScanSkip ==
  /\ sched = "scan"
  /\ scan <= Len(pending)
  /\ ~StartAllowed(pending[scan])
  /\ scan' = scan + 1
  /\ UNCHANGED <<dbVars, pending, active, sched, chosen, boot, stopping, runner, client>>

\* Pop the job and count it: the lock is released.
ScanPop ==
  /\ sched = "scan"
  /\ scan <= Len(pending)
  /\ StartAllowed(pending[scan])
  /\ chosen' = pending[scan]
  /\ pending' = DropAt(pending, scan)
  /\ active' = active + 1
  /\ sched' = "chosen"
  /\ UNCHANGED <<dbVars, scan, boot, stopping, runner, client>>

\* Mutant of ScanEnd: the scheduler sleeps until it is notified.
ScanEndUntimed ==
  /\ sched = "scan"
  /\ scan > Len(pending)
  /\ sched' = "wait"
  /\ UNCHANGED <<dbVars, pending, active, scan, chosen, boot, stopping, runner, client>>

\* Only held-back heavy jobs: wait for INTERNAL_JOB_MAINTENANCE_POLL_SECONDS.
ScanEnd ==
  /\ sched = "scan"
  /\ scan > Len(pending)
  /\ sched' = "poll"
  /\ UNCHANGED <<dbVars, pending, active, scan, chosen, boot, stopping, runner, client>>

PollTimeout ==
  /\ sched = "poll"
  /\ sched' = "ready"
  /\ UNCHANGED <<dbVars, pending, active, scan, chosen, boot, stopping, runner, client>>

\* A stop that arrived since the scan began is not looked at any more.
Launch(r) ==
  /\ sched = "chosen"
  /\ runner[r].pc = "free"
  /\ runner' = [runner EXCEPT ![r] = [pc |-> "start", job |-> chosen, signal |-> "none"]]
  /\ chosen' = NoJob
  /\ sched' = "ready"
  /\ UNCHANGED <<dbVars, pending, active, scan, boot, stopping, client>>

SchedulerStep ==
  \/ SchedulerQuits \/ SchedulerWaits \/ SchedulerScans
  \/ ScanSkip \/ ScanPop \/ ScanEnd \/ PollTimeout
  \/ \E r \in Runners : Launch(r)

\* The hour of the day moves into or out of the maintenance window.
ClockTurns ==
  /\ "clock" \in Operations
  /\ gate' = ~gate
  /\ UNCHANGED <<status, payload, nextId, pending, active, schedVars, boot, stopping, runner, client>>

-----------------------------------------------------------------------------
(* A job_runner thread.  The handler is the phase "work".                  *)

Goto(r, pc) == runner' = [runner EXCEPT ![r] = [pc |-> pc, job |-> @.job, signal |-> "none"]]
GotoStop(r, s) == runner' = [runner EXCEPT ![r] = [pc |-> "stop", job |-> @.job, signal |-> s]]

RunnerKeeps == UNCHANGED <<payload, nextId, gate, pending, active, schedVars, boot, stopping, client>>

\* db.get_job, then the handler table.
RunnerStart(r) ==
  /\ runner[r].pc = "start"
  /\ \/ /\ status[runner[r].job] \notin Runnable
        /\ Goto(r, "leave")
     \/ /\ status[runner[r].job] \in Runnable
        /\ payload[runner[r].job] \in NoHandler
        /\ Goto(r, "except")
     \/ /\ status[runner[r].job] \in Runnable
        /\ payload[runner[r].job] \notin NoHandler
        /\ Goto(r, "begin")
  /\ UNCHANGED status
  /\ RunnerKeeps

RunnerBegin(r) ==
  /\ runner[r].pc = "begin"
  /\ Update(runner[r].job, "running")
  /\ Goto(r, "check")
  /\ RunnerKeeps

\* check_job_control, before, during and after the handler.
RunnerCheck(r) ==
  LET signal == ControlSignal(status[runner[r].job])
  IN  /\ \/ /\ runner[r].pc = "check"
            /\ signal = "none"
            /\ Goto(r, "work")
         \/ /\ runner[r].pc = "finalCheck"
            /\ signal = "none"
            /\ Goto(r, "finalRead")
         \/ /\ runner[r].pc \in {"check", "work", "finalCheck"}
            /\ signal # "none"
            /\ GotoStop(r, signal)
      /\ UNCHANGED status
      /\ RunnerKeeps

HandlerEnds(r) ==
  /\ runner[r].pc = "work"
  /\ Goto(r, "finalCheck") \/ Goto(r, "except")
  /\ UNCHANGED status
  /\ RunnerKeeps

\* "done" is written only to a row that was still running when read ...
RunnerFinalRead(r) ==
  /\ runner[r].pc = "finalRead"
  /\ \/ status[runner[r].job] = "running" /\ Goto(r, "finish")
     \/ status[runner[r].job] # "running" /\ Goto(r, "leave")
  /\ UNCHANGED status
  /\ RunnerKeeps

\* ... in a call of its own.
RunnerFinish(r) ==
  /\ runner[r].pc = "finish"
  /\ Update(runner[r].job, "done")
  /\ Goto(r, "leave")
  /\ RunnerKeeps

\* except Exception: a control request explains the failure, else "failed".
RunnerExcept(r) ==
  LET s == status[runner[r].job]
      request == IF s = NoRow THEN "none" ELSE ControlSignal(s)
  IN  /\ runner[r].pc = "except"
      /\ \/ request # "none" /\ GotoStop(r, request)
         \/ request = "none" /\ Goto(r, "fail")
      /\ UNCHANGED status
      /\ RunnerKeeps

\* Mutant of RunnerFail: the failure is logged and the status left.
RunnerFailUnwritten(r) ==
  /\ runner[r].pc = "fail"
  /\ UNCHANGED status
  /\ Goto(r, "leave")
  /\ RunnerKeeps

RunnerFail(r) ==
  /\ runner[r].pc = "fail"
  /\ Update(runner[r].job, "failed")
  /\ Goto(r, "leave")
  /\ RunnerKeeps

HandleControlStop(r) ==
  /\ runner[r].pc = "stop"
  /\ \/ runner[r].signal = "deleted" /\ DeleteRow(runner[r].job)
     \/ runner[r].signal # "deleted" /\ Update(runner[r].job, runner[r].signal)
  /\ Goto(r, "leave")
  /\ RunnerKeeps

\* The finally clause of job_runner.
RunnerLeave(r) ==
  /\ runner[r].pc = "leave"
  /\ LockFree
  /\ runner' = [runner EXCEPT ![r] = FreeRunner]
  /\ active' = IF active > 0 THEN active - 1 ELSE 0
  /\ Notify
  /\ UNCHANGED <<dbVars, pending, scan, chosen, boot, stopping, client>>

RunnerStep(r) ==
  \/ RunnerStart(r) \/ RunnerBegin(r) \/ RunnerCheck(r) \/ HandlerEnds(r)
  \/ RunnerFinalRead(r) \/ RunnerFinish(r) \/ RunnerExcept(r) \/ RunnerFail(r)
  \/ HandleControlStop(r) \/ RunnerLeave(r)

-----------------------------------------------------------------------------
(* The HTTP handlers.  A request is its next step and the jobs it has yet  *)
(* to do it to; it acts on what it read, whatever the row has become.      *)

Serving(c, op) == /\ op \in Operations
                  /\ sched \notin {"down", "boot"}
                  /\ stopping = "no"
                  /\ client[c].pc = "idle"

ClientAt(c, pc, js) == client' = [client EXCEPT ![c] = [pc |-> pc, todo |-> js]]

\* The request goes on with the rest of its jobs at pc, or is answered.
ClientNext(c, pc) == IF Len(client[c].todo) = 1
                     THEN client' = [client EXCEPT ![c] = IdleClient]
                     ELSE ClientAt(c, pc, Tail(client[c].todo))

ClientDone(c) == client' = [client EXCEPT ![c] = IdleClient]

ClientKeeps == UNCHANGED <<active, scan, chosen, boot, stopping, runner>>

Target(c) == Head(client[c].todo)

\* The INSERT of create_internal_job.
InsertRow(p) == /\ nextId <= MaxJobs
                /\ status' = [status EXCEPT ![nextId] = "queued"]
                /\ payload' = [payload EXCEPT ![nextId] = p]
                /\ nextId' = nextId + 1

\* ZIP, transcode, poster, thumbnail and transfer requests: always a new row,
\* then enqueue_job.
CreateJob(c, p) ==
  /\ Serving(c, "create")
  /\ p \notin Reused
  /\ InsertRow(p)
  /\ ClientAt(c, "enqueue", <<nextId>>)
  /\ UNCHANGED <<gate, pending, sched>>
  /\ ClientKeeps

\* The transfer of all resources of a Civitai image inserts its rows first ...
BatchRow(c, p) ==
  /\ \/ Serving(c, "batch")
     \/ client[c].pc = "batch"
  /\ p \notin Reused
  /\ InsertRow(p)
  /\ ClientAt(c, "batch", Append(client[c].todo, nextId))
  /\ UNCHANGED <<gate, pending, sched>>
  /\ ClientKeeps

\* ... and enqueues them when all are there, or marks each failed when one
\* could not be prepared.
BatchEnds(c) ==
  /\ client[c].pc = "batch"
  /\ \E pc \in {"enqueue", "abandon"} : ClientAt(c, pc, client[c].todo)
  /\ UNCHANGED <<dbVars, pending, sched>>
  /\ ClientKeeps

\* Mutant of AbandonRow: a row of an abandoned batch stays queued.
AbandonRowUnwritten(c) ==
  /\ client[c].pc = "abandon"
  /\ UNCHANGED status
  /\ ClientNext(c, "abandon")
  /\ UNCHANGED <<payload, nextId, gate, pending, sched>>
  /\ ClientKeeps

AbandonRow(c) ==
  /\ client[c].pc = "abandon"
  /\ Update(Target(c), "failed")
  /\ ClientNext(c, "abandon")
  /\ UNCHANGED <<payload, nextId, gate, pending, sched>>
  /\ ClientKeeps

Enqueue(c) ==
  /\ client[c].pc = "enqueue"
  /\ LockFree
  /\ pending' = Enlisted(pending, Target(c))
  /\ Notify
  /\ ClientNext(c, "enqueue")
  /\ UNCHANGED dbVars
  /\ ClientKeeps

\* Mutant of ActiveOf: a running job of the scope is overlooked.
QueuedOf(p) == {j \in Jobs : status[j] = "queued" /\ payload[j] = p}

\* create_or_reuse_active_internal_job: one transaction that finds the oldest
\* queued or running row of this scope, or inserts one.
ActiveOf(p) == {j \in Jobs : status[j] \in Runnable /\ payload[j] = p}

ReuseJob(c, p) ==
  /\ Serving(c, "reindex")
  /\ p \in Reused
  /\ \E j \in ActiveOf(p) : (\A k \in ActiveOf(p) : j <= k) /\ ClientAt(c, "look", <<j>>)
  /\ UNCHANGED <<dbVars, pending, sched>>
  /\ ClientKeeps

CreateReindex(c, p) ==
  /\ Serving(c, "reindex")
  /\ p \in Reused
  /\ ActiveOf(p) = {}
  /\ InsertRow(p)
  /\ ClientAt(c, "enqueue", <<nextId>>)
  /\ UNCHANGED <<gate, pending, sched>>
  /\ ClientKeeps

\* api_library_reindex reads the reused row again: a queued one is enqueued,
\* which puts it on the list a second time if it was popped meanwhile.
LookAtReused(c) ==
  /\ client[c].pc = "look"
  /\ IF status[Target(c)] = "queued" THEN ClientAt(c, "enqueue", client[c].todo)
                                     ELSE ClientDone(c)
  /\ UNCHANGED <<dbVars, pending, sched>>
  /\ ClientKeeps

\* The first step of the job controls, as in DownloadQueue.
PauseRequest(c, j) ==
  /\ Serving(c, "pause")
  /\ \/ status[j] = "queued" /\ ClientAt(c, "unpendToPause", <<j>>)
     \/ status[j] = "running" /\ ClientAt(c, "writePausing", <<j>>)
  /\ UNCHANGED <<dbVars, pending, sched>>
  /\ ClientKeeps

ResumeRequest(c, j) ==
  /\ Serving(c, "resume")
  /\ status[j] = "paused"
  /\ ClientAt(c, "requeue", <<j>>)
  /\ UNCHANGED <<dbVars, pending, sched>>
  /\ ClientKeeps

RetryRequest(c, j) ==
  /\ Serving(c, "retry")
  /\ status[j] \in {"failed", "canceled"}
  /\ ClientAt(c, "requeue", <<j>>)
  /\ UNCHANGED <<dbVars, pending, sched>>
  /\ ClientKeeps

DeleteRequest(c, j) ==
  /\ Serving(c, "delete")
  /\ \/ status[j] \in {"running", "pausing"} /\ ClientAt(c, "writeDeleting", <<j>>)
     \/ /\ status[j] \notin {NoRow, "running", "pausing", "deleting"}
        /\ ClientAt(c, "unpendToDelete", <<j>>)
  /\ UNCHANGED <<dbVars, pending, sched>>
  /\ ClientKeeps

\* remove_pending_job, for a pause or a delete.
Unpend(c) ==
  /\ LockFree
  /\ \/ /\ client[c].pc = "unpendToPause"
        /\ ClientAt(c, "writePaused", client[c].todo)
     \/ /\ client[c].pc = "unpendToDelete"
        /\ ClientAt(c, "deleteRow", client[c].todo)
  /\ pending' = Unlisted(pending, Target(c))
  /\ Notify
  /\ UNCHANGED dbVars
  /\ ClientKeeps

WriteControl(c) ==
  /\ \/ client[c].pc = "writePaused" /\ Update(Target(c), "paused")
     \/ client[c].pc = "writePausing" /\ Update(Target(c), "pausing")
     \/ client[c].pc = "writeDeleting" /\ Update(Target(c), "deleting")
     \/ client[c].pc = "deleteRow" /\ DeleteRow(Target(c))
  /\ ClientDone(c)
  /\ UNCHANGED <<payload, nextId, gate, pending, sched>>
  /\ ClientKeeps

\* Mutant of Requeue: the row is queued again, its id is not enqueued.
RequeueRowOnly(c) ==
  /\ client[c].pc = "requeue"
  /\ Update(Target(c), "queued")
  /\ ClientDone(c)
  /\ UNCHANGED <<payload, nextId, gate, pending, sched>>
  /\ ClientKeeps

\* Resume and retry write the row before they enqueue.
Requeue(c) ==
  /\ client[c].pc = "requeue"
  /\ Update(Target(c), "queued")
  /\ ClientAt(c, "enqueue", client[c].todo)
  /\ UNCHANGED <<payload, nextId, gate, pending, sched>>
  /\ ClientKeeps

\* POST /api/jobs/clear: one DELETE of every row that is not active.
ClearHistory(c) ==
  /\ Serving(c, "clear")
  /\ status' = [j \in Jobs |-> IF status[j] \in ActiveStatuses THEN status[j] ELSE NoRow]
  /\ UNCHANGED <<payload, nextId, gate, pending, sched, client>>
  /\ ClientKeeps

\* save_settings writes the mode and the two hours of the maintenance policy,
\* each of which may open or close the gate, and then notifies.
SavePolicy(c) ==
  /\ \/ Serving(c, "policy") /\ ClientAt(c, "saveStartHour", <<>>)
     \/ client[c].pc = "saveStartHour" /\ ClientAt(c, "saveEndHour", <<>>)
     \/ client[c].pc = "saveEndHour" /\ ClientAt(c, "notify", <<>>)
  /\ gate' \in BOOLEAN
  /\ UNCHANGED <<status, payload, nextId, pending, sched>>
  /\ ClientKeeps

NotifyPolicy(c) ==
  /\ client[c].pc = "notify"
  /\ LockFree
  /\ Notify
  /\ ClientDone(c)
  /\ UNCHANGED <<dbVars, pending>>
  /\ ClientKeeps

NewRequest(c) ==
  \/ ClearHistory(c)
  \/ \E p \in Payloads : CreateJob(c, p) \/ ReuseJob(c, p) \/ CreateReindex(c, p)
  \/ \E j \in Jobs : \/ PauseRequest(c, j) \/ ResumeRequest(c, j)
                     \/ RetryRequest(c, j) \/ DeleteRequest(c, j)

ClientStep(c) ==
  \/ BatchEnds(c) \/ AbandonRow(c) \/ Enqueue(c) \/ LookAtReused(c)
  \/ Unpend(c) \/ WriteControl(c) \/ Requeue(c) \/ NotifyPolicy(c)

-----------------------------------------------------------------------------
BootStep == (\E j \in Jobs : BootRow(j)) \/ BootDone

Next ==
  \/ Restart \/ BootStep \/ Crash
  \/ RequestStop \/ NotifyStop
  \/ SchedulerStep
  \/ ClockTurns
  \/ \E r \in Runners : RunnerStep(r)
  \/ \E c \in Clients : \/ NewRequest(c) \/ ClientStep(c) \/ SavePolicy(c)
                        \/ \E p \in Payloads : BatchRow(c, p)

Spec == Init /\ [][Next]_vars

\* Threads that can run do run, handlers return or raise, a request that has
\* begun is finished.  No request, crash, restart or stop is promised, and the
\* maintenance window may never open.  A held-back job makes the scheduler
\* take and release _CONDITION for ever; it is released for the whole poll
\* interval, so a thread that waits for it gets it: strong fairness.
Fairness ==
  /\ WF_vars(BootStep)
  /\ SF_vars(NotifyStop)
  /\ WF_vars(SchedulerStep)
  /\ \A r \in Runners : SF_vars(RunnerStep(r))
  /\ \A c \in Clients : SF_vars(ClientStep(c))

FairSpec == Spec /\ Fairness

-----------------------------------------------------------------------------
(* Properties.                                                             *)

RowsTyped ==
  /\ status \in [Jobs -> Statuses \cup {NoRow}]
  /\ payload \in [Jobs -> Payloads]
  /\ nextId \in 1..(MaxJobs + 1)
  /\ gate \in BOOLEAN

\* enqueue_job never lists an id twice.
PendingTyped == IsList(pending, Jobs)

SchedulerTyped ==
  /\ active \in Nat
  /\ sched \in {"down", "boot", "ready", "scan", "wait", "poll", "chosen", "exited"}
  /\ scan \in Nat \ {0}
  /\ chosen \in IF sched = "chosen" THEN Jobs ELSE {NoJob}
  /\ boot \subseteq Jobs
  /\ stopping \in {"no", "set", "notified"}

ThreadsTyped ==
  /\ runner \in [Runners -> [pc : RunnerPCs, job : Jobs \cup {NoJob}, signal : Signals]]
  /\ \A r \in Runners : IF runner[r].pc = "free" THEN runner[r] = FreeRunner
                                               ELSE runner[r].job \in Jobs
  /\ \A r \in Runners : runner[r].pc = "stop" <=> runner[r].signal # "none"

Jobless == {"idle", "saveStartHour", "saveEndHour", "notify"}

ClientsTyped ==
  /\ client \in [Clients -> [pc : ClientPCs, todo : Seq(Jobs)]]
  /\ \A c \in Clients : client[c].pc \in Jobless <=> client[c].todo = <<>>

\* Every variable stays in its domain: the pending list names real jobs, none
\* twice, and a thread or a request under way never runs out of its jobs.
TypeOK == /\ RowsTyped /\ PendingTyped /\ SchedulerTyped
          /\ ThreadsTyped /\ ClientsTyped

\* 1 when a popped job is counted and no thread has it yet.
InHand == IF sched = "chosen" THEN 1 ELSE 0

\* _ACTIVE_JOBS is exactly the job threads alive plus the job in hand: one
\* decrement per thread on every exit path of job_runner, a refused start and
\* a failed handler included.
SlotAccounting == active = Cardinality(Live) + InHand

\* The queue is a bounded pool of at most INTERNAL_JOB_MAX_CONCURRENT threads:
\* DownloadSlots with a single bucket.
Pool == INSTANCE DownloadSlots WITH
          Threads <- Runners, Providers <- {"internal"},
          ProviderOf <- [j \in Jobs |-> "internal"],
          Cap <- Cap, BucketCap <- Cap,
          holder <- [r \in Runners |-> runner[r].job]
ImplementsSlots == Pool!Spec

\* A queued row is never forgotten, a row inserted by a batch or reused by a
\* second request included: it is listed, in the scheduler's hands, about to be
\* started, or a request still has it to do.
QueuedIsOwned ==
  sched \notin {"down", "boot", "exited"} =>
    \A j \in Jobs : status[j] = "queued" =>
      \/ Listed(pending, j)
      \/ sched = "chosen" /\ chosen = j
      \/ \E r \in Live : runner[r].job = j /\ runner[r].pc # "leave"
      \/ \E c \in Clients : \E i \in 1..Len(client[c].todo) : client[c].todo[i] = j

\* A row says "running" only while a thread works on it, even when two threads
\* have come to share a job and end in any order.
RunningHasRunner ==
  sched \notin {"down", "boot"} =>
    \A j \in Jobs : status[j] = "running" =>
      \E r \in Live : runner[r].job = j /\ runner[r].pc \notin {"start", "leave"}

\* A status that a thread must end, or start, has a thread or a request that
\* will: the two sides of one promise, that no job is forgotten in mid-course.
StatusHasOwner == RunningHasRunner /\ QueuedIsOwned

\* An active reindex is reused: a scope gets a second queued or running row only
\* by a resume or retry of another, or by a thread that sets a row to running
\* although it was paused, deleted or ended after the thread had read it; never
\* by requests for a reindex, however many at once and whatever runs, nor by a
\* restart.
ReindexReused ==
  [][\A j \in Jobs :
       /\ payload'[j] \in Reused /\ status[j] \notin Runnable /\ status'[j] \in Runnable
       /\ \E k \in Jobs \ {j} : payload'[k] = payload'[j] /\ status'[k] \in Runnable
       => \/ \E c \in Clients : Requeue(c) /\ Target(c) = j
          \/ \E r \in Runners : RunnerBegin(r) /\ runner[r].job = j]_vars

\* While the maintenance policy is closed, and was closed from the start, no
\* heavy job runs.
HeavyHeldBack ==
  ~gate /\ sched \notin {"down", "boot"} =>
    \A j \in Jobs : payload[j] \in Heavy => status[j] # "running"

Interrupted == sched = "down" \/ stopping # "no"

\* A light job leaves the queue whatever the maintenance policy does, even
\* behind heavy jobs that are held back for ever.
LightDrains ==
  \A j \in Jobs : status[j] = "queued" /\ payload[j] \notin Heavy /\ sched \notin {"down", "boot"}
                    ~> status[j] # "queued" \/ Interrupted

\* When the window opens for good, the heavy jobs it held back leave the queue
\* too, although nothing tells the scheduler of it.
WindowDrains ==
  <>[]gate =>
    \A j \in Jobs : status[j] = "queued" /\ payload[j] \in Heavy /\ sched \notin {"down", "boot"}
                      ~> status[j] # "queued" \/ Interrupted

\* Whatever the policy holds back, every job leaves the queue in the end: the
\* light ones always, the heavy ones once they are let.
QueueDrains == LightDrains /\ WindowDrains

=============================================================================
