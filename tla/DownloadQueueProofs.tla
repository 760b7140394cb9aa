------------------------ MODULE DownloadQueueProofs ------------------------
(***************************************************************************)
(* DownloadQueue for every number of jobs, provider buckets, threads and   *)
(* requests and every value of the limits.  The typing invariant is split  *)
(* by the part of the state it constrains: there is one lemma per part,    *)
(* whose proof looks only at the actions that touch it.  The second part   *)
(* proves that every status that needs an owner has one and that a restart *)
(* settles the table, the third that the counters count the job threads,   *)
(* that the hard caps hold and that the queue implements DownloadSlots.    *)
(***************************************************************************)
EXTENDS DownloadQueue, FiniteSetTheorems, TLAPS

-----------------------------------------------------------------------------
(* The pending list: its operations repeat no id and lose none but theirs. *)

\* list.pop(i): the elements after i move one place forward.
LEMMA DropAtKeeps ==
  ASSUME NEW S, NEW s \in Seq(S), NEW i \in 1..Len(s)
  PROVE  /\ IsList(s, S) => IsList(DropAt(s, i), S)
         /\ \A k : Listed(s, k) /\ s[i] # k => Listed(DropAt(s, i), k)
<1>1. /\ DropAt(s, i) \in Seq(S) /\ Len(DropAt(s, i)) = Len(s) - 1
      /\ \A k \in 1..(Len(s) - 1) : DropAt(s, i)[k] = IF k < i THEN s[k] ELSE s[k + 1]
  BY DEF DropAt
<1>2. PICK n, d : n \in Nat /\ n = Len(s) /\ d = DropAt(s, i) OBVIOUS
<1>3. ASSUME IsList(s, S) PROVE IsList(d, S)
  <2> DEFINE up(x) == IF x < i THEN x ELSE x + 1
  <2> SUFFICES ASSUME NEW h \in 1..(n - 1), NEW k \in 1..(n - 1), d[h] = d[k] PROVE h = k
    BY <1>1, <1>2 DEF IsList
  <2>1. up(h) \in 1..n /\ up(k) \in 1..n /\ s[up(h)] = s[up(k)] BY <1>1, <1>2
  <2>2. up(h) = up(k) BY <1>2, <1>3, <2>1 DEF IsList
  <2> QED BY <2>2
<1>4. ASSUME NEW k, NEW h \in 1..n, s[h] = k, s[i] # k PROVE Listed(d, k)
  <2>1. CASE h < i BY <1>1, <1>2, <1>4, <2>1 DEF Listed
  <2>2. CASE ~(h < i)
    <3>1. h - 1 \in 1..(n - 1) /\ d[h - 1] = k BY <1>1, <1>2, <1>4, <2>2
    <3> QED BY <1>1, <1>2, <3>1 DEF Listed
  <2> QED BY <2>1, <2>2
<1> QED BY <1>2, <1>3, <1>4 DEF Listed

\* enqueue_job looks before it appends.
LEMMA EnlistedKeeps ==
  ASSUME NEW S, NEW s \in Seq(S), NEW j \in S
  PROVE  /\ IsList(s, S) => IsList(Enlisted(s, j), S)
         /\ Listed(Enlisted(s, j), j) /\ \A k : Listed(s, k) => Listed(Enlisted(s, j), k)
<1>1. CASE Listed(s, j) BY <1>1 DEF Enlisted
<1>2. CASE ~Listed(s, j)
  <2>1. /\ Append(s, j) \in Seq(S) /\ Len(Append(s, j)) = Len(s) + 1
        /\ Append(s, j)[Len(s) + 1] = j /\ \A i \in 1..Len(s) : Append(s, j)[i] = s[i]
    OBVIOUS
  <2> QED BY <1>2, <2>1 DEF Enlisted, Listed, IsList
<1> QED BY <1>1, <1>2

\* remove_pending_job drops the id and no other.
LEMMA UnlistedKeeps ==
  ASSUME NEW S, NEW s \in Seq(S), NEW j
  PROVE  /\ IsList(s, S) => IsList(Unlisted(s, j), S)
         /\ \A k : Listed(s, k) /\ k # j => Listed(Unlisted(s, j), k)
<1>1. CASE Listed(s, j)
  <2>1. PICK i \in 1..Len(s) : s[i] = j /\ Unlisted(s, j) = DropAt(s, i)
    BY <1>1 DEF Listed, Unlisted
  <2> QED BY <2>1, DropAtKeeps
<1> QED BY <1>1 DEF Unlisted

-----------------------------------------------------------------------------
(* Type correctness.                                                       *)

\* The initial states are well typed.
LEMMA InitTyped == ASSUME Init PROVE TypeOK
<1> USE SizesAssumption, ProvidersAssumption, CapsAssumption
<1>1. nextId \in 1..(MaxJobs + 1)
  BY DEF Init
<1>2. pending \in Seq(Jobs) /\ Len(pending) = 0
  BY DEF Init
<1> QED BY <1>1, <1>2 DEF Init, TypeOK, RowsTyped, PendingTyped, IsList, SlotsTyped,
   SchedulerTyped,
           ThreadsTyped, ClientsTyped, IdleClient, FreeRunner, NoScan, Statuses,
           RunnerPCs, Signals, ClientPCs, NoRow

\* An UPDATE of one row to a known status keeps the table well typed.
LEMMA UpdateTyped ==
  ASSUME RowsTyped, NEW j \in Jobs, NEW s \in Statuses,
         Update(j, s), UNCHANGED <<nextId, limits>>
  PROVE  RowsTyped'
BY DEF RowsTyped, Update

\* So does a DELETE of one row.
LEMMA DeleteRowTyped ==
  ASSUME RowsTyped, NEW j \in Jobs, DeleteRow(j), UNCHANGED <<nextId, limits>>
  PROVE  RowsTyped'
BY DEF RowsTyped, DeleteRow

\* Every step keeps the database well typed: each writer writes a known status.
LEMMA RowsStep ==
  ASSUME TypeOK, [Next]_vars
  PROVE  RowsTyped'
<1> USE DEF TypeOK
<1> SUFFICES ASSUME ~UNCHANGED <<status, nextId, limits>>
             PROVE  RowsTyped'
  BY DEF RowsTyped
<1>1. ASSUME NEW j \in Jobs, BootRow(j) PROVE RowsTyped'
  BY <1>1, UpdateTyped, DeleteRowTyped DEF BootRow, Statuses
<1>2. ASSUME WriteRejected PROVE RowsTyped'
  BY <1>2, UpdateTyped DEF WriteRejected, SchedulerTyped, Statuses
<1>3. ASSUME NEW r \in Runners, RunnerStep(r) PROVE RowsTyped'
  <2>1. runner[r].pc # "free" => runner[r].job \in Jobs
    BY DEF ThreadsTyped
  <2>2. runner[r].pc = "stop" => runner[r].signal \in {"deleted", "paused", "canceled"}
    BY DEF ThreadsTyped, Signals
  <2> QED BY <1>3, <2>1, <2>2, UpdateTyped, DeleteRowTyped
         DEF RunnerStep, RunnerStart, RunnerBegin, RunnerCheck, HandlerEnds,
         RunnerFinish, RunnerExcept, RunnerFail, HandleControlStop, RunnerLeave,
         RunnerKeeps, dbVars, Statuses
<1>4. ASSUME NEW v \in verdicts, WatchdogPauses(v) PROVE RowsTyped'
  <2>1. v[2] \in Jobs
     BY DEF ThreadsTyped
  <2> QED BY <1>4, <2>1, UpdateTyped DEF WatchdogPauses, Statuses
<1>5. ASSUME NEW c \in Clients, NewRequest(c) PROVE RowsTyped'
  <2>1. ASSUME AddJob(c) PROVE RowsTyped'
    BY <2>1, SizesAssumption DEF AddJob, RowsTyped, ClientKeeps, Jobs, Statuses
  <2>2. ASSUME ClearHistory(c) PROVE RowsTyped'
    BY <2>2 DEF ClearHistory, RowsTyped, ClientKeeps
  <2>3. ASSUME SaveGlobalLimit(c) PROVE RowsTyped'
    BY <2>3 DEF SaveGlobalLimit, RowsTyped
  <2> QED BY <1>5, <2>1, <2>2, <2>3 DEF NewRequest, PauseRequest, ResumeRequest,
     RetryRequest, DeleteRequest, ClientKeeps
<1>6. ASSUME NEW c \in Clients, ClientStep(c) PROVE RowsTyped'
  <2>1. client[c].pc \notin {"idle", "saveProvider", "notify"} => client[c].job \in Jobs
    BY DEF ClientsTyped
  <2>2. ASSUME WriteControl(c) \/ Requeue(c) PROVE RowsTyped'
    BY <2>1, <2>2, UpdateTyped, DeleteRowTyped DEF WriteControl, Requeue,
        ClientKeeps, Statuses
  <2>3. ASSUME SaveProviderLimit(c) PROVE RowsTyped'
    BY <2>3 DEF SaveProviderLimit, RowsTyped
  <2> QED BY <1>6, <2>2, <2>3 DEF ClientStep, Enqueue, Unpend, NotifySettings,
     ClientKeeps
<1> QED BY <1>1, <1>2, <1>3, <1>4, <1>5, <1>6 DEF Next, BootStep, SchedulerStep,
   vars, dbVars, Restart, BootDone, Crash, RequestStop, NotifyStop, SchedulerQuits,
   SchedulerFull, SchedulerScans, ScanDrop, ScanReject, ScanSkip, ScanSelect,
   ScanEnd, WaitTimeout, ReturnReservation, Launch, CooldownElapses, WatchdogJudges

\* Every step keeps the pending list a list of jobs without repetitions.
LEMMA PendingStep ==
  ASSUME TypeOK, [Next]_vars
  PROVE  PendingTyped'
<1> USE DEF TypeOK
<1>1. IsList(pending, Jobs)
  BY DEF PendingTyped
<1>2. SUFFICES ASSUME pending' # pending
               PROVE  IsList(pending', Jobs)
  BY DEF PendingTyped
<1>3. ASSUME NEW j \in Jobs, BootRow(j) PROVE IsList(pending', Jobs)
  BY <1>1, <1>2, <1>3, EnlistedKeeps DEF IsList, BootRow
<1>4. ASSUME Crash PROVE IsList(pending', Jobs)
  BY <1>4 DEF Crash, IsList
<1>5. ASSUME NEW j \in Jobs, ScanDrop(j) \/ ScanReject(j) \/ ScanSelect(j)
      PROVE  IsList(pending', Jobs)
  <2>1. scan.index \in 1..Len(pending) /\ pending' = DropAt(pending, scan.index)
    BY <1>5 DEF ScanDrop, ScanReject, ScanSelect, At, SchedulerTyped, PendingTyped, IsList
  <2> QED BY <1>1, <2>1, DropAtKeeps DEF IsList
<1>6. ASSUME NEW c \in Clients, Enqueue(c) PROVE IsList(pending', Jobs)
  BY <1>1, <1>6, EnlistedKeeps DEF IsList, Enqueue, ClientsTyped
<1>7. ASSUME NEW c \in Clients, Unpend(c) PROVE IsList(pending', Jobs)
  BY <1>1, <1>7, UnlistedKeeps DEF IsList, Unpend
<1> QED BY <1>2, <1>3, <1>4, <1>5, <1>6, <1>7 DEF Next, BootStep, SchedulerStep,
   RunnerStep, NewRequest,
     ClientStep, vars, Restart, BootDone, RequestStop, NotifyStop, SchedulerQuits,
     SchedulerFull, SchedulerScans, ScanSkip,
     WriteRejected, ScanEnd, WaitTimeout, ReturnReservation, Launch,
     CooldownElapses, RunnerStart, RunnerBegin, RunnerCheck, HandlerEnds,
     RunnerFinish, RunnerExcept, RunnerFail, HandleControlStop, RunnerLeave,
     RunnerKeeps, WatchdogJudges, WatchdogPauses, AddJob, ClearHistory,
     SaveGlobalLimit, PauseRequest, ResumeRequest, RetryRequest, DeleteRequest,
     WriteControl, Requeue, SaveProviderLimit, NotifySettings, ClientKeeps

\* A counter never falls below zero.
LEMMA DecrementTyped == ASSUME NEW n \in Nat PROVE Decrement(n) \in Nat
BY DEF Decrement

\* Nor does the release of a slot make one.
LEMMA ReleaseTyped ==
  ASSUME SlotsTyped, NEW p, ReleaseSlot(p)
  PROVE  active' \in Nat /\ activeIn' \in [Providers -> Nat]
<1>1. \A q \in Providers : Decrement(activeIn[q]) \in Nat
  BY DecrementTyped DEF SlotsTyped
<1> QED BY <1>1, DecrementTyped DEF SlotsTyped, ReleaseSlot

\* Every step keeps the slot counters natural numbers.
LEMMA SlotsStep ==
  ASSUME TypeOK, [Next]_vars
  PROVE  SlotsTyped'
<1> USE DEF TypeOK
<1>1. SUFFICES ASSUME ~UNCHANGED slotVars
               PROVE  SlotsTyped'
  BY DEF SlotsTyped, slotVars
<1>2. ASSUME Crash PROVE SlotsTyped'
  BY <1>2 DEF Crash, SlotsTyped
<1>3. ASSUME NEW j \in Jobs, ScanSelect(j) PROVE SlotsTyped'
  BY <1>3 DEF ScanSelect, SlotsTyped, ReserveSlot
<1>4. ASSUME ReturnReservation PROVE SlotsTyped'
  BY <1>4, ReleaseTyped DEF ReturnReservation, SlotsTyped
<1>5. ASSUME NEW p \in Providers, CooldownElapses(p) PROVE SlotsTyped'
  BY <1>5 DEF CooldownElapses, SlotsTyped
<1>6. ASSUME NEW r \in Runners, RunnerLeave(r) PROVE SlotsTyped'
  <2>1. cooling' \in [Providers -> BOOLEAN]
    BY <1>6, ConfigAssumption DEF RunnerLeave, SlotsTyped
  <2> QED BY <1>6, <2>1, ReleaseTyped DEF RunnerLeave, SlotsTyped
<1>7. ASSUME NEW r \in Runners, RunnerStep(r) PROVE UNCHANGED slotVars \/ RunnerLeave(r)
  BY <1>7 DEF RunnerStep, RunnerStart, RunnerBegin, RunnerCheck, HandlerEnds,
     RunnerFinish, RunnerExcept, RunnerFail, HandleControlStop, RunnerKeeps
<1>8. ASSUME NEW c \in Clients, NewRequest(c) \/ ClientStep(c) PROVE UNCHANGED slotVars
  BY <1>8 DEF NewRequest, ClientStep, AddJob, ClearHistory, SaveGlobalLimit,
     PauseRequest, ResumeRequest, RetryRequest, DeleteRequest, Enqueue, Unpend,
     WriteControl, Requeue, SaveProviderLimit, NotifySettings, ClientKeeps
<1>9. ASSUME SchedulerStep
      PROVE  UNCHANGED slotVars \/ ReturnReservation \/ \E j \in Jobs : ScanSelect(j)
  BY <1>9 DEF SchedulerStep, SchedulerQuits, SchedulerFull, SchedulerScans, ScanDrop,
     ScanReject, ScanSkip, WriteRejected, ScanEnd, WaitTimeout, Launch
<1> QED BY <1>1, <1>2, <1>3, <1>4, <1>5, <1>6, <1>7, <1>8, <1>9 DEF Next, BootStep, vars,
   slotVars, Restart, BootRow, BootDone, RequestStop, NotifyStop, WatchdogJudges,
   WatchdogPauses

\* A thread that moves on, other than into a stop, stays well typed.
LEMMA GotoTyped ==
  ASSUME ThreadsTyped, NEW r \in Runners, runner[r].pc \notin {"free", "stop"},
         NEW pc \in RunnerPCs \ {"free", "stop"}, Goto(r, pc), UNCHANGED verdicts
  PROVE  ThreadsTyped'
BY DEF ThreadsTyped, Goto

\* So does a thread that enters its finally clause.
LEMMA GotoLeaveTyped ==
  ASSUME ThreadsTyped, NEW r \in Runners, runner[r].pc # "free",
         GotoLeave(r), UNCHANGED verdicts
  PROVE  ThreadsTyped'
BY DEF ThreadsTyped, GotoLeave, RunnerPCs, Signals

\* check_job_control raises one of the three stops, or nothing.
LEMMA SignalTyped == ASSUME NEW s PROVE ControlSignal(s) \in Signals
BY DEF ControlSignal, Signals

\* A thread in which JobControlStop was raised stays well typed.
LEMMA StopsTyped ==
  ASSUME ThreadsTyped, NEW r \in Runners, runner[r].pc # "free",
         NEW signal \in Signals \ {"none"}, GotoStop(r, signal), UNCHANGED verdicts
  PROVE  ThreadsTyped'
BY DEF ThreadsTyped, GotoStop, RunnerPCs

\* Every step keeps the threads and the watchdogs' verdicts well typed.
LEMMA ThreadsStep ==
  ASSUME TypeOK, [Next]_vars
  PROVE  ThreadsTyped'
<1> USE DEF TypeOK
<1>1. SUFFICES ASSUME ~UNCHANGED threadVars
               PROVE  ThreadsTyped'
  BY DEF ThreadsTyped, threadVars
<1>2. ASSUME Crash PROVE ThreadsTyped'
  BY <1>2 DEF Crash, ThreadsTyped, FreeRunner, RunnerPCs, Signals
<1>3. ASSUME NEW r \in Runners, Launch(r) PROVE ThreadsTyped'
  <2>1. chosen \in Jobs /\ chosen # NoJob
    BY <1>3 DEF Launch, SchedulerTyped, Jobs, NoJob
  <2> QED BY <1>3, <2>1 DEF Launch, ThreadsTyped, RunnerPCs, Signals
<1>4. ASSUME NEW r \in Runners, RunnerStep(r) PROVE ThreadsTyped'
  <2>1. ASSUME RunnerStart(r) PROVE ThreadsTyped'
    BY <2>1, GotoTyped, GotoLeaveTyped DEF RunnerStart, RunnerKeeps, RunnerPCs
  <2>2. ASSUME RunnerBegin(r) PROVE ThreadsTyped'
    BY <2>2, GotoTyped DEF RunnerBegin, RunnerKeeps, RunnerPCs
  <2>3. ASSUME RunnerCheck(r) PROVE ThreadsTyped'
    BY <2>3, GotoTyped, StopsTyped, SignalTyped DEF RunnerCheck, RunnerKeeps,
        RunnerPCs
  <2>4. ASSUME HandlerEnds(r) PROVE ThreadsTyped'
    BY <2>4, GotoTyped DEF HandlerEnds, RunnerKeeps, RunnerPCs
  <2>5. ASSUME RunnerExcept(r) PROVE ThreadsTyped'
    <3> DEFINE row == status[runner[r].job]
               request == IF row = NoRow THEN "none" ELSE ControlSignal(row)
    <3>1. request \in Signals
      BY SignalTyped DEF Signals
    <3>2. /\ runner[r].pc = "except"
          /\ UNCHANGED verdicts
          /\ (request # "none" /\ GotoStop(r, request)) \/ Goto(r, "fail")
      BY <2>5 DEF RunnerExcept, RunnerKeeps
    <3> HIDE DEF request
    <3> QED BY <3>1, <3>2, GotoTyped, StopsTyped DEF RunnerPCs
  <2>6. ASSUME RunnerFinish(r) \/ RunnerFail(r) \/ HandleControlStop(r) PROVE ThreadsTyped'
    BY <2>6, GotoLeaveTyped DEF RunnerFinish, RunnerFail, HandleControlStop,
        RunnerKeeps
  <2>7. ASSUME RunnerLeave(r) PROVE ThreadsTyped'
    BY <2>7 DEF RunnerLeave, ThreadsTyped, FreeRunner, RunnerPCs, Signals
  <2> QED BY <1>4, <2>1, <2>2, <2>3, <2>4, <2>5, <2>6, <2>7 DEF RunnerStep
<1>5. ASSUME NEW r \in Runners, WatchdogJudges(r) PROVE ThreadsTyped'
  <2>1. runner[r].job \in Jobs
    BY <1>5 DEF WatchdogJudges, ThreadsTyped, FreeRunner
  <2> QED BY <1>5, <2>1 DEF WatchdogJudges, ThreadsTyped, FreeRunner
<1>6. ASSUME NEW v \in verdicts, WatchdogPauses(v) PROVE ThreadsTyped'
  BY <1>6 DEF WatchdogPauses, ThreadsTyped
<1> QED BY <1>1, <1>2, <1>3, <1>4, <1>5, <1>6 DEF threadVars, Next, BootStep,
   SchedulerStep, NewRequest,
     ClientStep, vars, Restart, BootRow, BootDone, RequestStop, NotifyStop,
     SchedulerQuits, SchedulerFull, SchedulerScans, ScanDrop, ScanReject, ScanSkip,
     ScanSelect,
     WriteRejected, ScanEnd, WaitTimeout, ReturnReservation, CooldownElapses,
     AddJob, ClearHistory, SaveGlobalLimit, PauseRequest, ResumeRequest,
     RetryRequest, DeleteRequest, Enqueue, Unpend, WriteControl, Requeue,
     SaveProviderLimit, NotifySettings, ClientKeeps

\* notify_all moves the scheduler from one legal state to another.
LEMMA NotifyTyped ==
  ASSUME SchedulerTyped, Notify, UNCHANGED <<scan, chosen, boot, stopping>>
  PROVE  SchedulerTyped'
BY DEF SchedulerTyped, Notify

\* The scheduler's own steps keep its state well typed.
LEMMA SchedulerStepTyped ==
  ASSUME TypeOK, SchedulerStep
  PROVE  SchedulerTyped'
<1> USE DEF TypeOK
<1>1. CASE SchedulerQuits \/ SchedulerFull \/ ScanEnd \/ WaitTimeout
  BY <1>1 DEF SchedulerTyped, SchedulerQuits, SchedulerFull, ScanEnd, WaitTimeout,
      NoScan
<1>2. CASE SchedulerScans
  BY <1>2 DEF SchedulerTyped, SchedulerScans, RowsTyped, ProviderLimits
<1>3. ASSUME NEW j \in Jobs, ScanDrop(j) PROVE SchedulerTyped'
  BY <1>3 DEF SchedulerTyped, ScanDrop, schedVars
<1>4. ASSUME NEW j \in Jobs, ScanReject(j) PROVE SchedulerTyped'
  BY <1>4 DEF SchedulerTyped, ScanReject
<1>5. ASSUME NEW j \in Jobs, ScanSkip(j) PROVE SchedulerTyped'
  <2>1. ProviderOf[j] \in Providers
    BY ProvidersAssumption
  <2>2. scan' \in [index : Nat \ {0}, limit : Nat, cooling : SUBSET Providers]
    <3>1. CASE scan' = [scan EXCEPT !.index = @ + 1]
      BY <3>1 DEF SchedulerTyped
    <3>2. CASE scan' = [scan EXCEPT !.index = @ + 1, !.cooling = @ \cup {ProviderOf[j]}]
      <4>1. scan' = [index |-> scan.index + 1, limit |-> scan.limit,
                     cooling |-> scan.cooling \cup {ProviderOf[j]}]
        BY <3>2 DEF SchedulerTyped
      <4> QED BY <4>1, <2>1 DEF SchedulerTyped
    <3> QED BY <1>5, <3>1, <3>2 DEF ScanSkip
  <2> QED BY <1>5, <2>2 DEF SchedulerTyped, ScanSkip
<1>6. ASSUME NEW j \in Jobs, ScanSelect(j) PROVE SchedulerTyped'
  BY <1>6 DEF SchedulerTyped, ScanSelect, At, NoScan
<1>7. CASE WriteRejected \/ ReturnReservation
  BY <1>7 DEF SchedulerTyped, WriteRejected, ReturnReservation
<1>8. ASSUME NEW r \in Runners, Launch(r) PROVE SchedulerTyped'
  BY <1>8 DEF SchedulerTyped, Launch
<1> QED BY <1>1, <1>2, <1>3, <1>4, <1>5, <1>6, <1>7, <1>8 DEF SchedulerStep

\* Every step keeps the scheduler's state well typed.
LEMMA SchedulerPartStep ==
  ASSUME TypeOK, [Next]_vars
  PROVE  SchedulerTyped'
<1> USE DEF TypeOK
<1>1. SUFFICES ASSUME ~UNCHANGED <<sched, scan, chosen, boot, stopping>>
               PROVE  SchedulerTyped'
  BY DEF SchedulerTyped
<1>2. ASSUME Restart \/ BootDone \/ Crash \/ RequestStop PROVE SchedulerTyped'
  <2>1. CASE Restart
    BY <2>1 DEF SchedulerTyped, Restart, Resumable, Rows
  <2>2. CASE BootDone
    BY <2>2 DEF SchedulerTyped, BootDone
  <2>3. CASE Crash
    BY <2>3 DEF SchedulerTyped, Crash, NoScan
  <2>4. CASE RequestStop
    BY <2>4 DEF SchedulerTyped, RequestStop, schedVars
  <2> QED BY <1>2, <2>1, <2>2, <2>3, <2>4
<1>3. ASSUME NEW j \in Jobs, BootRow(j) PROVE SchedulerTyped'
  BY <1>3 DEF SchedulerTyped, BootRow, schedVars
<1>4. ASSUME NotifyStop PROVE SchedulerTyped'
  BY <1>4 DEF NotifyStop, Notify, SchedulerTyped
<1>5. CASE SchedulerStep
  BY <1>5, SchedulerStepTyped
<1>6. ASSUME NEW r \in Runners, RunnerLeave(r) PROVE SchedulerTyped'
  BY <1>6, NotifyTyped DEF RunnerLeave
<1>7. ASSUME NEW c \in Clients, Enqueue(c) \/ Unpend(c) \/ NotifySettings(c) PROVE SchedulerTyped'
  BY <1>7, NotifyTyped DEF Enqueue, Unpend, NotifySettings, ClientKeeps
<1> QED BY <1>1, <1>2, <1>3, <1>4, <1>5, <1>6, <1>7 DEF schedVars, Next, BootStep,
   NewRequest,
     ClientStep, RunnerStep, vars, CooldownElapses, RunnerStart, RunnerBegin,
     RunnerCheck, HandlerEnds, RunnerFinish, RunnerExcept, RunnerFail,
     HandleControlStop, RunnerKeeps, WatchdogJudges, WatchdogPauses, AddJob,
     ClearHistory, SaveGlobalLimit, PauseRequest, ResumeRequest, RetryRequest,
     DeleteRequest, WriteControl, Requeue, SaveProviderLimit, ClientKeeps

\* A request that goes on to a step that needs a job has one.
LEMMA ClientAtTyped ==
  ASSUME ClientsTyped, NEW c \in Clients, NEW pc \in ClientPCs \ {"idle",
  "saveProvider", "notify"},
         NEW j \in Jobs, ClientAt(c, pc, j)
  PROVE  ClientsTyped'
BY DEF ClientsTyped, ClientAt, Jobs, NoJob

\* A request that ends lets go of its job.
LEMMA ClientDoneTyped ==
  ASSUME ClientsTyped, NEW c \in Clients, ClientDone(c)
  PROVE  ClientsTyped'
BY DEF ClientsTyped, ClientDone, IdleClient, ClientPCs

\* Every step keeps the requests well typed.
LEMMA ClientsStep ==
  ASSUME TypeOK, [Next]_vars
  PROVE  ClientsTyped'
<1> USE DEF TypeOK
<1>1. SUFFICES ASSUME ~UNCHANGED client
               PROVE  ClientsTyped'
  BY DEF ClientsTyped
<1>2. ASSUME Crash PROVE ClientsTyped'
  BY <1>2 DEF Crash, ClientsTyped, IdleClient, ClientPCs
<1>3. ASSUME NEW c \in Clients, NewRequest(c) PROVE ClientsTyped'
  <2>1. ASSUME AddJob(c) PROVE ClientsTyped'
    <3>1. nextId \in Jobs
      BY <2>1, SizesAssumption DEF AddJob, RowsTyped, Jobs
    <3> QED BY <2>1, <3>1, ClientAtTyped DEF AddJob, ClientPCs
  <2>2. ASSUME SaveGlobalLimit(c) PROVE ClientsTyped'
    BY <2>2 DEF SaveGlobalLimit, ClientAt, ClientsTyped, ClientPCs
  <2>3. ASSUME NEW j \in Jobs, PauseRequest(c, j) \/ ResumeRequest(c, j) \/
     RetryRequest(c, j) \/ DeleteRequest(c, j)
        PROVE ClientsTyped'
    BY <2>3, ClientAtTyped DEF PauseRequest, ResumeRequest, RetryRequest,
        DeleteRequest, ClientPCs
  <2> QED BY <1>1, <1>3, <2>1, <2>2, <2>3 DEF NewRequest, ClearHistory
<1>4. ASSUME NEW c \in Clients, ClientStep(c) PROVE ClientsTyped'
  <2>1. client[c].pc \notin {"idle", "saveProvider", "notify"} => client[c].job \in Jobs
    BY DEF ClientsTyped
  <2>2. ASSUME SaveProviderLimit(c) PROVE ClientsTyped'
    BY <2>2 DEF SaveProviderLimit, ClientAt, ClientsTyped, ClientPCs
  <2>3. ASSUME Enqueue(c) \/ WriteControl(c) \/ NotifySettings(c) PROVE ClientsTyped'
    BY <2>3, ClientDoneTyped DEF Enqueue, WriteControl, NotifySettings
  <2>4. ASSUME Unpend(c) \/ Requeue(c) PROVE ClientsTyped'
    BY <2>1, <2>4, ClientAtTyped DEF Unpend, Requeue, ClientPCs
  <2> QED BY <1>4, <2>2, <2>3, <2>4 DEF ClientStep
<1> QED BY <1>1, <1>2, <1>3, <1>4 DEF Next, BootStep, SchedulerStep, RunnerStep,
   vars, Restart, BootRow, BootDone, RequestStop, NotifyStop, SchedulerQuits,
   SchedulerFull, SchedulerScans, ScanDrop, ScanReject, ScanSkip, ScanSelect,
     WriteRejected, ScanEnd, WaitTimeout, ReturnReservation, Launch,
     CooldownElapses, RunnerStart, RunnerBegin, RunnerCheck, HandlerEnds,
     RunnerFinish, RunnerExcept, RunnerFail, HandleControlStop, RunnerLeave,
     RunnerKeeps, WatchdogJudges, WatchdogPauses

\* TypeOK is inductive, so it holds in every state of every behaviour: no row
\* has a status the program does not know, no id is enqueued twice, no slot
\* counter goes below zero, no thread and no request loses its job.
THEOREM Typing == Spec => []TypeOK
<1>1. Init => TypeOK
  BY InitTyped
<1>2. TypeOK /\ [Next]_vars => TypeOK'
  BY RowsStep, PendingStep, SlotsStep, SchedulerPartStep, ThreadsStep, ClientsStep
      DEF TypeOK
<1> QED BY <1>1, <1>2, PTL DEF Spec

-----------------------------------------------------------------------------
(* No job is forgotten in mid-course, and a restart settles the table.     *)

(* Before the scheduler runs there is no thread, no watchdog, no request.  *)
BootIsAlone ==
  sched \in {"down", "boot"} =>
    /\ \A r \in Runners : runner[r] = FreeRunner
    /\ \A c \in Clients : client[c] = IdleClient
    /\ verdicts = {}

Settled(j) == /\ status[j] \notin {"running", "pausing", "canceling", "deleting"}
              /\ status[j] = "queued" => Listed(pending, j)

(* enqueue_existing_jobs has settled the rows it has visited.              *)
VisitedIsSettled == sched = "boot" => \A j \in Jobs \ boot : Settled(j)

OwnerInv == BootIsAlone /\ VisitedIsSettled /\ StatusHasOwner

\* The initial states have no scheduler.
LEMMA OwnerInit == ASSUME Init PROVE OwnerInv
BY DEF Init, OwnerInv, BootIsAlone, VisitedIsSettled, StatusHasOwner, RunningHasRunner,
   QueuedIsOwned

\* While the scheduler is not there, little happens.
LEMMA AloneSteps ==
  ASSUME TypeOK, BootIsAlone, [Next]_vars, sched \in {"down", "boot"}
  PROVE  \/ Restart \/ BootStep \/ Crash \/ NotifyStop \/ UNCHANGED vars
         \/ \E p \in Providers : CooldownElapses(p)
<1>1. ~\E r \in Runners : RunnerStep(r) \/ WatchdogJudges(r)
  BY DEF BootIsAlone, FreeRunner, RunnerStep, RunnerStart, RunnerBegin, RunnerCheck, HandlerEnds,
     RunnerFinish, RunnerExcept, RunnerFail, HandleControlStop, RunnerLeave, WatchdogJudges
<1>2. ~\E c \in Clients : NewRequest(c)
  <2>1. \A c \in Clients : \A op : ~Serving(c, op)
    BY DEF Serving
  <2> QED BY <2>1 DEF NewRequest, AddJob, ClearHistory, SaveGlobalLimit, PauseRequest,
     ResumeRequest, RetryRequest, DeleteRequest
<1>3. ~\E c \in Clients : ClientStep(c)
  BY DEF BootIsAlone, IdleClient, ClientStep, Enqueue, Unpend, WriteControl, Requeue,
     SaveProviderLimit, NotifySettings
<1>4. ~SchedulerStep /\ ~RequestStop
  BY DEF SchedulerStep, SchedulerQuits, SchedulerFull, SchedulerScans, ScanDrop, ScanReject,
     ScanSkip, ScanSelect, At, WriteRejected, ScanEnd, WaitTimeout, ReturnReservation, Launch,
     RequestStop
<1>5. ~\E v \in verdicts : WatchdogPauses(v)
  BY DEF BootIsAlone
<1> QED BY <1>1, <1>2, <1>3, <1>4, <1>5 DEF Next

\* What a request leaves alone.
LEMMA RequestsAside ==
  ASSUME NEW c \in Clients, NewRequest(c) \/ ClientStep(c)
  PROVE  /\ runner' = runner /\ chosen' = chosen /\ boot' = boot
         /\ sched' = sched \/ (sched = "wait" /\ sched' = "ready")
BY DEF NewRequest, AddJob, ClearHistory, SaveGlobalLimit, PauseRequest, ResumeRequest,
   RetryRequest, DeleteRequest, ClientStep, Enqueue, Unpend, WriteControl, Requeue,
   SaveProviderLimit, NotifySettings, Notify, ClientKeeps, schedVars, threadVars

\* What a thread leaves alone.
LEMMA RunnersAside ==
  ASSUME NEW r \in Runners, RunnerStep(r)
  PROVE  /\ pending' = pending /\ client' = client /\ chosen' = chosen /\ boot' = boot
         /\ sched' = sched \/ (sched = "wait" /\ sched' = "ready")
BY DEF RunnerStep, RunnerStart, RunnerBegin, RunnerCheck, HandlerEnds, RunnerFinish, RunnerExcept,
   RunnerFail, HandleControlStop, RunnerLeave, RunnerKeeps, Notify, schedVars

\* A running program does not go back to its start without a crash, nor does
\* a scheduler that has exited run again.
LEMMA UpSteps ==
  ASSUME TypeOK, [Next]_vars, sched \notin {"down", "boot"}
  PROVE  \/ Crash
         \/ /\ sched' \notin {"down", "boot"} /\ ~Restart /\ ~BootStep
            /\ sched = "exited" => sched' = "exited"
<1>1. ~Restart /\ ~BootStep
  BY DEF Restart, BootStep, BootRow, BootDone
<1>2. ASSUME SchedulerStep PROVE sched' \notin {"down", "boot"} /\ sched # "exited"
  BY <1>2 DEF SchedulerStep, SchedulerQuits, SchedulerFull, SchedulerScans, ScanDrop, ScanReject,
     ScanSkip, ScanSelect, At, WriteRejected, ScanEnd, WaitTimeout, ReturnReservation, Launch,
     schedVars
<1> QED BY <1>1, <1>2, RequestsAside, RunnersAside DEF Next, RequestStop, NotifyStop, Notify,
   CooldownElapses, WatchdogJudges, WatchdogPauses, vars, schedVars

\* Before the scheduler runs there is no thread, no watchdog, no request.
LEMMA AloneStep ==
  ASSUME TypeOK, BootIsAlone, [Next]_vars
  PROVE  BootIsAlone'
<1>1. CASE Crash
  BY <1>1 DEF Crash, BootIsAlone
<1>2. CASE sched \in {"down", "boot"} /\ ~Crash
  BY <1>2, AloneSteps DEF BootIsAlone, Restart, BootStep, BootRow, BootDone, NotifyStop, Notify,
     CooldownElapses, vars, threadVars
<1>3. CASE sched \notin {"down", "boot"} /\ ~Crash
  BY <1>3, UpSteps DEF BootIsAlone
<1> QED BY <1>1, <1>2, <1>3

\* When the table is no longer than the limit, a restart looks at every row.
LEMMA AllResumable ==
  ASSUME MaxJobs <= ResumeLimit
  PROVE  Resumable = Rows
<1> SUFFICES ASSUME NEW j \in Jobs
             PROVE  Cardinality({k \in Rows : k > j}) < ResumeLimit
  BY DEF Resumable, Rows
<1>1. IsFiniteSet(Jobs) /\ Cardinality(Jobs) = MaxJobs
  BY SizesAssumption, FS_Interval DEF Jobs
<1>2. IsFiniteSet(Jobs \ {j}) /\ Cardinality(Jobs \ {j}) = MaxJobs - 1
  BY <1>1, FS_RemoveElement
<1>3. {k \in Rows : k > j} \subseteq Jobs \ {j}
  BY DEF Rows, Jobs
<1>4. Cardinality({k \in Rows : k > j}) <= MaxJobs - 1 /\ Cardinality({k \in Rows : k > j}) \in Nat
  BY <1>2, <1>3, FS_Subset, FS_CardinalityType
<1> QED BY <1>4, SizesAssumption

\* A restart settles one row after the other.
LEMMA SettledStep ==
  ASSUME MaxJobs <= ResumeLimit, TypeOK, BootIsAlone, VisitedIsSettled, [Next]_vars
  PROVE  VisitedIsSettled'
<1> SUFFICES ASSUME sched' = "boot", NEW j \in Jobs, j \notin boot'
             PROVE  Settled(j)'
  BY DEF VisitedIsSettled
<1>1. sched \in {"down", "boot"} /\ ~Crash /\ ~BootDone
  BY UpSteps DEF Crash, BootDone
<1>2. CASE Restart
  BY <1>2, AllResumable DEF Restart, Rows, Settled, dbVars, NoRow
<1>3. ASSUME NEW k \in Jobs, BootRow(k) PROVE Settled(j)'
  <2>1. boot' = boot \ {k} /\ pending \in Seq(Jobs) /\ status \in [Jobs -> Statuses \cup {NoRow}]
    BY <1>3 DEF BootRow, TypeOK, PendingTyped, IsList, RowsTyped
  <2>2. CASE j = k
    BY <1>3, <2>1, <2>2, EnlistedKeeps DEF BootRow, Settled, Update, DeleteRow, NoRow
  <2>3. CASE j # k
    <3>1. Settled(j)
      BY <1>1, <1>3, <2>1, <2>3 DEF VisitedIsSettled, BootRow
    <3>2. status'[j] = status[j]
      BY <1>3, <2>1, <2>3 DEF BootRow, Update, DeleteRow
    <3>3. Listed(pending, j) => Listed(pending', j)
      BY <1>3, <2>1, EnlistedKeeps DEF BootRow
    <3> QED BY <3>1, <3>2, <3>3 DEF Settled
  <2> QED BY <2>2, <2>3
<1>4. CASE NotifyStop \/ UNCHANGED vars \/ \E p \in Providers : CooldownElapses(p)
  BY <1>1, <1>4 DEF NotifyStop, Notify, CooldownElapses, vars, schedVars, dbVars, VisitedIsSettled,
     Settled
<1> QED BY <1>1, <1>2, <1>3, <1>4, AloneSteps DEF BootStep

\* What a step of a thread does to the thread and to its row: it leaves the
\* job only with a row that is neither running nor queued.
LEMMA RunnerStepsWrite ==
  ASSUME TypeOK, NEW r \in Runners, RunnerStep(r)
  PROVE  LET j == runner[r].job
         IN  /\ j \in Jobs
             /\ \A q \in Runners \ {r} : runner'[q] = runner[q]
             /\ \A k \in Jobs \ {j} : status'[k] = status[k]
             /\ \/ runner'[r].job = j /\ runner'[r].pc \notin {"free", "start", "leave"}
                \/ runner[r].pc \in {"start", "leave"} /\ status' = status
                \/ status'[j] # "running"
             /\ \/ runner'[r].job = j /\ runner'[r].pc \notin {"free", "leave"}
                \/ runner[r].pc = "leave" /\ status' = status
                \/ status'[j] # "queued"
<1> DEFINE j == runner[r].job
<1> USE DEF TypeOK, RowsTyped, ThreadsTyped
<1>1. runner[r].pc # "free"
  BY DEF RunnerStep, RunnerStart, RunnerBegin, RunnerCheck, HandlerEnds,
     RunnerFinish, RunnerExcept, RunnerFail, HandleControlStop, RunnerLeave
<1>2. j \in Jobs
  BY <1>1
<1>3. \A q \in Runners \ {r} : runner'[q] = runner[q]
  BY DEF RunnerStep, RunnerStart, RunnerBegin, RunnerCheck, HandlerEnds, RunnerFinish,
     RunnerExcept, RunnerFail, HandleControlStop, RunnerLeave, Goto, GotoLeave, GotoStop
<1>4. \A k \in Jobs \ {j} : status'[k] = status[k]
  BY DEF RunnerStep, RunnerStart, RunnerBegin, RunnerCheck, HandlerEnds,
     RunnerFinish, RunnerExcept, RunnerFail, HandleControlStop, RunnerLeave, Update, DeleteRow,
     dbVars
<1>5. /\ \/ runner'[r].job = j /\ runner'[r].pc \notin {"free", "start", "leave"}
         \/ runner[r].pc \in {"start", "leave"} /\ status' = status
         \/ status'[j] # "running"
      /\ \/ runner'[r].job = j /\ runner'[r].pc \notin {"free", "leave"}
         \/ runner[r].pc = "leave" /\ status' = status
         \/ status'[j] # "queued"
  <2> USE <1>2 DEF RunnerPCs
  <2>1. CASE RunnerStart(r)
    BY <2>1 DEF RunnerStart, Goto
  <2>2. CASE RunnerBegin(r)
    BY <2>2 DEF RunnerBegin, Goto, Update, NoRow
  <2>3. CASE RunnerCheck(r)
    BY <2>3 DEF RunnerCheck, Goto, GotoStop
  <2>4. CASE HandlerEnds(r)
    BY <2>4 DEF HandlerEnds, Goto
  <2>5. CASE RunnerFinish(r) \/ RunnerFail(r)
    BY <2>5 DEF RunnerFinish, RunnerFail, GotoLeave, Update, NoRow
  <2>6. CASE RunnerExcept(r)
    BY <2>6 DEF RunnerExcept, Goto, GotoStop
  <2>7. CASE HandleControlStop(r)
    BY <2>7 DEF HandleControlStop, GotoLeave, Update, DeleteRow, NoRow, Signals
  <2>8. CASE RunnerLeave(r)
    BY <2>8 DEF RunnerLeave, FreeRunner, dbVars
  <2> QED BY <2>1, <2>2, <2>3, <2>4, <2>5, <2>6, <2>7, <2>8 DEF RunnerStep
<1> QED BY <1>2, <1>3, <1>4, <1>5

\* Nobody but a thread writes "running", and the judgement of a watchdog moves
\* no thread.
LEMMA AsideSteps ==
  ASSUME TypeOK, [Next]_vars,
         ~\E r \in Runners : Launch(r) \/ RunnerStep(r), ~Crash, ~Restart, ~BootStep
  PROVE  /\ \A r \in Runners : runner'[r].job = runner[r].job /\ runner'[r].pc = runner[r].pc
         /\ \A j \in Jobs : status'[j] = "running" => status[j] = "running"
<1> USE DEF TypeOK, RowsTyped, ThreadsTyped
<1> DEFINE Aside == /\ \A r \in Runners : runner'[r].job = runner[r].job /\ runner'[r].pc = runner[r].pc
                    /\ \A j \in Jobs : status'[j] = "running" => status[j] = "running"
<1>1. CASE RequestStop \/ NotifyStop \/ UNCHANGED vars \/ \E p \in Providers : CooldownElapses(p)
  BY <1>1 DEF RequestStop, NotifyStop, CooldownElapses, vars, dbVars, threadVars
<1>2. CASE SchedulerStep
  <2>1. CASE WriteRejected
    BY <2>1 DEF WriteRejected, Update, threadVars, NoRow
  <2> QED BY <1>2, <2>1 DEF SchedulerStep, SchedulerQuits, SchedulerFull, SchedulerScans, ScanDrop,
      ScanReject, ScanSkip, ScanSelect, ScanEnd, WaitTimeout, ReturnReservation, dbVars, threadVars
<1>3. ASSUME NEW r \in Runners, WatchdogJudges(r) PROVE Aside
  BY <1>3 DEF WatchdogJudges, dbVars
<1>4. ASSUME NEW v \in verdicts, WatchdogPauses(v) PROVE Aside
  BY <1>4 DEF WatchdogPauses, Update, NoRow
<1>5. ASSUME NEW c \in Clients, NewRequest(c) \/ ClientStep(c) PROVE Aside
  <2>1. \A j \in Jobs : status'[j] = "running" => status[j] = "running"
    BY <1>5 DEF NewRequest, AddJob, ClearHistory, SaveGlobalLimit, PauseRequest, ResumeRequest,
       RetryRequest, DeleteRequest, ClientStep, Enqueue, Unpend, WriteControl, Requeue,
       SaveProviderLimit, NotifySettings, Update, DeleteRow, NoRow
  <2> QED BY <1>5, <2>1, RequestsAside
<1> QED BY <1>1, <1>2, <1>3, <1>4, <1>5 DEF Next

\* A row says "running" only while a thread works on it, also when two threads
\* share the job.
LEMMA RunningStep ==
  ASSUME TypeOK, BootIsAlone, VisitedIsSettled, RunningHasRunner, [Next]_vars
  PROVE  RunningHasRunner'
<1> DEFINE WorkedOn(j) == \E r \in Runners : /\ runner[r].job = j
                                             /\ runner[r].pc \notin {"free", "start", "leave"}
<1>1. RunningHasRunner <=>
        (sched \notin {"down", "boot"} => \A j \in Jobs : status[j] = "running" => WorkedOn(j))
  BY DEF RunningHasRunner, Live
<1>2. SUFFICES ASSUME sched' \notin {"down", "boot"}, NEW j \in Jobs, status'[j] = "running"
               PROVE  WorkedOn(j)'
  BY DEF RunningHasRunner, Live
<1>3. CASE sched \in {"down", "boot"}
  <2>1. BootDone
    BY <1>2, <1>3, AloneSteps DEF Restart, BootStep, BootRow, Crash, NotifyStop, Notify,
       CooldownElapses, vars, schedVars
  <2> QED BY <1>2, <2>1 DEF BootDone, VisitedIsSettled, Settled, dbVars
<1>4. CASE sched \notin {"down", "boot"}
  <2>1. ~Crash /\ ~Restart /\ ~BootStep
    BY <1>2, <1>4, UpSteps DEF Crash
  <2>2. status[j] = "running" => WorkedOn(j)
    BY <1>1, <1>4
  <2>3. ASSUME NEW r \in Runners, Launch(r) PROVE WorkedOn(j)'
    <3>1. status[j] = "running" /\ runner[r].pc = "free"
          /\ \A q \in Runners \ {r} : runner'[q] = runner[q]
      BY <1>2, <2>3 DEF Launch, dbVars
    <3> QED BY <2>2, <3>1
  <2>4. ASSUME NEW r \in Runners, RunnerStep(r) PROVE WorkedOn(j)'
    <3>1. CASE runner'[r].job = j /\ runner'[r].pc \notin {"free", "start", "leave"}
      BY <3>1
    <3>2. CASE ~(runner'[r].job = j /\ runner'[r].pc \notin {"free", "start", "leave"})
      <4>1. status[j] = "running" /\ (runner[r].job = j => runner[r].pc \in {"start", "leave"})
        BY <1>2, <2>4, <3>2, RunnerStepsWrite
      <4>2. PICK q \in Runners : runner[q].job = j /\ runner[q].pc \notin {"free", "start", "leave"}
        BY <2>2, <4>1
      <4>3. q # r /\ runner'[q] = runner[q]
        BY <2>4, <4>1, <4>2, RunnerStepsWrite
      <4> QED BY <4>2, <4>3
    <3> QED BY <3>1, <3>2
  <2>5. CASE ~\E r \in Runners : Launch(r) \/ RunnerStep(r)
    BY <1>2, <2>1, <2>2, <2>5, AsideSteps
  <2> QED BY <2>3, <2>4, <2>5
<1> QED BY <1>3, <1>4

\* A request queues a row that it is going to enqueue, and leaves no queued job
\* before it is listed.
LEMMA RequestsCarry ==
  ASSUME TypeOK, NEW c \in Clients, NEW j \in Jobs, NewRequest(c) \/ ClientStep(c),
         status'[j] = "queued"
  PROVE  /\ status[j] = "queued" \/ client'[c].job = j
         /\ \A d \in Clients \ {c} : client'[d] = client[d]
         /\ client[c].job = j => client'[c].job = j \/ Listed(pending', j)
         /\ Listed(pending, j) => Listed(pending', j) \/ client'[c].job = j
<1> DEFINE Kept == /\ status[j] = "queued" \/ client'[c].job = j
                   /\ \A d \in Clients \ {c} : client'[d] = client[d]
                   /\ client[c].job = j => client'[c].job = j \/ Listed(pending', j)
                   /\ Listed(pending, j) => Listed(pending', j) \/ client'[c].job = j
<1>t. /\ status \in [Jobs -> Statuses \cup {NoRow}] /\ pending \in Seq(Jobs)
      /\ client \in [Clients -> [pc : ClientPCs, job : Jobs \cup {NoJob}]]
      /\ client[c].pc \in {"idle", "saveProvider", "notify"} <=> client[c].job = NoJob
      /\ j # NoJob
  BY DEF TypeOK, RowsTyped, PendingTyped, IsList, ClientsTyped, Jobs, NoJob
<1>1. CASE AddJob(c) \/ ClearHistory(c) \/ SaveGlobalLimit(c)
  BY <1>1, <1>t DEF AddJob, ClearHistory, SaveGlobalLimit, Serving, ClientAt, NoRow
<1>2. ASSUME NEW k \in Jobs, \/ PauseRequest(c, k) \/ ResumeRequest(c, k)
                             \/ RetryRequest(c, k) \/ DeleteRequest(c, k)
      PROVE  Kept
  BY <1>2, <1>t DEF PauseRequest, ResumeRequest, RetryRequest, DeleteRequest, Serving, ClientAt
<1>3. CASE Enqueue(c)
  <2>1. client[c].job \in Jobs /\ pending' = Enlisted(pending, client[c].job) /\ status' = status
        /\ \A d \in Clients \ {c} : client'[d] = client[d]
    BY <1>3, <1>t DEF Enqueue, ClientDone
  <2> QED BY <1>t, <2>1, EnlistedKeeps
<1>4. CASE Unpend(c)
  <2>1. client'[c].job = client[c].job /\ pending' = Unlisted(pending, client[c].job)
        /\ status' = status /\ \A d \in Clients \ {c} : client'[d] = client[d]
    BY <1>4, <1>t DEF Unpend, ClientAt
  <2> QED BY <1>t, <2>1, UnlistedKeeps
<1>5. CASE WriteControl(c)
  BY <1>5, <1>t DEF WriteControl, ClientDone, Update, DeleteRow, NoRow
<1>6. CASE Requeue(c)
  BY <1>6, <1>t DEF Requeue, ClientAt, Update, NoRow
<1>7. CASE SaveProviderLimit(c) \/ NotifySettings(c)
  BY <1>7, <1>t DEF SaveProviderLimit, NotifySettings, ClientAt, ClientDone
<1> QED BY <1>1, <1>2, <1>3, <1>4, <1>5, <1>6, <1>7 DEF NewRequest, ClientStep

\* A queued row is never forgotten.
LEMMA QueuedStep ==
  ASSUME TypeOK, BootIsAlone, VisitedIsSettled, QueuedIsOwned, [Next]_vars
  PROVE  QueuedIsOwned'
<1> DEFINE Expected(j) == \/ Listed(pending, j)
                          \/ sched \in {"chosen", "reject"} /\ chosen = j
                          \/ \E r \in Runners : /\ runner[r].job = j
                                                /\ runner[r].pc \notin {"free", "leave"}
                          \/ \E c \in Clients : client[c].job = j
<1>1. QueuedIsOwned <=>
        (sched \notin {"down", "boot", "exited"} =>
           \A j \in Jobs : status[j] = "queued" => Expected(j))
  BY DEF QueuedIsOwned, Live
<1>2. SUFFICES ASSUME sched' \notin {"down", "boot", "exited"}, NEW j \in Jobs,
                      status'[j] = "queued"
               PROVE  Expected(j)'
  BY DEF QueuedIsOwned, Live
<1>3. CASE sched \in {"down", "boot"}
  <2>1. BootDone
    BY <1>2, <1>3, AloneSteps DEF Restart, BootStep, BootRow, Crash, NotifyStop, Notify,
       CooldownElapses, vars, schedVars
  <2> QED BY <1>2, <2>1 DEF BootDone, VisitedIsSettled, Settled, dbVars
<1>4. CASE sched \notin {"down", "boot"}
  <2>1. ~Crash /\ ~Restart /\ ~BootStep /\ sched # "exited"
    BY <1>2, <1>4, UpSteps DEF Crash
  <2>2. status[j] = "queued" => Expected(j)
    BY <1>1, <1>4, <2>1
  <2>3. ASSUME NEW c \in Clients, NewRequest(c) \/ ClientStep(c) PROVE Expected(j)'
    <3>1. /\ status[j] = "queued" \/ client'[c].job = j
          /\ \A d \in Clients \ {c} : client'[d] = client[d]
          /\ client[c].job = j => client'[c].job = j \/ Listed(pending', j)
          /\ Listed(pending, j) => Listed(pending', j) \/ client'[c].job = j
      BY <1>2, <2>3, RequestsCarry
    <3>2. runner' = runner /\ chosen' = chosen /\ (sched' = sched \/ sched = "wait")
      BY <2>3, RequestsAside
    <3> QED BY <2>2, <3>1, <3>2
  <2>4. ASSUME NEW r \in Runners, RunnerStep(r) PROVE Expected(j)'
    <3>1. pending' = pending /\ client' = client /\ chosen' = chosen
          /\ (sched' = sched \/ sched = "wait")
      BY <2>4, RunnersAside
    <3>2. CASE runner'[r].job = j /\ runner'[r].pc \notin {"free", "leave"}
      BY <3>2
    <3>3. CASE ~(runner'[r].job = j /\ runner'[r].pc \notin {"free", "leave"})
      <4>1. status[j] = "queued" /\ (runner[r].job = j => runner[r].pc = "leave")
        BY <1>2, <2>4, <3>3, RunnerStepsWrite
      <4>2. ASSUME NEW q \in Runners, runner[q].job = j, runner[q].pc \notin {"free", "leave"}
            PROVE  Expected(j)'
        <5>1. q # r /\ runner'[q] = runner[q]
          BY <2>4, <4>1, <4>2, RunnerStepsWrite
        <5> QED BY <4>2, <5>1
      <4> QED BY <2>2, <3>1, <4>1, <4>2
    <3> QED BY <3>2, <3>3
  <2>5. ASSUME NEW r \in Runners, Launch(r) PROVE Expected(j)'
    <3>1. /\ status[j] = "queued" /\ pending' = pending /\ client' = client
          /\ runner[r].pc = "free" /\ \A q \in Runners \ {r} : runner'[q] = runner[q]
          /\ runner'[r].job = chosen /\ runner'[r].pc = "start"
      BY <1>2, <2>5 DEF Launch, dbVars, TypeOK, ThreadsTyped
    <3>2. CASE chosen = j
      BY <3>1, <3>2
    <3>3. CASE chosen # j
      BY <2>2, <3>1, <3>3
    <3> QED BY <3>2, <3>3
  <2>6. ASSUME NEW k \in Jobs, ScanDrop(k) \/ ScanReject(k) \/ ScanSelect(k) PROVE Expected(j)'
    <3>1. /\ status' = status /\ runner' = runner /\ client' = client
          /\ pending' = DropAt(pending, scan.index) /\ pending[scan.index] = k
      BY <2>6 DEF ScanDrop, ScanReject, ScanSelect, At, dbVars, threadVars
    <3>2. scan.index \in 1..Len(pending) /\ pending \in Seq(Jobs)
      BY <2>6 DEF ScanDrop, ScanReject, ScanSelect, At, TypeOK, SchedulerTyped, PendingTyped, IsList
    <3>3. sched = "scan"
      BY <2>6 DEF ScanDrop, ScanReject, ScanSelect, At
    <3>4. k = j => sched' \in {"chosen", "reject"} /\ chosen' = j
      BY <1>2, <2>6, <3>1 DEF ScanDrop, ScanReject, ScanSelect
    <3>5. CASE k # j
      <4>1. Listed(pending, j) => Listed(pending', j)
        BY <3>1, <3>2, <3>5, DropAtKeeps
      <4> QED BY <1>2, <2>2, <3>1, <3>3, <4>1
    <3> QED BY <3>4, <3>5
  <2>7. CASE WriteRejected
    <3>1. j # chosen /\ status[j] = "queued" /\ pending' = pending /\ runner' = runner /\ client' = client
      BY <1>2, <2>7 DEF WriteRejected, Update, NoRow, TypeOK, RowsTyped, threadVars
    <3> QED BY <2>2, <3>1
  <2>8. CASE (\E k \in Jobs : ScanSkip(k)) \/ SchedulerQuits \/ SchedulerFull \/ SchedulerScans
             \/ ScanEnd \/ WaitTimeout \/ ReturnReservation \/ RequestStop \/ NotifyStop
             \/ (\E p \in Providers : CooldownElapses(p)) \/ UNCHANGED vars
    BY <1>2, <2>2, <2>8 DEF ScanSkip, At, SchedulerQuits, SchedulerFull, SchedulerScans, ScanEnd,
       WaitTimeout, ReturnReservation, RequestStop, NotifyStop, Notify, CooldownElapses, vars,
       schedVars, dbVars, threadVars
  <2>9. ASSUME NEW r \in Runners, WatchdogJudges(r) PROVE Expected(j)'
    <3>1. /\ status' = status /\ UNCHANGED <<pending, sched, chosen, client>>
          /\ \A q \in Runners : runner'[q].job = runner[q].job /\ runner'[q].pc = runner[q].pc
      BY <2>9 DEF WatchdogJudges, schedVars, dbVars, TypeOK, ThreadsTyped
    <3> QED BY <1>2, <2>2, <3>1
  <2>10. ASSUME NEW v \in verdicts, WatchdogPauses(v) PROVE Expected(j)'
    <3>1. status[j] = "queued" /\ UNCHANGED <<pending, sched, chosen, client, runner>>
      BY <1>2, <2>10 DEF WatchdogPauses, Update, schedVars, NoRow, TypeOK, RowsTyped
    <3> QED BY <2>2, <3>1
  <2> QED BY <2>1, <2>3, <2>4, <2>5, <2>6, <2>7, <2>8, <2>9, <2>10 DEF Next, SchedulerStep
<1> QED BY <1>3, <1>4

-----------------------------------------------------------------------------
\* Every reachable state has an owner for every status that needs one.
LEMMA OwnerInvariant == ASSUME MaxJobs <= ResumeLimit PROVE Spec => []OwnerInv
<1>1. Init => OwnerInv
  BY OwnerInit
<1>2. TypeOK /\ OwnerInv /\ [Next]_vars => OwnerInv'
  BY AloneStep, SettledStep, RunningStep, QueuedStep DEF OwnerInv, StatusHasOwner
<1> QED BY <1>1, <1>2, Typing, PTL DEF Spec

\* No job is forgotten in mid-course, as long as the table is no longer than
\* the rows a restart looks at: a running row has a thread past its first write
\* and before its last, a queued one is listed, in the scheduler's hands, with
\* a thread that will look at it, or with a request.
THEOREM EveryStatusOwned == ASSUME MaxJobs <= ResumeLimit PROVE Spec => []StatusHasOwner
<1>1. OwnerInv => StatusHasOwner
  BY DEF OwnerInv
<1> QED BY <1>1, OwnerInvariant, PTL

\* When the scheduler starts, whatever the crash interrupted, no row is left in
\* a status that only a thread could end and every queued row is listed.
\* enqueue_existing_jobs
THEOREM RestartIsComplete == ASSUME MaxJobs <= ResumeLimit PROVE Spec => RestartSettles
<1>1. OwnerInv =>
        [BootDone => \A j \in Jobs :
           /\ status[j] \notin {"running", "pausing", "canceling", "deleting"}
           /\ status[j] = "queued" => Listed(pending, j)]_vars
  BY DEF OwnerInv, VisitedIsSettled, Settled, BootDone
<1> QED BY <1>1, OwnerInvariant, PTL DEF RestartSettles

-----------------------------------------------------------------------------
(* Only five actions change who holds a slot.                              *)

\* Nobody gains or loses a slot, no counter moves.
Quiet == /\ UNCHANGED <<active, activeIn>>
         /\ \A r \in Runners : runner'[r].job = runner[r].job
         /\ sched = "chosen" \/ sched' = "chosen" => UNCHANGED <<sched, chosen>>

\* A thread slot is busy exactly when it has a job.
LEMMA BusyHasJob ==
  ASSUME TypeOK, NEW r \in Runners
  PROVE  (runner[r].pc = "free") <=> (runner[r].job = NoJob)
BY DEF TypeOK, ThreadsTyped, FreeRunner, Jobs, NoJob

\* Every step that is not one of the five below is quiet.
LEMMA SlotSteps ==
  ASSUME TypeOK, [Next]_vars
  PROVE  \/ Quiet \/ Crash \/ ReturnReservation
         \/ \E j \in Jobs : ScanSelect(j)
         \/ \E r \in Runners : Launch(r) \/ RunnerLeave(r)
<1> USE DEF Quiet, TypeOK, SchedulerTyped
<1>1. ASSUME NEW r \in Runners, RunnerStep(r) PROVE Quiet \/ RunnerLeave(r)
  BY <1>1 DEF RunnerStep, RunnerStart, RunnerBegin, RunnerCheck, HandlerEnds,
     RunnerFinish, RunnerExcept, RunnerFail, HandleControlStop, RunnerKeeps,
     Goto, GotoLeave, GotoStop, ThreadsTyped, slotVars, schedVars
<1>2. ASSUME NEW r \in Runners, WatchdogJudges(r) PROVE Quiet
  BY <1>2 DEF WatchdogJudges, ThreadsTyped, slotVars, schedVars
<1>3. ASSUME Restart \/ BootStep \/ RequestStop \/ NotifyStop PROVE Quiet
  BY <1>3 DEF Restart, BootStep, BootRow, BootDone, RequestStop, NotifyStop, Notify,
     slotVars, schedVars, threadVars
<1>4. ASSUME SchedulerStep
      PROVE  \/ Quiet \/ ReturnReservation \/ \E j \in Jobs : ScanSelect(j)
             \/ \E r \in Runners : Launch(r)
  BY <1>4 DEF SchedulerStep, SchedulerQuits, SchedulerFull, SchedulerScans, ScanDrop,
     ScanReject, ScanSkip, WriteRejected, ScanEnd, WaitTimeout, At, slotVars,
     schedVars, threadVars
<1>5. ASSUME NEW p \in Providers, CooldownElapses(p) PROVE Quiet
  BY <1>5 DEF CooldownElapses, schedVars, threadVars
<1>6. ASSUME NEW v \in verdicts, WatchdogPauses(v) PROVE Quiet
  BY <1>6 DEF WatchdogPauses, slotVars, schedVars
<1>7. ASSUME NEW c \in Clients, NewRequest(c) \/ ClientStep(c) PROVE Quiet
  BY <1>7 DEF NewRequest, ClientStep, AddJob, ClearHistory, SaveGlobalLimit,
     PauseRequest, ResumeRequest, RetryRequest, DeleteRequest, Enqueue, Unpend,
     WriteControl, Requeue, SaveProviderLimit, NotifySettings, ClientKeeps, Notify,
     slotVars, schedVars, threadVars
<1>8. ASSUME UNCHANGED vars PROVE Quiet
  BY <1>8 DEF vars
<1> QED BY <1>1, <1>2, <1>3, <1>4, <1>5, <1>6, <1>7, <1>8 DEF Next

-----------------------------------------------------------------------------
(* The counters.                                                           *)

\* Finitely many threads, so the counts are numbers.
LEMMA LiveIsFinite ==
  /\ IsFiniteSet(Live)
  /\ \A p : IsFiniteSet(LiveIn(p))
BY ThreadsAssumption, FS_Subset DEF Live, LiveIn

\* A quiet step leaves every count alone.
LEMMA QuietLive ==
  ASSUME TypeOK, TypeOK', Quiet
  PROVE  /\ Live' = Live
         /\ \A p : LiveIn(p)' = LiveIn(p)
         /\ Reserved' = Reserved
         /\ \A p : ReservedIn(p)' = ReservedIn(p)
<1>1. \A r \in Runners : /\ runner[r].pc = "free" <=> runner[r].job = NoJob
                         /\ runner'[r].pc = "free" <=> runner'[r].job = NoJob
  BY DEF TypeOK, ThreadsTyped, FreeRunner, Jobs, NoJob
<1>2. Live' = Live
  BY <1>1 DEF Live, Quiet
<1> QED BY <1>2 DEF LiveIn, Live, Quiet, Reserved, ReservedIn

\* A launched thread takes over the reservation: one thread more, in the
\* bucket of its job.
LEMMA LaunchLive ==
  ASSUME TypeOK, NEW r \in Runners, Launch(r)
  PROVE  /\ r \notin Live
         /\ Live' = Live \cup {r}
         /\ \A p : LiveIn(p)' = IF p = ProviderOf[chosen] THEN LiveIn(p) \cup {r}
                                                           ELSE LiveIn(p)
<1>1. runner[r].pc = "free"
      /\ runner' = [runner EXCEPT ![r] = [pc |-> "start", job |-> chosen,
                                          signal |-> "none", watchdog |-> "on"]]
  BY DEF Launch
<1>2. runner'[r].pc # "free" /\ runner'[r].job = chosen
      /\ \A s \in Runners \ {r} : runner'[s] = runner[s]
  BY <1>1 DEF TypeOK, ThreadsTyped
<1> QED BY <1>1, <1>2 DEF Live, LiveIn

\* A thread that leaves is one thread less, in the bucket of its job.
LEMMA LeaveLive ==
  ASSUME TypeOK, NEW r \in Runners, RunnerLeave(r)
  PROVE  /\ r \in Live
         /\ Live' = Live \ {r}
         /\ r \in LiveIn(ProviderOf[runner[r].job])
         /\ \A p : LiveIn(p)' = IF p = ProviderOf[runner[r].job] THEN LiveIn(p) \ {r}
                                                                  ELSE LiveIn(p)
<1>1. runner[r].pc = "leave" /\ runner' = [runner EXCEPT ![r] = FreeRunner]
  BY DEF RunnerLeave
<1>2. runner'[r].pc = "free"
      /\ \A s \in Runners \ {r} : runner'[s] = runner[s]
  BY <1>1 DEF TypeOK, ThreadsTyped, FreeRunner
<1> QED BY <1>1, <1>2 DEF Live, LiveIn

\* Each step that moves a counter moves the count it stands for.
LEMMA AccountingStep ==
  ASSUME TypeOK, TypeOK', SlotAccounting, [Next]_vars
  PROVE  SlotAccounting'
<1> USE LiveIsFinite DEF SlotAccounting
<1>t. /\ Cardinality(Live) \in Nat
      /\ \A p : Cardinality(LiveIn(p)) \in Nat
  BY FS_CardinalityType
<1>a. active \in Nat /\ activeIn \in [Providers -> Nat]
  BY DEF TypeOK, SlotsTyped
<1>1. CASE Quiet
  BY <1>1, QuietLive DEF Quiet
<1>2. CASE Crash
  <2>1. Live' = {} /\ \A p : LiveIn(p)' = {}
    BY <1>2 DEF Crash, Live, LiveIn, FreeRunner
  <2>2. Reserved' = 0 /\ \A p : ReservedIn(p)' = 0
    BY <1>2 DEF Crash, Reserved, ReservedIn
  <2>3. active' = 0 /\ activeIn' = [p \in Providers |-> 0]
    BY <1>2 DEF Crash
  <2>4. Cardinality(Live') = 0 /\ \A p : Cardinality(LiveIn(p)') = 0
    BY <2>1, FS_EmptySet
  <2> QED BY <2>2, <2>3, <2>4
<1>3. ASSUME NEW j \in Jobs, ScanSelect(j) PROVE SlotAccounting'
  <2>1. Live' = Live /\ \A p : LiveIn(p)' = LiveIn(p)
    BY <1>3 DEF ScanSelect, threadVars, Live, LiveIn
  <2>2. sched = "scan" /\ ProviderOf[j] \in Providers
    BY <1>3, ProvidersAssumption DEF ScanSelect, At
  <2>3. CASE sched' = "exited" /\ UNCHANGED <<active, activeIn>>
    BY <2>1, <2>2, <2>3 DEF Reserved, ReservedIn
  <2>4. CASE sched' = "chosen" /\ chosen' = j /\ ReserveSlot(ProviderOf[j])
    <3>1. /\ active' = active + 1
          /\ activeIn' = [activeIn EXCEPT ![ProviderOf[j]] = @ + 1]
      BY <2>4 DEF ReserveSlot
    <3>2. Reserved = 0 /\ Reserved' = 1
          /\ \A p : ReservedIn(p) = 0 /\ ReservedIn(p)' = IF p = ProviderOf[j] THEN 1 ELSE 0
      BY <2>2, <2>4 DEF Reserved, ReservedIn
    <3> QED BY <1>t, <1>a, <2>1, <2>2, <3>1, <3>2
  <2> QED BY <1>3, <2>3, <2>4 DEF ScanSelect
<1>4. CASE ReturnReservation
  <2>1. Live' = Live /\ \A p : LiveIn(p)' = LiveIn(p)
    BY <1>4 DEF ReturnReservation, threadVars, Live, LiveIn
  <2>2. sched = "chosen" /\ chosen \in Jobs /\ ProviderOf[chosen] \in Providers
    BY <1>4, ProvidersAssumption DEF ReturnReservation, TypeOK, SchedulerTyped
  <2>3. Reserved = 1 /\ Reserved' = 0
        /\ \A p : /\ ReservedIn(p) = IF p = ProviderOf[chosen] THEN 1 ELSE 0
                  /\ ReservedIn(p)' = 0
    BY <1>4, <2>2 DEF ReturnReservation, Reserved, ReservedIn
  <2>4. active > 0 /\ activeIn[ProviderOf[chosen]] > 0
    BY <1>t, <2>2, <2>3
  <2>5. /\ active' = active - 1
        /\ activeIn' = [activeIn EXCEPT ![ProviderOf[chosen]] = @ - 1]
    BY <1>4, <2>4 DEF ReturnReservation, ReleaseSlot, Decrement
  <2> QED BY <1>t, <1>a, <2>1, <2>2, <2>3, <2>5
<1>5. ASSUME NEW r \in Runners, Launch(r) PROVE SlotAccounting'
  <2>1. /\ Cardinality(Live') = Cardinality(Live) + 1
        /\ \A p : Cardinality(LiveIn(p)') =
                    IF p = ProviderOf[chosen] THEN Cardinality(LiveIn(p)) + 1
                                              ELSE Cardinality(LiveIn(p))
    <3>1. \A p : r \notin LiveIn(p)
      BY <1>5, LaunchLive DEF LiveIn
    <3> QED BY <1>5, <3>1, LaunchLive, FS_AddElement
  <2>2. Reserved = 1 /\ Reserved' = 0 /\ UNCHANGED <<active, activeIn>>
        /\ \A p : /\ ReservedIn(p) = IF p = ProviderOf[chosen] THEN 1 ELSE 0
                  /\ ReservedIn(p)' = 0
    BY <1>5 DEF Launch, Reserved, ReservedIn, slotVars
  <2> QED BY <1>t, <1>a, <2>1, <2>2
<1>6. ASSUME NEW r \in Runners, RunnerLeave(r) PROVE SlotAccounting'
  <2> DEFINE q == ProviderOf[runner[r].job]
  <2>1. /\ Cardinality(Live') = Cardinality(Live) - 1
        /\ \A p : Cardinality(LiveIn(p)') =
                    IF p = q THEN Cardinality(LiveIn(p)) - 1 ELSE Cardinality(LiveIn(p))
    BY <1>6, LeaveLive, FS_RemoveElement
  <2>2. Reserved' = Reserved /\ \A p : ReservedIn(p)' = ReservedIn(p)
    BY <1>6 DEF RunnerLeave, Notify, Reserved, ReservedIn
  <2>3. q \in Providers
    BY <1>6, LeaveLive, ProvidersAssumption DEF TypeOK, ThreadsTyped, Live
  <2>4. Cardinality(Live) > 0 /\ Cardinality(LiveIn(q)) > 0
    BY <1>6, <1>t, LeaveLive, FS_EmptySet
  <2>5. Reserved \in Nat /\ \A p : ReservedIn(p) \in Nat
    BY DEF Reserved, ReservedIn
  <2>6. active > 0 /\ activeIn[q] > 0
    BY <1>t, <2>3, <2>4, <2>5
  <2>7. /\ active' = active - 1
        /\ activeIn' = [activeIn EXCEPT ![q] = @ - 1]
    BY <1>6, <2>6 DEF RunnerLeave, ReleaseSlot, Decrement
  <2> HIDE DEF q
  <2> QED BY <1>t, <1>a, <2>1, <2>2, <2>3, <2>5, <2>7
<1> QED BY <1>1, <1>2, <1>3, <1>4, <1>5, <1>6, SlotSteps

\* Initially there are no threads and the counters are 0.
LEMMA InitAccounting == ASSUME Init PROVE SlotAccounting
<1>1. Live = {} /\ \A p : LiveIn(p) = {}
  BY DEF Init, Live, LiveIn, FreeRunner
<1>2. Reserved = 0 /\ \A p : ReservedIn(p) = 0
  BY DEF Init, Reserved, ReservedIn
<1>3. Cardinality(Live) = 0 /\ \A p : Cardinality(LiveIn(p)) = 0
  BY <1>1, FS_EmptySet
<1> QED BY <1>2, <1>3 DEF Init, SlotAccounting

\* The slot counters are exactly the live threads and the reservation: no
\* exit path of job_runner or scheduler_loop leaks a slot or returns it twice.
THEOREM SlotsCounted == Spec => []SlotAccounting
<1>1. Init => SlotAccounting
  BY InitAccounting
<1>2. TypeOK /\ TypeOK' /\ SlotAccounting /\ [Next]_vars => SlotAccounting'
  BY AccountingStep
<1> QED BY <1>1, <1>2, Typing, PTL DEF Spec

-----------------------------------------------------------------------------
(* The hard caps.                                                          *)

\* WithinCaps is not inductive: the limit that admits a job is compared at
\* the start of a scan and when a job is selected.  While the scheduler scans
\* it holds the lock, so that no slot is taken and the comparison stays true.
CapsHold ==
  /\ active <= GlobalCap
  /\ \A p \in Providers : activeIn[p] <= ProviderCap
  /\ sched \in {"scan", "reject"} => active < GlobalCap /\ scan.limit <= ProviderCap

\* The limits read from the settings never exceed the caps.
LEMMA LimitsCapped ==
  ASSUME TypeOK
  PROVE  /\ limits.global \in Nat /\ limits.global <= GlobalCap
         /\ limits.provider \in Nat /\ limits.provider <= ProviderCap
BY CapsAssumption DEF TypeOK, RowsTyped, GlobalLimits, ProviderLimits

\* The scheduler enters a scan only below the global limit.
LEMMA ScanStarts ==
  ASSUME TypeOK, [Next]_vars, CapsHold, Quiet
  PROVE  sched' \in {"scan", "reject"} => active < GlobalCap /\ scan'.limit <= ProviderCap
<1> SUFFICES ASSUME sched' \in {"scan", "reject"}, ~UNCHANGED <<sched, scan>>
             PROVE  active < GlobalCap /\ scan'.limit <= ProviderCap
  BY DEF CapsHold
<1> USE DEF CapsHold, TypeOK, SchedulerTyped
<1>1. CASE SchedulerScans
  BY <1>1, LimitsCapped, CapsAssumption DEF SchedulerScans, SlotsTyped
<1>2. ASSUME NEW j \in Jobs, ScanReject(j) \/ ScanSkip(j)
      PROVE  active < GlobalCap /\ scan'.limit <= ProviderCap
  BY <1>2 DEF ScanReject, ScanSkip, At
<1>3. CASE WriteRejected
  BY <1>3 DEF WriteRejected
<1>4. ~(\E r \in Runners : RunnerStep(r) \/ WatchdogJudges(r))
      /\ ~(\E v \in verdicts : WatchdogPauses(v))
  BY DEF RunnerStep, RunnerStart, RunnerBegin, RunnerCheck, HandlerEnds, RunnerFinish,
     RunnerExcept, RunnerFail, HandleControlStop, RunnerLeave, RunnerKeeps, Notify,
     WatchdogJudges, WatchdogPauses, schedVars
<1>5. ~(\E c \in Clients : NewRequest(c) \/ ClientStep(c))
  BY DEF NewRequest, ClientStep, AddJob, ClearHistory, SaveGlobalLimit, PauseRequest,
     ResumeRequest, RetryRequest, DeleteRequest, Enqueue, Unpend, WriteControl, Requeue,
     SaveProviderLimit, NotifySettings, ClientKeeps, Notify, schedVars
<1>6. ASSUME SchedulerStep PROVE active < GlobalCap /\ scan'.limit <= ProviderCap
  BY <1>1, <1>2, <1>3, <1>6 DEF SchedulerStep, SchedulerQuits, SchedulerFull, ScanDrop,
     ScanSelect, ScanEnd, WaitTimeout, ReturnReservation, Launch, schedVars
<1> QED BY <1>4, <1>5, <1>6 DEF Next, vars, Restart, BootStep, BootRow, BootDone, Crash,
     RequestStop, NotifyStop, Notify, CooldownElapses, schedVars

\* Every step keeps the counters within the caps.
LEMMA CapsStep ==
  ASSUME TypeOK, [Next]_vars, CapsHold
  PROVE  CapsHold'
<1> USE DEF CapsHold
<1>a. active \in Nat /\ activeIn \in [Providers -> Nat]
  BY DEF TypeOK, SlotsTyped
<1>1. CASE Quiet
  BY <1>1, ScanStarts DEF Quiet
<1>2. CASE Crash
  BY <1>2, CapsAssumption DEF Crash
<1>3. ASSUME NEW j \in Jobs, ScanSelect(j) PROVE CapsHold'
  <2>1. sched = "scan" /\ activeIn[ProviderOf[j]] < scan.limit /\ scan.limit \in Nat
    BY <1>3 DEF ScanSelect, At, HasRoom, TypeOK, SchedulerTyped
  <2>2. ProviderOf[j] \in Providers
    BY ProvidersAssumption
  <2>3. sched' \notin {"scan", "reject"}
    BY <1>3 DEF ScanSelect
  <2>4. CASE UNCHANGED <<active, activeIn>>
    BY <2>3, <2>4
  <2>5. CASE ReserveSlot(ProviderOf[j])
    <3>1. active' = active + 1 /\ activeIn' = [activeIn EXCEPT ![ProviderOf[j]] = @ + 1]
      BY <2>5 DEF ReserveSlot
    <3> QED BY <1>a, <2>1, <2>2, <2>3, <3>1, CapsAssumption
  <2> QED BY <1>3, <2>4, <2>5 DEF ScanSelect
<1>4. ASSUME NEW p \in Providers, ReleaseSlot(p), sched' \notin {"scan", "reject"}
      PROVE  CapsHold'
  BY <1>a, <1>4, CapsAssumption DEF ReleaseSlot, Decrement
<1>5. CASE ReturnReservation
  BY <1>4, <1>5, ProvidersAssumption DEF ReturnReservation, TypeOK, SchedulerTyped
<1>6. ASSUME NEW r \in Runners, Launch(r) PROVE CapsHold'
  BY <1>6 DEF Launch, slotVars
<1>7. ASSUME NEW r \in Runners, RunnerLeave(r) PROVE CapsHold'
  <2>1. ProviderOf[runner[r].job] \in Providers
    BY <1>7, LeaveLive, ProvidersAssumption DEF TypeOK, ThreadsTyped, Live
  <2>2. sched' \notin {"scan", "reject"}
    BY <1>7 DEF RunnerLeave, LockFree, Notify
  <2> QED BY <1>4, <1>7, <2>1, <2>2 DEF RunnerLeave
<1> QED BY <1>1, <1>2, <1>3, <1>5, <1>6, <1>7, SlotSteps

\* The hard caps always hold.
LEMMA CapsAlways == Spec => []CapsHold
<1>1. Init => CapsHold
  BY CapsAssumption DEF Init, CapsHold
<1>2. TypeOK /\ CapsHold /\ [Next]_vars => CapsHold'
  BY CapsStep
<1> QED BY <1>1, <1>2, Typing, PTL DEF Spec

\* Threads and reservations never exceed the caps, whatever the users do to
\* the limits while jobs run.
THEOREM CapsRespected == Spec => []WithinCaps
<1>1. SlotAccounting /\ CapsHold => WithinCaps
  BY DEF SlotAccounting, CapsHold, WithinCaps
<1> QED BY <1>1, SlotsCounted, CapsAlways, PTL

-----------------------------------------------------------------------------
(* One thread per job, and the abstract pool.                              *)

\* Two threads on one job would be two threads in one bucket.
LEMMA CapOneIsExclusive ==
  ASSUME TypeOK, WithinCaps
  PROVE  OneRunnerPerJob
<1> SUFFICES ASSUME ProviderCap = 1, NEW r \in Live, NEW s \in Live,
                    runner[r].job = runner[s].job, r # s
             PROVE  FALSE
  BY DEF OneRunnerPerJob
<1> DEFINE p == ProviderOf[runner[r].job]
<1>1. p \in Providers
  BY ProvidersAssumption DEF TypeOK, ThreadsTyped, Live
<1>2. {r, s} \in SUBSET LiveIn(p)
  BY DEF LiveIn
<1>3. Cardinality({r, s}) <= Cardinality(LiveIn(p))
  BY <1>2, LiveIsFinite, FS_Subset
<1>4. Cardinality({r, s}) = 2
  <2>1. IsFiniteSet({r}) /\ Cardinality({r}) = 1
    BY FS_Singleton
  <2>2. {r, s} = {r} \cup {s} /\ s \notin {r}
    OBVIOUS
  <2> QED BY <2>1, <2>2, FS_AddElement
<1>5. Cardinality(LiveIn(p)) <= 1
  <2>1. Cardinality(LiveIn(p)) \in Nat
    BY LiveIsFinite, FS_CardinalityType
  <2>2. ReservedIn(p) \in Nat
    BY DEF ReservedIn
  <2>3. Cardinality(LiveIn(p)) + ReservedIn(p) <= 1
    BY <1>1 DEF WithinCaps
  <2> QED BY <2>1, <2>2, <2>3
<1> QED BY <1>3, <1>4, <1>5, LiveIsFinite, FS_CardinalityType

\* Where the per-provider limit stays at its default of 1, no interleaving of
\* pause, resume and the scheduler gives a job two threads.
THEOREM OneThreadPerJob == Spec => []OneRunnerPerJob
BY CapOneIsExclusive, Typing, CapsRespected, PTL

\* A step of the queue is a step of the pool, or leaves the holders alone.
LEMMA PoolStep ==
  ASSUME TypeOK, TypeOK', SlotAccounting, WithinCaps, [Next]_vars
  PROVE  [Pool!Next]_[r \in Runners |-> runner[r].job]
<1> DEFINE holder == [r \in Runners |-> runner[r].job]
<1>1. CASE Quiet
  BY <1>1 DEF Quiet
<1>2. CASE Crash \/ ReturnReservation \/ \E j \in Jobs : ScanSelect(j)
  <2>1. CASE Crash
    BY <2>1 DEF Crash, FreeRunner, Pool!Next, Pool!Halt
  <2>2. CASE ReturnReservation \/ \E j \in Jobs : ScanSelect(j)
    BY <2>2 DEF ReturnReservation, ScanSelect, threadVars
  <2> QED BY <1>2, <2>1, <2>2
<1>b. Pool!Busy = Live /\ \A p : Pool!BusyIn(p) = LiveIn(p)
  BY BusyHasJob DEF Pool!Busy, Pool!BusyIn, Live, LiveIn
<1>c. \A S : Pool!Cardinality(S) = Cardinality(S)
  BY DEF Pool!Cardinality, Cardinality
<1>3. ASSUME NEW r \in Runners, Launch(r) PROVE Pool!Next
  <2>1. chosen \in Jobs /\ ProviderOf[chosen] \in Providers
    BY <1>3, ProvidersAssumption DEF Launch, TypeOK, SchedulerTyped
  <2>2. Reserved = 1 /\ ReservedIn(ProviderOf[chosen]) = 1
    BY <1>3 DEF Launch, Reserved, ReservedIn
  <2>3. /\ Cardinality(Live) < GlobalCap
        /\ Cardinality(LiveIn(ProviderOf[chosen])) < ProviderCap
    <3>1. /\ Cardinality(Live) \in Nat
          /\ Cardinality(LiveIn(ProviderOf[chosen])) \in Nat
      BY LiveIsFinite, FS_CardinalityType
    <3> QED BY <2>1, <2>2, <3>1, CapsAssumption DEF WithinCaps
  <2>4. holder[r] = NoJob /\ holder' = [holder EXCEPT ![r] = chosen]
    BY <1>3, BusyHasJob DEF Launch, TypeOK, ThreadsTyped
  <2>5. /\ Pool!Cardinality(Pool!Busy) < GlobalCap
        /\ Pool!Cardinality(Pool!BusyIn(ProviderOf[chosen])) < ProviderCap
    BY <1>b, <1>c, <2>3
  <2> QED BY <2>1, <2>4, <2>5 DEF Pool!Next, Pool!Start
<1>4. ASSUME NEW r \in Runners, RunnerLeave(r) PROVE Pool!Next
  <2>1. holder[r] # NoJob /\ holder' = [holder EXCEPT ![r] = NoJob]
    BY <1>4, BusyHasJob DEF RunnerLeave, TypeOK, ThreadsTyped, FreeRunner
  <2> QED BY <2>1 DEF Pool!Next, Pool!Finish
<1> QED BY <1>1, <1>2, <1>3, <1>4, SlotSteps

\* The queue implements the abstract pool of download slots, for any number
\* of threads, jobs and buckets and any caps.
THEOREM SlotsImplemented == Spec => ImplementsSlots
<1>1. Init => Pool!Init
  BY DEF Init, Pool!Init, FreeRunner
<1>2. /\ TypeOK /\ TypeOK' /\ SlotAccounting /\ WithinCaps /\ [Next]_vars
      => [Pool!Next]_[r \in Runners |-> runner[r].job]
  BY PoolStep
<1> QED BY <1>1, <1>2, Typing, SlotsCounted, CapsRespected, PTL
        DEF Spec, ImplementsSlots, Pool!Spec

=============================================================================
