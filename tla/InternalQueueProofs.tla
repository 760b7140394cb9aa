------------------------ MODULE InternalQueueProofs ------------------------
(***************************************************************************)
(* InternalQueue for every number of jobs, threads and requests, every     *)
(* cap and every set of payloads: type correctness, the thread counter,    *)
(* that the queue implements a pool of at most Cap threads, that every     *)
(* status that needs an owner has one, and what reindex requests and the   *)
(* maintenance policy can rely on when jobs are not requeued, also in the  *)
(* scenarios that TLC checks.                                              *)
(***************************************************************************)
EXTENDS MCInternalQueue, FiniteSetTheorems, SequenceTheorems, TLAPS

-----------------------------------------------------------------------------
(* The pending list: its operations repeat no id and lose none but theirs. *)

\* list.pop(i): the elements after i move one place forward.
LEMMA DropAtKeeps ==
  ASSUME NEW S, NEW s \in Seq(S), NEW i \in 1..Len(s)
  PROVE  /\ IsList(s, S) => IsList(DropAt(s, i), S)
         /\ \A k : Listed(s, k) /\ s[i] # k => Listed(DropAt(s, i), k)
<1>1. /\ DropAt(s, i) \in Seq(S) /\ Len(DropAt(s, i)) = Len(s) - 1
      /\ \A k \in 1..(Len(s) - 1) : DropAt(s, i)[k] = IF k < i THEN s[k] ELSE s[k + 1]
  BY DEF DropAt
<1>2. PICK n, d : n \in Nat /\ n = Len(s) /\ d = DropAt(s, i) OBVIOUS
<1>3. ASSUME IsList(s, S) PROVE IsList(d, S)
  <2> DEFINE up(x) == IF x < i THEN x ELSE x + 1
  <2> SUFFICES ASSUME NEW h \in 1..(n - 1), NEW k \in 1..(n - 1), d[h] = d[k] PROVE h = k
    BY <1>1, <1>2 DEF IsList
  <2>1. up(h) \in 1..n /\ up(k) \in 1..n /\ s[up(h)] = s[up(k)] BY <1>1, <1>2
  <2>2. up(h) = up(k) BY <1>2, <1>3, <2>1 DEF IsList
  <2> QED BY <2>2
<1>4. ASSUME NEW k, NEW h \in 1..n, s[h] = k, s[i] # k PROVE Listed(d, k)
  <2>1. CASE h < i BY <1>1, <1>2, <1>4, <2>1 DEF Listed
  <2>2. CASE ~(h < i)
    <3>1. h - 1 \in 1..(n - 1) /\ d[h - 1] = k BY <1>1, <1>2, <1>4, <2>2
    <3> QED BY <1>1, <1>2, <3>1 DEF Listed
  <2> QED BY <2>1, <2>2
<1> QED BY <1>2, <1>3, <1>4 DEF Listed

\* enqueue_job looks before it appends.
LEMMA EnlistedKeeps ==
  ASSUME NEW S, NEW s \in Seq(S), NEW j \in S
  PROVE  /\ IsList(s, S) => IsList(Enlisted(s, j), S)
         /\ Listed(Enlisted(s, j), j) /\ \A k : Listed(s, k) => Listed(Enlisted(s, j), k)
<1>1. CASE Listed(s, j) BY <1>1 DEF Enlisted
<1>2. CASE ~Listed(s, j)
  <2>1. /\ Append(s, j) \in Seq(S) /\ Len(Append(s, j)) = Len(s) + 1
        /\ Append(s, j)[Len(s) + 1] = j /\ \A i \in 1..Len(s) : Append(s, j)[i] = s[i]
    OBVIOUS
  <2> QED BY <1>2, <2>1 DEF Enlisted, Listed, IsList
<1> QED BY <1>1, <1>2

\* remove_pending_job drops the id and no other.
LEMMA UnlistedKeeps ==
  ASSUME NEW S, NEW s \in Seq(S), NEW j
  PROVE  /\ IsList(s, S) => IsList(Unlisted(s, j), S)
         /\ \A k : Listed(s, k) /\ k # j => Listed(Unlisted(s, j), k)
<1>1. CASE Listed(s, j)
  <2>1. PICK i \in 1..Len(s) : s[i] = j /\ Unlisted(s, j) = DropAt(s, i)
    BY <1>1 DEF Listed, Unlisted
  <2> QED BY <2>1, DropAtKeeps
<1> QED BY <1>1 DEF Unlisted

\* The rest of a list names everything but its first element.
LEMMA TailLists ==
  ASSUME NEW S, NEW s \in Seq(S), s # <<>>, NEW k, Listed(s, k), k # Head(s)
  PROVE  Listed(Tail(s), k)
<1>1. PICK h \in 1..Len(s) : s[h] = k
  BY DEF Listed
<1>2. /\ Len(Tail(s)) = Len(s) - 1 /\ Len(s) \in Nat /\ Head(s) = s[1]
      /\ \A m \in 1..Len(Tail(s)) : Tail(s)[m] = s[m + 1]
  OBVIOUS
<1>3. h - 1 \in 1..Len(Tail(s)) /\ Tail(s)[h - 1] = k
  BY <1>1, <1>2
<1> QED BY <1>3 DEF Listed

-----------------------------------------------------------------------------
(* Type correctness, one lemma per part of the state.                      *)

\* The initial states are well typed.
LEMMA InitTyped == ASSUME Init PROVE TypeOK
<1>1. nextId \in 1..(MaxJobs + 1)
  BY SizesAssumption DEF Init
<1>2. pending \in Seq(Jobs) /\ Len(pending) = 0
  BY DEF Init
<1>3. RowsTyped /\ PendingTyped
  BY <1>1, <1>2 DEF Init, RowsTyped, PendingTyped, IsList
<1>4. SchedulerTyped
  BY DEF Init, SchedulerTyped
<1>5. ThreadsTyped
  BY DEF Init, ThreadsTyped, FreeRunner, RunnerPCs, Signals
<1>6. ClientsTyped
  BY DEF Init, ClientsTyped, IdleClient, ClientPCs, Jobless
<1> QED BY <1>3, <1>4, <1>5, <1>6 DEF TypeOK

\* An UPDATE of one row to a known status keeps the table well typed.
LEMMA UpdateTyped ==
  ASSUME RowsTyped, NEW j \in Jobs, NEW s \in Statuses,
         Update(j, s), UNCHANGED <<payload, nextId, gate>>
  PROVE  RowsTyped'
BY DEF RowsTyped, Update

\* So does a DELETE of one row.
LEMMA DeleteRowTyped ==
  ASSUME RowsTyped, NEW j \in Jobs, DeleteRow(j), UNCHANGED <<payload, nextId, gate>>
  PROVE  RowsTyped'
BY DEF RowsTyped, DeleteRow

\* So does an INSERT, which takes the next id.
LEMMA InsertRowTyped ==
  ASSUME RowsTyped, NEW p \in Payloads, InsertRow(p), UNCHANGED gate
  PROVE  RowsTyped' /\ nextId \in Jobs
BY SizesAssumption DEF RowsTyped, InsertRow, Jobs, Statuses

\* A request that is about to act on a job has one.
LEMMA TargetTyped ==
  ASSUME ClientsTyped, NEW c \in Clients, client[c].pc \notin Jobless
  PROVE  /\ client[c].todo \in Seq(Jobs) /\ client[c].todo # <<>>
         /\ Target(c) \in Jobs
BY DEF ClientsTyped, Target

\* Every step keeps the database well typed.
LEMMA RowsStep ==
  ASSUME TypeOK, [Next]_vars
  PROVE  RowsTyped'
<1> USE DEF TypeOK
<1> SUFFICES ASSUME ~UNCHANGED dbVars
             PROVE  RowsTyped'
  BY DEF RowsTyped, dbVars
<1>1. ASSUME NEW j \in Jobs, BootRow(j) PROVE RowsTyped'
  BY <1>1, UpdateTyped, DeleteRowTyped DEF BootRow, Statuses, dbVars
<1>2. ASSUME ClockTurns PROVE RowsTyped'
  BY <1>2 DEF ClockTurns, RowsTyped
<1>3. ASSUME NEW r \in Runners, RunnerStep(r) PROVE RowsTyped'
  <2>1. runner[r].pc # "free" => runner[r].job \in Jobs
    BY DEF ThreadsTyped
  <2>2. runner[r].pc = "stop" => runner[r].signal \in {"deleted", "paused", "canceled"}
    BY DEF ThreadsTyped, Signals
  <2> QED BY <1>3, <2>1, <2>2, UpdateTyped, DeleteRowTyped
         DEF RunnerStep, RunnerStart, RunnerBegin, RunnerCheck, HandlerEnds,
         RunnerFinalRead, RunnerFinish, RunnerExcept, RunnerFail, HandleControlStop,
         RunnerLeave, RunnerKeeps, dbVars, Statuses
<1>4. ASSUME NEW c \in Clients, NEW p \in Payloads,
             CreateJob(c, p) \/ CreateReindex(c, p) \/ BatchRow(c, p)
      PROVE RowsTyped'
  BY <1>4, InsertRowTyped DEF CreateJob, CreateReindex, BatchRow
<1>5. ASSUME NEW c \in Clients, NewRequest(c) PROVE RowsTyped'
  <2>1. ASSUME ClearHistory(c) PROVE RowsTyped'
    BY <2>1 DEF ClearHistory, RowsTyped
  <2> QED BY <1>4, <1>5, <2>1 DEF NewRequest, ReuseJob, PauseRequest, ResumeRequest,
     RetryRequest, DeleteRequest
<1>6. ASSUME NEW c \in Clients, SavePolicy(c) PROVE RowsTyped'
  BY <1>6 DEF SavePolicy, RowsTyped
<1>7. ASSUME NEW c \in Clients, ClientStep(c) PROVE RowsTyped'
  <2>1. ASSUME AbandonRow(c) \/ WriteControl(c) \/ Requeue(c) PROVE RowsTyped'
    <3>1. Target(c) \in Jobs
      BY <2>1, TargetTyped DEF AbandonRow, WriteControl, Requeue, Jobless
    <3> QED BY <2>1, <3>1, UpdateTyped, DeleteRowTyped
           DEF AbandonRow, WriteControl, Requeue, Statuses
  <2> QED BY <1>7, <2>1 DEF ClientStep, BatchEnds, Enqueue, LookAtReused, Unpend,
     NotifyPolicy
<1> QED BY <1>1, <1>2, <1>3, <1>4, <1>5, <1>6, <1>7 DEF Next, BootStep, SchedulerStep,
   vars, dbVars, Restart, BootDone, Crash, RequestStop, NotifyStop, SchedulerQuits,
   SchedulerWaits, SchedulerScans, ScanSkip, ScanPop, ScanEnd, PollTimeout, Launch

\* Every step keeps the pending list a list of jobs without repetitions.
LEMMA PendingStep ==
  ASSUME TypeOK, [Next]_vars
  PROVE  PendingTyped'
<1> USE DEF TypeOK
<1>1. IsList(pending, Jobs)
  BY DEF PendingTyped
<1>2. SUFFICES ASSUME pending' # pending
               PROVE  IsList(pending', Jobs)
  BY DEF PendingTyped
<1>3. ASSUME NEW j \in Jobs, BootRow(j) PROVE IsList(pending', Jobs)
  BY <1>1, <1>2, <1>3, EnlistedKeeps DEF IsList, BootRow
<1>4. ASSUME Crash PROVE IsList(pending', Jobs)
  BY <1>4 DEF Crash, IsList
<1>5. ASSUME ScanPop PROVE IsList(pending', Jobs)
  <2>1. scan \in 1..Len(pending) /\ pending' = DropAt(pending, scan)
    BY <1>5 DEF ScanPop, SchedulerTyped, PendingTyped, IsList
  <2> QED BY <1>1, <2>1, DropAtKeeps DEF IsList
<1>6. ASSUME NEW c \in Clients, Enqueue(c) PROVE IsList(pending', Jobs)
  BY <1>1, <1>6, EnlistedKeeps, TargetTyped DEF IsList, Enqueue, Jobless
<1>7. ASSUME NEW c \in Clients, Unpend(c) PROVE IsList(pending', Jobs)
  BY <1>1, <1>7, UnlistedKeeps DEF IsList, Unpend
<1>8. ~\E r \in Runners : RunnerStep(r)
  BY <1>2 DEF RunnerStep, RunnerStart, RunnerBegin, RunnerCheck, HandlerEnds,
     RunnerFinalRead, RunnerFinish, RunnerExcept, RunnerFail, HandleControlStop,
     RunnerLeave, RunnerKeeps
<1>9. ~\E c \in Clients : NewRequest(c) \/ SavePolicy(c) \/ \E p \in Payloads : BatchRow(c, p)
  BY <1>2 DEF NewRequest, CreateJob, ReuseJob, CreateReindex, PauseRequest, ResumeRequest,
     RetryRequest, DeleteRequest, ClearHistory, SavePolicy, BatchRow
<1> QED BY <1>2, <1>3, <1>4, <1>5, <1>6, <1>7, <1>8, <1>9 DEF Next, BootStep,
   SchedulerStep, ClientStep, vars, Restart, BootDone, RequestStop, NotifyStop,
   SchedulerQuits, SchedulerWaits, SchedulerScans, ScanSkip, ScanEnd, PollTimeout, Launch,
   ClockTurns, BatchEnds, AbandonRow, LookAtReused, WriteControl, Requeue, NotifyPolicy

\* notify_all moves the scheduler from one legal state to another.
LEMMA NotifyTyped ==
  ASSUME SchedulerTyped, Notify, active' \in Nat,
         UNCHANGED <<scan, chosen, boot, stopping>>
  PROVE  SchedulerTyped'
BY DEF SchedulerTyped, Notify

\* Every step keeps the scheduler's state and the counter well typed.
LEMMA SchedulerPartStep ==
  ASSUME TypeOK, [Next]_vars
  PROVE  SchedulerTyped'
<1> USE DEF TypeOK
<1>1. SUFFICES ASSUME ~UNCHANGED <<active, schedVars, boot, stopping>>
               PROVE  SchedulerTyped'
  BY DEF SchedulerTyped, schedVars
<1>2. CASE Restart
  BY <1>2 DEF SchedulerTyped, Restart, Resumable, Rows
<1>3. ASSUME NEW j \in Jobs, BootRow(j) PROVE SchedulerTyped'
  BY <1>3 DEF SchedulerTyped, BootRow, schedVars
<1>4. CASE BootDone \/ Crash
  BY <1>4 DEF SchedulerTyped, BootDone, Crash
<1>5. CASE RequestStop
  BY <1>5 DEF SchedulerTyped, RequestStop, schedVars
<1>6. CASE NotifyStop
  BY <1>6 DEF SchedulerTyped, NotifyStop, Notify
<1>7. CASE SchedulerStep
  <2>1. CASE SchedulerQuits \/ SchedulerWaits \/ SchedulerScans
    BY <2>1 DEF SchedulerTyped, SchedulerQuits, SchedulerWaits, SchedulerScans
  <2>2. CASE ScanSkip \/ ScanEnd \/ PollTimeout
    BY <2>2 DEF SchedulerTyped, ScanSkip, ScanEnd, PollTimeout
  <2>3. CASE ScanPop
    <3>1. scan \in 1..Len(pending)
      BY <2>3 DEF ScanPop, SchedulerTyped, PendingTyped, IsList
    <3>2. pending[scan] \in Jobs
      BY <3>1 DEF PendingTyped, IsList
    <3> QED BY <2>3, <3>2 DEF SchedulerTyped, ScanPop
  <2>4. ASSUME NEW r \in Runners, Launch(r) PROVE SchedulerTyped'
    BY <2>4 DEF SchedulerTyped, Launch
  <2> QED BY <1>7, <2>1, <2>2, <2>3, <2>4 DEF SchedulerStep
<1>8. ASSUME NEW r \in Runners, RunnerLeave(r) PROVE SchedulerTyped'
  <2>1. active' \in Nat
    BY <1>8 DEF RunnerLeave, SchedulerTyped
  <2> QED BY <1>8, <2>1, NotifyTyped DEF RunnerLeave
<1>9. ASSUME NEW c \in Clients, Enqueue(c) \/ Unpend(c) \/ NotifyPolicy(c) PROVE SchedulerTyped'
  <2>1. active' \in Nat
    BY <1>9 DEF Enqueue, Unpend, NotifyPolicy, ClientKeeps, SchedulerTyped
  <2> QED BY <1>9, <2>1, NotifyTyped DEF Enqueue, Unpend, NotifyPolicy, ClientKeeps
<1>10. ASSUME NEW r \in Runners, RunnerStep(r) PROVE RunnerLeave(r)
  BY <1>1, <1>10 DEF RunnerStep, RunnerStart, RunnerBegin, RunnerCheck, HandlerEnds,
     RunnerFinalRead, RunnerFinish, RunnerExcept, RunnerFail, HandleControlStop,
     RunnerKeeps, schedVars
<1>11. ~\E c \in Clients : NewRequest(c) \/ SavePolicy(c) \/ \E p \in Payloads : BatchRow(c, p)
  BY <1>1 DEF NewRequest, CreateJob, ReuseJob, CreateReindex, PauseRequest, ResumeRequest,
     RetryRequest, DeleteRequest, ClearHistory, SavePolicy, BatchRow, ClientKeeps, schedVars
<1> QED BY <1>1, <1>2, <1>3, <1>4, <1>5, <1>6, <1>7, <1>8, <1>9, <1>10, <1>11
   DEF Next, BootStep, ClientStep, vars, ClockTurns, BatchEnds, AbandonRow, LookAtReused,
   WriteControl, Requeue, ClientKeeps, schedVars

\* A thread that moves on, other than into a stop, stays well typed.
LEMMA GotoTyped ==
  ASSUME ThreadsTyped, NEW r \in Runners, runner[r].pc # "free",
         NEW pc \in RunnerPCs \ {"free", "stop"}, Goto(r, pc)
  PROVE  ThreadsTyped'
BY DEF ThreadsTyped, Goto, Signals

\* check_job_control raises one of the three stops, or nothing.
LEMMA SignalTyped == ASSUME NEW s PROVE ControlSignal(s) \in Signals
BY DEF ControlSignal, Signals

\* So does a thread in which InternalJobControlStop was raised.
LEMMA StopsTyped ==
  ASSUME ThreadsTyped, NEW r \in Runners, runner[r].pc # "free",
         NEW signal \in Signals \ {"none"}, GotoStop(r, signal)
  PROVE  ThreadsTyped'
BY DEF ThreadsTyped, GotoStop, RunnerPCs

\* Every step keeps the threads well typed.
LEMMA ThreadsStep ==
  ASSUME TypeOK, [Next]_vars
  PROVE  ThreadsTyped'
<1> USE DEF TypeOK
<1>1. SUFFICES ASSUME runner' # runner
               PROVE  ThreadsTyped'
  BY DEF ThreadsTyped
<1>2. ASSUME Crash PROVE ThreadsTyped'
  BY <1>2 DEF Crash, ThreadsTyped, FreeRunner, RunnerPCs, Signals
<1>3. ASSUME NEW r \in Runners, Launch(r) PROVE ThreadsTyped'
  <2>1. chosen \in Jobs
    BY <1>3 DEF Launch, SchedulerTyped
  <2> QED BY <1>3, <2>1 DEF Launch, ThreadsTyped, RunnerPCs, Signals
<1>4. ASSUME NEW r \in Runners, RunnerStep(r) PROVE ThreadsTyped'
  <2>1. ASSUME RunnerStart(r) \/ RunnerBegin(r) \/ HandlerEnds(r) \/ RunnerFinalRead(r)
        PROVE  ThreadsTyped'
    BY <2>1, GotoTyped DEF RunnerStart, RunnerBegin, HandlerEnds, RunnerFinalRead, RunnerPCs
  <2>2. ASSUME RunnerCheck(r) PROVE ThreadsTyped'
    BY <2>2, GotoTyped, StopsTyped, SignalTyped DEF RunnerCheck, RunnerPCs
  <2>3. ASSUME RunnerExcept(r) PROVE ThreadsTyped'
    <3> DEFINE row == status[runner[r].job]
               request == IF row = NoRow THEN "none" ELSE ControlSignal(row)
    <3>1. request \in Signals
      BY SignalTyped DEF Signals
    <3>2. /\ runner[r].pc = "except"
          /\ (request # "none" /\ GotoStop(r, request)) \/ Goto(r, "fail")
      BY <2>3 DEF RunnerExcept
    <3> HIDE DEF request
    <3> QED BY <3>1, <3>2, GotoTyped, StopsTyped DEF RunnerPCs
  <2>4. ASSUME RunnerFinish(r) \/ RunnerFail(r) \/ HandleControlStop(r) PROVE ThreadsTyped'
    BY <2>4, GotoTyped DEF RunnerFinish, RunnerFail, HandleControlStop, RunnerPCs
  <2>5. ASSUME RunnerLeave(r) PROVE ThreadsTyped'
    BY <2>5 DEF RunnerLeave, ThreadsTyped, FreeRunner, RunnerPCs, Signals
  <2> QED BY <1>4, <2>1, <2>2, <2>3, <2>4, <2>5 DEF RunnerStep
<1>5. ~\E c \in Clients : NewRequest(c)
  BY <1>1 DEF NewRequest, CreateJob, ReuseJob, CreateReindex, PauseRequest, ResumeRequest,
     RetryRequest, DeleteRequest, ClearHistory, ClientKeeps
<1>6. ~\E c \in Clients : SavePolicy(c) \/ \E p \in Payloads : BatchRow(c, p)
  BY <1>1 DEF SavePolicy, BatchRow, ClientKeeps
<1>7. ~\E c \in Clients : ClientStep(c)
  BY <1>1 DEF ClientStep, BatchEnds, AbandonRow, Enqueue, LookAtReused, Unpend,
     WriteControl, Requeue, NotifyPolicy, ClientKeeps
<1> QED BY <1>1, <1>2, <1>3, <1>4, <1>5, <1>6, <1>7 DEF Next, BootStep, SchedulerStep, vars, Restart,
   BootRow, BootDone, RequestStop, NotifyStop, SchedulerQuits, SchedulerWaits,
   SchedulerScans, ScanSkip, ScanPop, ScanEnd, PollTimeout, ClockTurns

\* A request that goes on to a step that needs jobs has some.
LEMMA ClientAtTyped ==
  ASSUME ClientsTyped, NEW c \in Clients, NEW pc \in ClientPCs \ Jobless,
         NEW js \in Seq(Jobs), js # <<>>, ClientAt(c, pc, js)
  PROVE  ClientsTyped'
BY DEF ClientsTyped, ClientAt

\* A request that ends has none left.
LEMMA ClientDoneTyped ==
  ASSUME ClientsTyped, NEW c \in Clients, ClientDone(c)
  PROVE  ClientsTyped'
BY DEF ClientsTyped, ClientDone, IdleClient, ClientPCs, Jobless

\* A list of jobs that is neither empty nor a single job has a rest.
LEMMA TailTyped ==
  ASSUME NEW js \in Seq(Jobs), js # <<>>, Len(js) # 1
  PROVE  Tail(js) \in Seq(Jobs) /\ Tail(js) # <<>>
<1>1. Len(js) \in Nat \ {0} /\ Len(<<>>) = 0
  BY EmptySeq
<1>2. Tail(js) \in Seq(Jobs) /\ Len(Tail(js)) = Len(js) - 1
  BY HeadTailProperties
<1>3. Len(Tail(js)) # 0
  BY <1>1, <1>2
<1> HIDE DEF Jobs
<1> QED BY <1>1, <1>2, <1>3

\* A request that has done one of its jobs goes on with the rest, or ends.
LEMMA ClientNextTyped ==
  ASSUME ClientsTyped, NEW c \in Clients, client[c].pc \notin Jobless,
         NEW pc \in ClientPCs \ Jobless, ClientNext(c, pc)
  PROVE  ClientsTyped'
<1>1. client[c].todo \in Seq(Jobs) /\ client[c].todo # <<>>
  BY TargetTyped
<1>2. CASE Len(client[c].todo) = 1
  BY <1>2, ClientDoneTyped DEF ClientNext, ClientDone
<1>3. CASE Len(client[c].todo) # 1
  <2>1. Tail(client[c].todo) \in Seq(Jobs) /\ Tail(client[c].todo) # <<>>
    BY <1>1, <1>3, TailTyped
  <2>2. ClientAt(c, pc, Tail(client[c].todo))
    BY <1>3 DEF ClientNext
  <2> QED BY <2>1, <2>2, ClientAtTyped
<1> QED BY <1>2, <1>3

\* Every step keeps the requests well typed.
LEMMA ClientsStep ==
  ASSUME TypeOK, [Next]_vars
  PROVE  ClientsTyped'
<1> USE DEF TypeOK
<1>1. SUFFICES ASSUME client' # client
               PROVE  ClientsTyped'
  BY DEF ClientsTyped
<1>2. ASSUME Crash PROVE ClientsTyped'
  BY <1>2 DEF Crash, ClientsTyped, IdleClient, ClientPCs, Jobless
<1>3. ASSUME NEW c \in Clients, NEW p \in Payloads, CreateJob(c, p) \/ CreateReindex(c, p)
      PROVE  ClientsTyped'
  <2>1. nextId \in Jobs
    BY <1>3, InsertRowTyped DEF CreateJob, CreateReindex
  <2>2. <<nextId>> \in Seq(Jobs) /\ <<nextId>> # <<>>
    BY <2>1
  <2> QED BY <1>3, <2>2, ClientAtTyped DEF CreateJob, CreateReindex, ClientPCs, Jobless
<1>4. ASSUME NEW c \in Clients, NEW p \in Payloads, BatchRow(c, p) PROVE ClientsTyped'
  <2>1. nextId \in Jobs
    BY <1>4, InsertRowTyped DEF BatchRow
  <2>2. client[c].todo \in Seq(Jobs)
    BY DEF ClientsTyped
  <2>3. Append(client[c].todo, nextId) \in Seq(Jobs) /\ Append(client[c].todo, nextId) # <<>>
    BY <2>1, <2>2
  <2> QED BY <1>4, <2>3, ClientAtTyped DEF BatchRow, ClientPCs, Jobless
<1>5. ASSUME NEW c \in Clients, NEW j \in Jobs,
             \/ \E pc \in ClientPCs \ Jobless : ClientAt(c, pc, <<j>>)
      PROVE  ClientsTyped'
  <2>1. <<j>> \in Seq(Jobs) /\ <<j>> # <<>>
    OBVIOUS
  <2> QED BY <1>5, <2>1, ClientAtTyped
<1>6. ASSUME NEW c \in Clients, NEW p \in Payloads, ReuseJob(c, p) PROVE ClientsTyped'
  BY <1>5, <1>6 DEF ReuseJob, ActiveOf, ClientPCs, Jobless
<1>7. ASSUME NEW c \in Clients, NEW j \in Jobs,
             \/ PauseRequest(c, j) \/ ResumeRequest(c, j)
             \/ RetryRequest(c, j) \/ DeleteRequest(c, j)
      PROVE  ClientsTyped'
  BY <1>5, <1>7 DEF PauseRequest, ResumeRequest, RetryRequest, DeleteRequest, ClientPCs, Jobless
<1>8. ASSUME NEW c \in Clients, NewRequest(c) PROVE ClientsTyped'
  BY <1>1, <1>3, <1>6, <1>7, <1>8 DEF NewRequest, ClearHistory
<1>9. ASSUME NEW c \in Clients, SavePolicy(c) PROVE ClientsTyped'
  <2>1. PICK pc \in Jobless : ClientAt(c, pc, <<>>)
    BY <1>9 DEF SavePolicy, Jobless
  <2>2. Jobless \subseteq ClientPCs
    BY DEF Jobless, ClientPCs
  <2> QED BY <2>1, <2>2 DEF ClientAt, ClientsTyped
<1>10. ASSUME NEW c \in Clients, ClientStep(c) PROVE ClientsTyped'
  <2>1. CASE AbandonRow(c) \/ Enqueue(c)
    BY <2>1, ClientNextTyped DEF AbandonRow, Enqueue, ClientPCs, Jobless
  <2>2. CASE WriteControl(c) \/ NotifyPolicy(c)
    BY <2>2, ClientDoneTyped DEF WriteControl, NotifyPolicy
  <2>3. CASE BatchEnds(c) \/ Unpend(c) \/ Requeue(c)
    BY <2>3, TargetTyped, ClientAtTyped DEF BatchEnds, Unpend, Requeue, ClientPCs, Jobless
  <2>4. CASE LookAtReused(c)
    BY <2>4, TargetTyped, ClientAtTyped, ClientDoneTyped DEF LookAtReused, ClientPCs, Jobless
  <2> QED BY <1>10, <2>1, <2>2, <2>3, <2>4 DEF ClientStep
<1> QED BY <1>1, <1>2, <1>4, <1>8, <1>9, <1>10 DEF Next, BootStep, SchedulerStep, RunnerStep,
   vars, Restart, BootRow, BootDone, RequestStop, NotifyStop, SchedulerQuits,
   SchedulerWaits, SchedulerScans, ScanSkip, ScanPop, ScanEnd, PollTimeout, Launch,
   ClockTurns, RunnerStart, RunnerBegin, RunnerCheck, HandlerEnds, RunnerFinalRead,
   RunnerFinish, RunnerExcept, RunnerFail, HandleControlStop, RunnerLeave, RunnerKeeps

\* TypeOK is inductive: no row has a status the program does not know, no id
\* stands on the list twice, the counter is never negative, no thread and no
\* request runs out of its jobs.
THEOREM Typing == Spec => []TypeOK
<1>1. Init => TypeOK
  BY InitTyped
<1>2. TypeOK /\ [Next]_vars => TypeOK'
  BY RowsStep, PendingStep, SchedulerPartStep, ThreadsStep, ClientsStep DEF TypeOK
<1> QED BY <1>1, <1>2, PTL DEF Spec

-----------------------------------------------------------------------------
(* The thread counter.                                                     *)

\* Nobody gains or loses a thread or the job in hand; the counter is still.
Quiet == /\ active' = active
         /\ \A r \in Runners : runner'[r].job = runner[r].job
         /\ sched = "chosen" <=> sched' = "chosen"
         /\ chosen' = chosen

\* A thread slot is busy exactly when it has a job.
LEMMA BusyHasJob ==
  ASSUME TypeOK, NEW r \in Runners
  PROVE  (runner[r].pc = "free") <=> (runner[r].job = NoJob)
BY DEF TypeOK, ThreadsTyped, FreeRunner, Jobs, NoJob

\* Every step that is not a crash, a pop, a launch or the end of a thread is
\* quiet.
LEMMA SlotSteps ==
  ASSUME TypeOK, [Next]_vars
  PROVE  \/ Quiet \/ Crash \/ ScanPop
         \/ \E r \in Runners : Launch(r) \/ RunnerLeave(r)
<1> USE DEF Quiet, TypeOK
<1>1. ASSUME NEW r \in Runners, RunnerStep(r) PROVE Quiet \/ RunnerLeave(r)
  BY <1>1 DEF RunnerStep, RunnerStart, RunnerBegin, RunnerCheck, HandlerEnds,
     RunnerFinalRead, RunnerFinish, RunnerExcept, RunnerFail, HandleControlStop,
     RunnerKeeps, Goto, GotoStop, ThreadsTyped, schedVars
<1>2. ASSUME Restart \/ BootStep \/ RequestStop \/ NotifyStop PROVE Quiet
  BY <1>2 DEF Restart, BootStep, BootRow, BootDone, RequestStop, NotifyStop, Notify, schedVars
<1>3. ASSUME SchedulerStep
      PROVE  Quiet \/ ScanPop \/ \E r \in Runners : Launch(r)
  BY <1>3 DEF SchedulerStep, SchedulerQuits, SchedulerWaits, SchedulerScans, ScanSkip,
     ScanEnd, PollTimeout
<1>4. ASSUME ClockTurns \/ UNCHANGED vars PROVE Quiet
  BY <1>4 DEF ClockTurns, vars, schedVars
<1>5. ASSUME NEW c \in Clients, NewRequest(c) PROVE Quiet
  BY <1>5 DEF NewRequest, ClearHistory, CreateJob, ReuseJob, CreateReindex, PauseRequest,
     ResumeRequest, RetryRequest, DeleteRequest, ClientKeeps
<1>6. ASSUME NEW c \in Clients, ClientStep(c) PROVE Quiet
  BY <1>6 DEF ClientStep, BatchEnds, AbandonRow, Enqueue, LookAtReused, Unpend,
     WriteControl, Requeue, NotifyPolicy, Notify, ClientKeeps
<1>7. ASSUME NEW c \in Clients, SavePolicy(c) \/ \E p \in Payloads : BatchRow(c, p) PROVE Quiet
  BY <1>7 DEF SavePolicy, BatchRow, ClientKeeps
<1> QED BY <1>1, <1>2, <1>3, <1>4, <1>5, <1>6, <1>7 DEF Next

\* Finitely many threads, so the count is a number.
LEMMA LiveIsFinite == IsFiniteSet(Live) /\ Cardinality(Live) \in Nat
BY ThreadsAssumption, FS_Subset, FS_CardinalityType DEF Live

\* A step that leaves the jobs of all threads alone leaves the count alone.
LEMMA SameLive ==
  ASSUME TypeOK, TypeOK', \A r \in Runners : runner'[r].job = runner[r].job
  PROVE  Live' = Live
<1>1. \A r \in Runners : /\ runner[r].pc = "free" <=> runner[r].job = NoJob
                         /\ runner'[r].pc = "free" <=> runner'[r].job = NoJob
  BY DEF TypeOK, ThreadsTyped, FreeRunner, Jobs, NoJob
<1> QED BY <1>1 DEF Live

\* A launched thread is one thread more.
LEMMA LaunchLive ==
  ASSUME TypeOK, NEW r \in Runners, Launch(r)
  PROVE  /\ r \notin Live /\ Live' = Live \cup {r}
         /\ Cardinality(Live') = Cardinality(Live) + 1
<1>1. runner[r].pc = "free"
      /\ runner' = [runner EXCEPT ![r] = [pc |-> "start", job |-> chosen, signal |-> "none"]]
  BY DEF Launch
<1>2. runner'[r].pc # "free" /\ \A s \in Runners \ {r} : runner'[s] = runner[s]
  BY <1>1 DEF TypeOK, ThreadsTyped
<1>3. r \notin Live /\ Live' = Live \cup {r}
  BY <1>1, <1>2 DEF Live
<1> QED BY <1>3, LiveIsFinite, FS_AddElement

\* A thread that leaves is one thread less.
LEMMA LeaveLive ==
  ASSUME TypeOK, NEW r \in Runners, RunnerLeave(r)
  PROVE  /\ r \in Live /\ Live' = Live \ {r}
         /\ Cardinality(Live) > 0 /\ Cardinality(Live') = Cardinality(Live) - 1
<1>1. runner[r].pc = "leave" /\ runner' = [runner EXCEPT ![r] = FreeRunner]
  BY DEF RunnerLeave
<1>2. runner'[r].pc = "free" /\ \A s \in Runners \ {r} : runner'[s] = runner[s]
  BY <1>1 DEF TypeOK, ThreadsTyped, FreeRunner
<1>3. r \in Live /\ Live' = Live \ {r}
  BY <1>1, <1>2 DEF Live
<1>4. Cardinality(Live) # 0
  BY <1>3, LiveIsFinite, FS_EmptySet
<1> QED BY <1>3, <1>4, LiveIsFinite, FS_RemoveElement

\* The counter is compared with the cap when a scan starts and moved when the
\* job is popped; the scan holds the lock, so nothing moves it in between.
CapHolds == active <= Cap /\ (sched = "scan" => active < Cap)

SlotInv == SlotAccounting /\ CapHolds

\* A scan is entered only below the cap.
LEMMA ScanStarts ==
  ASSUME TypeOK, [Next]_vars, CapHolds, Quiet
  PROVE  CapHolds'
<1> SUFFICES ASSUME sched' = "scan", sched # "scan"
             PROVE  active < Cap
  BY DEF CapHolds, Quiet
<1>a. active \in Nat /\ Cap \in Nat
  BY ThreadsAssumption DEF TypeOK, SchedulerTyped
<1>1. CASE SchedulerScans
  BY <1>1, <1>a DEF SchedulerScans, Idle
<1>2. ~\E r \in Runners : RunnerStep(r)
  BY DEF RunnerStep, RunnerStart, RunnerBegin, RunnerCheck, HandlerEnds, RunnerFinalRead,
     RunnerFinish, RunnerExcept, RunnerFail, HandleControlStop, RunnerLeave, RunnerKeeps,
     Notify, schedVars
<1>3. ~\E c \in Clients : NewRequest(c) \/ SavePolicy(c) \/ \E p \in Payloads : BatchRow(c, p)
  BY DEF NewRequest, ClearHistory, CreateJob, ReuseJob, CreateReindex, PauseRequest,
     ResumeRequest, RetryRequest, DeleteRequest, SavePolicy, BatchRow, ClientKeeps
<1>4. ~\E c \in Clients : ClientStep(c)
  BY DEF ClientStep, BatchEnds, AbandonRow, Enqueue, LookAtReused, Unpend, WriteControl,
     Requeue, NotifyPolicy, Notify, ClientKeeps
<1> QED BY <1>1, <1>2, <1>3, <1>4 DEF Next, vars, Restart, BootStep, BootRow, BootDone,
   Crash, RequestStop, NotifyStop, Notify, ClockTurns, SchedulerStep, SchedulerQuits,
   SchedulerWaits, ScanSkip, ScanPop, ScanEnd, PollTimeout, Launch, schedVars

\* Each step that moves the counter moves the count it stands for.
LEMMA SlotStep ==
  ASSUME TypeOK, TypeOK', SlotInv, [Next]_vars
  PROVE  SlotInv'
<1> USE DEF SlotInv, SlotAccounting
<1>a. active \in Nat /\ Cap \in Nat \ {0} /\ Cardinality(Live) \in Nat
  BY ThreadsAssumption, LiveIsFinite DEF TypeOK, SchedulerTyped
<1>1. CASE Quiet
  BY <1>1, SameLive, ScanStarts DEF Quiet, InHand
<1>2. CASE Crash
  <2>1. Live' = {} /\ Cardinality(Live') = 0
    BY <1>2, FS_EmptySet DEF Crash, Live, FreeRunner
  <2>2. active' = 0 /\ sched' = "down"
    BY <1>2 DEF Crash
  <2> QED BY <1>a, <2>1, <2>2 DEF InHand, CapHolds
<1>3. CASE ScanPop
  <2>1. Live' = Live
    BY <1>3 DEF ScanPop, Live
  <2>2. active' = active + 1 /\ sched = "scan" /\ sched' = "chosen"
    BY <1>3 DEF ScanPop
  <2> QED BY <1>a, <2>1, <2>2 DEF InHand, CapHolds
<1>4. ASSUME NEW r \in Runners, Launch(r) PROVE SlotInv'
  <2>1. active' = active /\ sched = "chosen" /\ sched' = "ready"
    BY <1>4 DEF Launch
  <2> QED BY <1>4, <1>a, <2>1, LaunchLive DEF InHand, CapHolds
<1>5. ASSUME NEW r \in Runners, RunnerLeave(r) PROVE SlotInv'
  <2>1. sched # "scan" /\ sched' # "scan" /\ (sched = "chosen" <=> sched' = "chosen")
    BY <1>5 DEF RunnerLeave, LockFree, Notify
  <2>2. InHand \in {0, 1} /\ InHand' = InHand
    BY <2>1 DEF InHand
  <2>3. Cardinality(Live) > 0 /\ Cardinality(Live') = Cardinality(Live) - 1
    BY <1>5, LeaveLive
  <2>4. active > 0
    BY <1>a, <2>2, <2>3
  <2>5. active' = active - 1
    BY <1>5, <2>4 DEF RunnerLeave
  <2> QED BY <1>a, <2>1, <2>2, <2>3, <2>5 DEF CapHolds
<1> QED BY <1>1, <1>2, <1>3, <1>4, <1>5, SlotSteps

\* The counter is right, and within the cap, in every reachable state.
LEMMA SlotInvariant == Spec => []SlotInv
<1>1. Init => SlotInv
  <2>1. ASSUME Init PROVE Live = {} /\ Cardinality(Live) = 0
    BY <2>1, FS_EmptySet DEF Init, Live, FreeRunner
  <2> QED BY <2>1, ThreadsAssumption DEF Init, SlotInv, SlotAccounting, CapHolds, InHand
<1>2. TypeOK /\ TypeOK' /\ SlotInv /\ [Next]_vars => SlotInv'
  BY SlotStep
<1> QED BY <1>1, <1>2, Typing, PTL DEF Spec

\* _ACTIVE_JOBS is exactly the threads alive and the job in hand: no exit path
\* of job_runner leaks a slot or returns it twice.
THEOREM SlotsCounted == Spec => []SlotAccounting
BY SlotInvariant, PTL DEF SlotInv

-----------------------------------------------------------------------------
(* The abstract pool.                                                      *)

\* A step of the queue is a step of the pool, or leaves the holders alone.
LEMMA PoolStep ==
  ASSUME TypeOK, TypeOK', SlotInv, [Next]_vars
  PROVE  [Pool!Next]_[r \in Runners |-> runner[r].job]
<1> DEFINE holder == [r \in Runners |-> runner[r].job]
<1>1. CASE Quiet
  BY <1>1 DEF Quiet
<1>2. CASE Crash
  BY <1>2 DEF Crash, FreeRunner, Pool!Next, Pool!Halt
<1>3. CASE ScanPop
  BY <1>3 DEF ScanPop
<1>4. ASSUME NEW r \in Runners, Launch(r) PROVE Pool!Next
  <2>1. chosen \in Jobs /\ [j \in Jobs |-> "internal"][chosen] = "internal"
    BY <1>4 DEF Launch, TypeOK, SchedulerTyped
  <2>2. Cardinality(Live) < Cap
    BY <1>4, LiveIsFinite, ThreadsAssumption
       DEF Launch, SlotInv, SlotAccounting, InHand, CapHolds
  <2>3. Pool!Busy = Live
    BY BusyHasJob DEF Pool!Busy, Live
  <2>4. Pool!BusyIn("internal") = Live
    BY <2>3 DEF Pool!BusyIn, Live, TypeOK, ThreadsTyped
  <2>5. /\ Pool!Cardinality(Pool!Busy) < Cap
        /\ Pool!Cardinality(Pool!BusyIn("internal")) < Cap
    BY <2>2, <2>3, <2>4 DEF Pool!Cardinality, Cardinality
  <2>6. holder[r] = NoJob /\ holder' = [holder EXCEPT ![r] = chosen]
    BY <1>4, BusyHasJob DEF Launch, TypeOK, ThreadsTyped
  <2> QED BY <2>1, <2>5, <2>6 DEF Pool!Next, Pool!Start
<1>5. ASSUME NEW r \in Runners, RunnerLeave(r) PROVE Pool!Next
  <2>1. holder[r] # NoJob /\ holder' = [holder EXCEPT ![r] = NoJob]
    BY <1>5, BusyHasJob DEF RunnerLeave, TypeOK, ThreadsTyped, FreeRunner
  <2> QED BY <2>1 DEF Pool!Next, Pool!Finish
<1> QED BY <1>1, <1>2, <1>3, <1>4, <1>5, SlotSteps

\* The queue implements a pool of at most INTERNAL_JOB_MAX_CONCURRENT threads,
\* whatever the users and the maintenance policy do.
THEOREM SlotsImplemented == Spec => ImplementsSlots
<1>1. Init => Pool!Init
  BY DEF Init, Pool!Init, FreeRunner
<1>2. /\ TypeOK /\ TypeOK' /\ SlotInv /\ [Next]_vars
      => [Pool!Next]_[r \in Runners |-> runner[r].job]
  BY PoolStep
<1> QED BY <1>1, <1>2, Typing, SlotInvariant, PTL DEF Spec, ImplementsSlots, Pool!Spec

-----------------------------------------------------------------------------
(* No job is forgotten in mid-course.                                      *)

(* Before the scheduler runs there is neither a thread nor a request.      *)
BootIsAlone ==
  sched \in {"down", "boot"} =>
    /\ \A r \in Runners : runner[r] = FreeRunner
    /\ \A c \in Clients : client[c] = IdleClient

Unvisited(j) == sched = "boot" /\ j \in boot

(* Where a thread is while its row may say "running": past its first write *)
(* and before its last, or about to write.                                 *)
Working == RunnerPCs \ {"free", "start", "leave"}
WorkedOn(j) == \E r \in Runners : runner[r].job = j /\ runner[r].pc \in Working

(* Where a thread will look at a row that says "queued", or write it.      *)
Claiming == {"start", "begin", "except", "fail", "stop"}
Expected(j) ==
  \/ Listed(pending, j)
  \/ sched = "chosen" /\ chosen = j
  \/ \E r \in Runners : runner[r].job = j /\ runner[r].pc \in Claiming
  \/ \E c \in Clients : Listed(client[c].todo, j)

RunningOwned ==
  \A j \in Jobs : status[j] = "running" => sched = "down" \/ Unvisited(j) \/ WorkedOn(j)

QueuedOwned ==
  \A j \in Jobs :
    status[j] = "queued" => sched \in {"down", "exited"} \/ Unvisited(j) \/ Expected(j)

(* Only a batch has several jobs to do something to.                       *)
Single == \A c \in Clients : \/ client[c].pc \in {"batch", "abandon", "enqueue"}
                            \/ Len(client[c].todo) <= 1

OwnerInv == BootIsAlone /\ Single /\ RunningOwned /\ QueuedOwned

\* The initial states have no thread, no request and no scheduler.
LEMMA OwnerInit == ASSUME Init PROVE OwnerInv
BY DEF Init, OwnerInv, BootIsAlone, RunningOwned, QueuedOwned, Single, IdleClient

\* While the scheduler is not there, little happens.
LEMMA AloneSteps ==
  ASSUME TypeOK, BootIsAlone, [Next]_vars, sched \in {"down", "boot"}
  PROVE  Restart \/ BootStep \/ Crash \/ NotifyStop \/ ClockTurns \/ UNCHANGED vars
<1>1. ~\E r \in Runners : RunnerStep(r)
  BY DEF BootIsAlone, FreeRunner, RunnerStep, RunnerStart, RunnerBegin, RunnerCheck, HandlerEnds,
     RunnerFinalRead, RunnerFinish, RunnerExcept, RunnerFail, HandleControlStop, RunnerLeave
<1>2. ~\E c \in Clients : NewRequest(c) \/ SavePolicy(c) \/ \E p \in Payloads : BatchRow(c, p)
  <2>1. \A c \in Clients : client[c].pc = "idle" /\ \A op : ~Serving(c, op)
    BY DEF BootIsAlone, IdleClient, Serving
  <2> QED BY <2>1 DEF NewRequest, ClearHistory, CreateJob, ReuseJob, CreateReindex,
     PauseRequest, ResumeRequest, RetryRequest, DeleteRequest, SavePolicy, BatchRow
<1>3. ~\E c \in Clients : ClientStep(c)
  BY DEF BootIsAlone, IdleClient, ClientStep, BatchEnds, AbandonRow, Enqueue, LookAtReused,
     Unpend, WriteControl, Requeue, NotifyPolicy
<1>4. ~SchedulerStep /\ ~RequestStop
  BY DEF SchedulerStep, SchedulerQuits, SchedulerWaits, SchedulerScans, ScanSkip, ScanPop,
     ScanEnd, PollTimeout, Launch, RequestStop
<1> QED BY <1>1, <1>2, <1>3, <1>4 DEF Next

\* A running program gets to that state by a crash only.
LEMMA UpSteps ==
  ASSUME TypeOK, [Next]_vars, sched \notin {"down", "boot"}
  PROVE  Crash \/ (sched' \notin {"down", "boot"} /\ ~Restart /\ ~BootStep)
<1>1. ~Restart /\ ~BootStep
  BY DEF Restart, BootStep, BootRow, BootDone
<1>2. ASSUME NEW r \in Runners, RunnerStep(r) PROVE sched' \notin {"down", "boot"}
  BY <1>2 DEF RunnerStep, RunnerStart, RunnerBegin, RunnerCheck, HandlerEnds, RunnerFinalRead,
     RunnerFinish, RunnerExcept, RunnerFail, HandleControlStop, RunnerLeave, RunnerKeeps, Notify,
     schedVars
<1>3. ASSUME NEW c \in Clients, NewRequest(c) \/ SavePolicy(c) \/ \E p \in Payloads : BatchRow(c, p)
      PROVE  sched' \notin {"down", "boot"}
  BY <1>3 DEF NewRequest, ClearHistory, CreateJob, ReuseJob, CreateReindex,
     PauseRequest, ResumeRequest, RetryRequest, DeleteRequest, SavePolicy, BatchRow
<1>4. ASSUME NEW c \in Clients, ClientStep(c) PROVE sched' \notin {"down", "boot"}
  BY <1>4 DEF ClientStep, BatchEnds, AbandonRow, Enqueue, LookAtReused, Unpend, WriteControl,
     Requeue, NotifyPolicy, Notify
<1>5. ASSUME SchedulerStep PROVE sched' \notin {"down", "boot"}
  BY <1>5 DEF SchedulerStep, SchedulerQuits, SchedulerWaits, SchedulerScans, ScanSkip, ScanPop,
     ScanEnd, PollTimeout, Launch
<1> QED BY <1>1, <1>2, <1>3, <1>4, <1>5 DEF Next, RequestStop, NotifyStop, Notify, ClockTurns,
   vars, schedVars

\* Before the scheduler runs there is neither a thread nor a request.
LEMMA AloneStep ==
  ASSUME TypeOK, BootIsAlone, [Next]_vars
  PROVE  BootIsAlone'
<1>1. CASE Crash
  BY <1>1 DEF Crash, BootIsAlone
<1>2. CASE sched \in {"down", "boot"} /\ ~Crash
  BY <1>2, AloneSteps DEF BootIsAlone, Restart, BootStep, BootRow, BootDone, NotifyStop, Notify,
     ClockTurns, vars
<1>3. CASE sched \notin {"down", "boot"} /\ ~Crash
  BY <1>3, UpSteps DEF BootIsAlone
<1> QED BY <1>1, <1>2, <1>3

\* When the table is no longer than the limit, a restart looks at every row.
LEMMA AllResumable ==
  ASSUME MaxJobs <= ResumeLimit
  PROVE  Resumable = Rows
<1> SUFFICES ASSUME NEW j \in Jobs
             PROVE  Cardinality({k \in Rows : k > j}) < ResumeLimit
  BY DEF Resumable, Rows
<1>1. IsFiniteSet(Jobs) /\ Cardinality(Jobs) = MaxJobs
  BY SizesAssumption, FS_Interval DEF Jobs
<1>2. IsFiniteSet(Jobs \ {j}) /\ Cardinality(Jobs \ {j}) = MaxJobs - 1
  BY <1>1, FS_RemoveElement
<1>3. {k \in Rows : k > j} \subseteq Jobs \ {j}
  BY DEF Rows, Jobs
<1>4. Cardinality({k \in Rows : k > j}) <= MaxJobs - 1 /\ Cardinality({k \in Rows : k > j}) \in Nat
  BY <1>2, <1>3, FS_Subset, FS_CardinalityType
<1> QED BY <1>4, SizesAssumption

\* A write of another status takes "running" from a row, or leaves it.
LEMMA UpdateOther ==
  ASSUME RowsTyped, NEW j, NEW s, Update(j, s) \/ DeleteRow(j)
  PROVE  \A k \in Jobs : \/ status'[k] = status[k]
                         \/ k = j /\ (status'[k] = s \/ status'[k] = NoRow)
BY DEF RowsTyped, Update, DeleteRow

\* A request or the scheduler leaves what the threads work on alone, and
\* writes "running" to no row.
LEMMA AsideSteps ==
  ASSUME TypeOK, [Next]_vars,
         ~\E r \in Runners : Launch(r) \/ RunnerStep(r), ~Crash, ~Restart, ~BootStep
  PROVE  /\ runner' = runner /\ boot' = boot
         /\ \A j \in Jobs : status'[j] = "running" => status[j] = "running"
<1> USE DEF TypeOK
<1>1. CASE \/ RequestStop \/ NotifyStop \/ ClockTurns \/ UNCHANGED vars \/ SchedulerStep
  BY <1>1 DEF RequestStop, NotifyStop, ClockTurns, vars, dbVars, SchedulerStep, SchedulerQuits,
     SchedulerWaits, SchedulerScans, ScanSkip, ScanPop, ScanEnd, PollTimeout
<1>2. ASSUME NEW c \in Clients, NEW p \in Payloads,
             CreateJob(c, p) \/ CreateReindex(c, p) \/ BatchRow(c, p)
      PROVE  /\ runner' = runner /\ boot' = boot
             /\ \A j \in Jobs : status'[j] = "running" => status[j] = "running"
  BY <1>2 DEF CreateJob, CreateReindex, BatchRow, InsertRow, ClientKeeps, RowsTyped
<1>3. ASSUME NEW c \in Clients, NewRequest(c) \/ SavePolicy(c)
      PROVE  /\ runner' = runner /\ boot' = boot
             /\ \A j \in Jobs : status'[j] = "running" => status[j] = "running"
  BY <1>2, <1>3 DEF NewRequest, SavePolicy, ClearHistory, ReuseJob, PauseRequest, ResumeRequest,
     RetryRequest, DeleteRequest, ClientKeeps, RowsTyped, dbVars, NoRow
<1>4. ASSUME NEW c \in Clients, AbandonRow(c) \/ WriteControl(c) \/ Requeue(c)
      PROVE  /\ runner' = runner /\ boot' = boot
             /\ \A j \in Jobs : status'[j] = "running" => status[j] = "running"
  BY <1>4 DEF AbandonRow, WriteControl, Requeue, ClientKeeps, Update, DeleteRow, RowsTyped, NoRow
<1>5. ASSUME NEW c \in Clients, ClientStep(c)
      PROVE  /\ runner' = runner /\ boot' = boot
             /\ \A j \in Jobs : status'[j] = "running" => status[j] = "running"
  BY <1>4, <1>5 DEF ClientStep, BatchEnds, Enqueue, LookAtReused, Unpend, NotifyPolicy,
     ClientKeeps, dbVars
<1> QED BY <1>1, <1>2, <1>3, <1>5 DEF Next, SchedulerStep

\* What a step of a thread does to the thread and to its row.
LEMMA RunnerStepsWrite ==
  ASSUME TypeOK, NEW r \in Runners, RunnerStep(r)
  PROVE  LET j == runner[r].job
         IN  /\ j \in Jobs
             /\ \A q \in Runners \ {r} : runner'[q] = runner[q]
             /\ \A k \in Jobs \ {j} : status'[k] = status[k]
             /\ \/ runner'[r].job = j /\ runner'[r].pc \in Working
                \/ runner[r].pc \notin Working /\ status' = status
                \/ status'[j] # "running"
             /\ \/ runner'[r].job = j /\ runner'[r].pc \in Claiming
                \/ runner[r].pc \notin Claiming /\ (status'[j] = "queued" => status[j] = "queued")
                \/ status'[j] # "queued"
<1> DEFINE j == runner[r].job
<1> USE DEF TypeOK, RowsTyped, ThreadsTyped
<1>1. runner[r].pc # "free"
  BY DEF RunnerStep, RunnerStart, RunnerBegin, RunnerCheck, HandlerEnds, RunnerFinalRead,
     RunnerFinish, RunnerExcept, RunnerFail, HandleControlStop, RunnerLeave
<1>2. j \in Jobs
  BY <1>1
<1>3. \A q \in Runners \ {r} : runner'[q] = runner[q]
  BY DEF RunnerStep, RunnerStart, RunnerBegin, RunnerCheck, HandlerEnds, RunnerFinalRead,
     RunnerFinish, RunnerExcept, RunnerFail, HandleControlStop, RunnerLeave, Goto, GotoStop
<1>4. \A k \in Jobs \ {j} : status'[k] = status[k]
  BY DEF RunnerStep, RunnerStart, RunnerBegin, RunnerCheck, HandlerEnds, RunnerFinalRead,
     RunnerFinish, RunnerExcept, RunnerFail, HandleControlStop, RunnerLeave, Update, DeleteRow,
     dbVars
<1>5. /\ \/ runner'[r].job = j /\ runner'[r].pc \in Working
         \/ runner[r].pc \notin Working /\ status' = status
         \/ status'[j] # "running"
      /\ \/ runner'[r].job = j /\ runner'[r].pc \in Claiming
         \/ runner[r].pc \notin Claiming /\ (status'[j] = "queued" => status[j] = "queued")
         \/ status'[j] # "queued"
  <2> USE <1>2 DEF Working, Claiming, RunnerPCs
  <2>1. CASE RunnerStart(r)
    BY <2>1 DEF RunnerStart, Goto, Runnable
  <2>2. CASE RunnerBegin(r)
    BY <2>2 DEF RunnerBegin, Goto, Update, NoRow
  <2>3. CASE RunnerCheck(r)
    BY <2>3 DEF RunnerCheck, Goto, GotoStop
  <2>4. CASE HandlerEnds(r) \/ RunnerFinalRead(r)
    BY <2>4 DEF HandlerEnds, RunnerFinalRead, Goto
  <2>5. CASE RunnerFinish(r) \/ RunnerFail(r)
    BY <2>5 DEF RunnerFinish, RunnerFail, Goto, Update, NoRow
  <2>6. CASE RunnerExcept(r)
    BY <2>6 DEF RunnerExcept, Goto, GotoStop
  <2>7. CASE HandleControlStop(r)
    BY <2>7 DEF HandleControlStop, Goto, Update, DeleteRow, NoRow, Signals
  <2>8. CASE RunnerLeave(r)
    BY <2>8 DEF RunnerLeave, FreeRunner, dbVars
  <2> QED BY <2>1, <2>2, <2>3, <2>4, <2>5, <2>6, <2>7, <2>8 DEF RunnerStep
<1> QED BY <1>2, <1>3, <1>4, <1>5

\* A row says "running" only while a thread works on it, also when two threads
\* share the job.
LEMMA RunningStep ==
  ASSUME MaxJobs <= ResumeLimit, TypeOK, BootIsAlone, RunningOwned, [Next]_vars
  PROVE  RunningOwned'
<1> SUFFICES ASSUME NEW j \in Jobs, status'[j] = "running"
             PROVE  sched' = "down" \/ Unvisited(j)' \/ WorkedOn(j)'
  BY DEF RunningOwned
<1> USE DEF RunningOwned
<1>1. CASE Crash
  BY <1>1 DEF Crash
<1>2. CASE Restart
  BY <1>2, AllResumable DEF Restart, Unvisited, Rows, dbVars, NoRow
<1>3. ASSUME NEW k \in Jobs, BootRow(k)
      PROVE  sched' = "down" \/ Unvisited(j)' \/ WorkedOn(j)'
  <2>1. status[j] = "running" /\ j # k
    BY <1>3 DEF BootRow, Update, DeleteRow, Runnable, TypeOK, RowsTyped, NoRow
  <2>2. ~WorkedOn(j) /\ sched = "boot"
    BY <1>3 DEF BootRow, BootIsAlone, WorkedOn, Working, FreeRunner
  <2> QED BY <1>3, <2>1, <2>2 DEF BootRow, Unvisited, schedVars
<1>4. CASE BootDone
  BY <1>4 DEF BootDone, Unvisited, WorkedOn, dbVars
<1>5. ASSUME NEW r \in Runners, Launch(r) PROVE WorkedOn(j)'
  <2>1. status[j] = "running" /\ sched = "chosen" /\ runner[r].pc = "free"
        /\ \A q \in Runners \ {r} : runner'[q] = runner[q]
    BY <1>5 DEF Launch, dbVars
  <2> QED BY <2>1 DEF Unvisited, WorkedOn, Working
<1>6. ASSUME NEW r \in Runners, RunnerStep(r) PROVE WorkedOn(j)'
  <2>1. sched \notin {"down", "boot"}
    BY <1>6, AloneSteps DEF BootIsAlone, FreeRunner, RunnerStep, RunnerStart, RunnerBegin,
       RunnerCheck, HandlerEnds, RunnerFinalRead, RunnerFinish, RunnerExcept, RunnerFail,
       HandleControlStop, RunnerLeave
  <2>2. CASE j = runner[r].job
    <3>1. CASE runner'[r].job = j /\ runner'[r].pc \in Working
      BY <3>1 DEF WorkedOn
    <3>2. CASE runner[r].pc \notin Working /\ status' = status
      <4>1. WorkedOn(j)
        BY <2>1, <3>2 DEF Unvisited
      <4>2. PICK q \in Runners : runner[q].job = j /\ runner[q].pc \in Working
        BY <4>1 DEF WorkedOn
      <4>3. q # r
        BY <3>2, <4>2
      <4> QED BY <1>6, <4>2, <4>3, RunnerStepsWrite DEF WorkedOn
    <3> QED BY <1>6, <2>2, <3>1, <3>2, RunnerStepsWrite
  <2>3. CASE j # runner[r].job
    <3>1. status[j] = "running"
      BY <1>6, <2>3, RunnerStepsWrite
    <3>2. PICK q \in Runners : runner[q].job = j /\ runner[q].pc \in Working
      BY <2>1, <3>1 DEF Unvisited, WorkedOn
    <3>3. q # r
      BY <2>3, <3>2
    <3> QED BY <1>6, <3>2, <3>3, RunnerStepsWrite DEF WorkedOn
  <2> QED BY <2>2, <2>3
<1>7. CASE /\ ~\E r \in Runners : Launch(r) \/ RunnerStep(r)
           /\ ~Crash /\ ~Restart /\ ~BootStep
  <2>1. runner' = runner /\ boot' = boot /\ status[j] = "running"
    BY <1>7, AsideSteps
  <2>2. CASE sched \in {"down", "boot"}
    <3>1. sched' = sched
      BY <1>7, <2>2, AloneSteps DEF NotifyStop, Notify, ClockTurns, vars, schedVars
    <3> QED BY <2>1, <3>1 DEF Unvisited, WorkedOn
  <2>3. CASE sched \notin {"down", "boot"}
    BY <2>1, <2>3 DEF Unvisited, WorkedOn
  <2> QED BY <2>2, <2>3
<1> QED BY <1>1, <1>2, <1>3, <1>4, <1>5, <1>6, <1>7 DEF BootStep

\* Every request but a batch is about one job.
LEMMA SingleStep ==
  ASSUME TypeOK, Single, [Next]_vars
  PROVE  Single'
<1> USE DEF TypeOK, ClientsTyped, Single
<1>1. CASE UNCHANGED client
  BY <1>1
<1>2. CASE Crash
  BY <1>2 DEF Crash, IdleClient
<1>3. ASSUME NEW c \in Clients, NEW pc \in ClientPCs,
             ClientAt(c, pc, <<>>) \/ \E j \in Jobs : ClientAt(c, pc, <<j>>)
      PROVE  Single'
  <2>1. CASE ClientAt(c, pc, <<>>)
    BY <2>1, EmptySeq DEF ClientAt
  <2>2. ASSUME NEW j \in Jobs, ClientAt(c, pc, <<j>>) PROVE Single'
    <3>1. Len(<<j>>) = 1
      OBVIOUS
    <3> QED BY <2>2, <3>1 DEF ClientAt
  <2> QED BY <1>3, <2>1, <2>2
<1>4. ASSUME NEW c \in Clients, NEW pc \in {"batch", "abandon", "enqueue"}, NEW js,
             ClientAt(c, pc, js)
      PROVE  Single'
  BY <1>4 DEF ClientAt
<1>5. ASSUME NEW c \in Clients, ClientDone(c) PROVE Single'
  BY <1>5 DEF ClientDone, IdleClient
<1>6. ASSUME NEW c \in Clients, NEW pc \in {"abandon", "enqueue"}, ClientNext(c, pc) PROVE Single'
  BY <1>4, <1>5, <1>6 DEF ClientNext, ClientDone
<1>7. ASSUME NEW c \in Clients, NEW p \in Payloads,
             CreateJob(c, p) \/ CreateReindex(c, p) \/ BatchRow(c, p) \/ ReuseJob(c, p)
      PROVE  Single'
  <2>1. CASE ReuseJob(c, p)
    <3>1. PICK j \in Jobs : ClientAt(c, "look", <<j>>)
      BY <2>1 DEF ReuseJob, ActiveOf
    <3> QED BY <1>3, <3>1 DEF ClientPCs
  <2> QED BY <1>4, <1>7, <2>1 DEF CreateJob, CreateReindex, BatchRow
<1>8. ASSUME NEW c \in Clients, NewRequest(c) PROVE Single'
  <2>1. ASSUME NEW j \in Jobs, \/ PauseRequest(c, j) \/ ResumeRequest(c, j)
                               \/ RetryRequest(c, j) \/ DeleteRequest(c, j)
        PROVE  Single'
    BY <1>3, <2>1 DEF PauseRequest, ResumeRequest, RetryRequest, DeleteRequest, ClientPCs
  <2> QED BY <1>1, <1>7, <1>8, <2>1 DEF NewRequest, ClearHistory
<1>9. ASSUME NEW c \in Clients, SavePolicy(c) PROVE Single'
  BY <1>3, <1>9 DEF SavePolicy, ClientPCs
<1>10. ASSUME NEW c \in Clients, ClientStep(c) PROVE Single'
  <2>1. CASE AbandonRow(c) \/ Enqueue(c)
    BY <1>6, <2>1 DEF AbandonRow, Enqueue
  <2>2. CASE WriteControl(c) \/ NotifyPolicy(c) \/ LookAtReused(c)
    BY <1>4, <1>5, <2>2 DEF WriteControl, NotifyPolicy, LookAtReused
  <2>3. CASE BatchEnds(c) \/ Requeue(c)
    BY <1>4, <2>3 DEF BatchEnds, Requeue
  <2>4. CASE Unpend(c)
    <3>1. PICK pc \in {"writePaused", "deleteRow"} : ClientAt(c, pc, client[c].todo)
      BY <2>4 DEF Unpend
    <3>2. Len(client[c].todo) <= 1
      BY <2>4 DEF Unpend
    <3> QED BY <3>1, <3>2 DEF ClientAt
  <2> QED BY <1>10, <2>1, <2>2, <2>3, <2>4 DEF ClientStep
<1> QED BY <1>1, <1>2, <1>7, <1>8, <1>9, <1>10 DEF Next, BootStep, SchedulerStep, RunnerStep,
   vars, Restart, BootRow, BootDone, RequestStop, NotifyStop, SchedulerQuits,
   SchedulerWaits, SchedulerScans, ScanSkip, ScanPop, ScanEnd, PollTimeout, Launch,
   ClockTurns, RunnerStart, RunnerBegin, RunnerCheck, HandlerEnds, RunnerFinalRead,
   RunnerFinish, RunnerExcept, RunnerFail, HandleControlStop, RunnerLeave, RunnerKeeps

\* The only job of a request is its target.
LEMMA SingleTarget ==
  ASSUME TypeOK, Single, NEW c \in Clients, client[c].pc \notin {"batch", "abandon", "enqueue"},
         NEW j, Listed(client[c].todo, j)
  PROVE  client[c].pc \notin Jobless /\ j = Target(c)
<1>1. client[c].todo \in Seq(Jobs) /\ Len(client[c].todo) <= 1
  BY DEF TypeOK, ClientsTyped, Single
<1>2. PICK i \in 1..Len(client[c].todo) : client[c].todo[i] = j
  BY DEF Listed
<1>3. i = 1 /\ client[c].todo # <<>>
  BY <1>1, <1>2
<1> QED BY <1>1, <1>2, <1>3, HeadTailProperties DEF TypeOK, ClientsTyped, Target

\* A request has its target to do something to.
LEMMA TargetListed ==
  ASSUME TypeOK, NEW c \in Clients, client[c].pc \notin Jobless
  PROVE  Listed(client[c].todo, Target(c))
<1> DEFINE js == client[c].todo
<1>1. js \in Seq(Jobs) /\ js # <<>>
  BY TargetTyped DEF TypeOK
<1>2. Head(js) = js[1] /\ 1 \in 1..Len(js)
  BY <1>1, HeadTailProperties, LenProperties, EmptySeq
<1> QED BY <1>2 DEF Listed, Target

\* A request that has done one of its jobs still has the others.
LEMMA NextCarries ==
  ASSUME TypeOK, NEW c \in Clients, client[c].pc \notin Jobless, NEW pc, ClientNext(c, pc),
         NEW j, Listed(client[c].todo, j), j # Target(c)
  PROVE  Listed(client'[c].todo, j)
<1> DEFINE js == client[c].todo
<1>1. js \in Seq(Jobs) /\ js # <<>>
  BY TargetTyped DEF TypeOK
<1>2. PICK i \in 1..Len(js) : js[i] = j
  BY DEF Listed
<1>3. Head(js) = js[1]
  BY <1>1, HeadTailProperties
<1>4. Len(js) # 1
  BY <1>1, <1>2, <1>3 DEF Target
<1>5. Listed(Tail(js), j)
  BY <1>1, TailLists DEF Target
<1>6. client' = [client EXCEPT ![c] = [pc |-> pc, todo |-> Tail(js)]]
  BY <1>4 DEF ClientNext, ClientAt
<1> HIDE DEF js
<1> QED BY <1>5, <1>6 DEF TypeOK, ClientsTyped

\* A request queues a row that it is going to enqueue, and leaves no queued job
\* before it is listed.
LEMMA RequestsCarry ==
  ASSUME TypeOK, Single, NEW c \in Clients, NEW j \in Jobs,
         NewRequest(c) \/ ClientStep(c) \/ SavePolicy(c) \/ \E p \in Payloads : BatchRow(c, p),
         status'[j] = "queued"
  PROVE  /\ status[j] = "queued" \/ Listed(client'[c].todo, j)
         /\ \A d \in Clients \ {c} : client'[d] = client[d]
         /\ Listed(client[c].todo, j) => Listed(client'[c].todo, j) \/ Listed(pending', j)
         /\ Listed(pending, j) => Listed(pending', j) \/ Listed(client'[c].todo, j)
<1> DEFINE Kept == /\ status[j] = "queued" \/ Listed(client'[c].todo, j)
                   /\ \A d \in Clients \ {c} : client'[d] = client[d]
                   /\ Listed(client[c].todo, j) => Listed(client'[c].todo, j) \/ Listed(pending', j)
                   /\ Listed(pending, j) => Listed(pending', j) \/ Listed(client'[c].todo, j)
<1>t. /\ status \in [Jobs -> Statuses \cup {NoRow}] /\ pending \in Seq(Jobs)
      /\ client \in [Clients -> [pc : ClientPCs, todo : Seq(Jobs)]]
      /\ client[c].pc \in Jobless <=> client[c].todo = <<>>
  BY DEF TypeOK, RowsTyped, PendingTyped, IsList, ClientsTyped
<1>e. client[c].pc \in Jobless => ~Listed(client[c].todo, j)
  BY <1>t DEF Listed
<1>1. ASSUME NEW p \in Payloads, CreateJob(c, p) \/ CreateReindex(c, p) PROVE Kept
  <2>1. client[c].pc = "idle" /\ pending' = pending /\ ClientAt(c, "enqueue", <<nextId>>)
        /\ status' = [status EXCEPT ![nextId] = "queued"]
    BY <1>1 DEF CreateJob, CreateReindex, Serving, InsertRow
  <2>2. client'[c].todo = <<nextId>> /\ \A d \in Clients \ {c} : client'[d] = client[d]
    BY <2>1, <1>t DEF ClientAt
  <2>3. Listed(<<nextId>>, nextId)
    BY DEF Listed
  <2>4. status[j] = "queued" \/ j = nextId
    BY <2>1, <1>t
  <2> QED BY <1>e, <2>1, <2>2, <2>3, <2>4 DEF Jobless
<1>2. ASSUME NEW p \in Payloads, BatchRow(c, p) PROVE Kept
  <2>1. pending' = pending /\ ClientAt(c, "batch", Append(client[c].todo, nextId))
        /\ status' = [status EXCEPT ![nextId] = "queued"] /\ nextId \in Jobs
    BY <1>2, InsertRowTyped DEF BatchRow, InsertRow, TypeOK
  <2>2. client'[c].todo = Append(client[c].todo, nextId)
        /\ \A d \in Clients \ {c} : client'[d] = client[d]
    BY <2>1, <1>t DEF ClientAt
  <2>3. /\ Listed(Append(client[c].todo, nextId), nextId)
        /\ Listed(client[c].todo, j) => Listed(Append(client[c].todo, nextId), j)
    <3>1. client[c].todo \in Seq(Jobs) /\ Len(client[c].todo) \in Nat
      BY <1>t, LenProperties
    <3>2. /\ Len(Append(client[c].todo, nextId)) = Len(client[c].todo) + 1
          /\ \A i \in 1..Len(client[c].todo) : Append(client[c].todo, nextId)[i] = client[c].todo[i]
          /\ Append(client[c].todo, nextId)[Len(client[c].todo) + 1] = nextId
      BY <2>1, <3>1, AppendProperties
    <3> QED BY <3>1, <3>2 DEF Listed
  <2>4. status[j] = "queued" \/ j = nextId
    BY <2>1, <1>t
  <2> QED BY <2>1, <2>2, <2>3, <2>4
<1>3. ASSUME NewRequest(c) \/ SavePolicy(c) PROVE Kept
  <2>1. ASSUME client[c].pc \in Jobless, pending' = pending, status'[j] = status[j],
               \A d \in Clients \ {c} : client'[d] = client[d]
        PROVE  Kept
    BY <1>e, <2>1
  <2>2. CASE SavePolicy(c)
    BY <1>t, <2>1, <2>2 DEF SavePolicy, Serving, ClientAt, Jobless
  <2>3. CASE ClearHistory(c)
    BY <1>t, <2>1, <2>3 DEF ClearHistory, Serving, Jobless, NoRow
  <2>4. ASSUME NEW p \in Payloads, ReuseJob(c, p) PROVE Kept
    BY <1>t, <2>1, <2>4 DEF ReuseJob, Serving, ClientAt, Jobless, dbVars
  <2>5. ASSUME NEW k \in Jobs, \/ PauseRequest(c, k) \/ ResumeRequest(c, k)
                               \/ RetryRequest(c, k) \/ DeleteRequest(c, k)
        PROVE  Kept
    BY <1>t, <2>1, <2>5 DEF PauseRequest, ResumeRequest, RetryRequest, DeleteRequest, Serving,
       ClientAt, Jobless, dbVars
  <2> QED BY <1>1, <1>3, <2>2, <2>3, <2>4, <2>5 DEF NewRequest
<1>4. CASE BatchEnds(c)
  <2>1. client'[c].todo = client[c].todo /\ pending' = pending /\ status' = status
        /\ \A d \in Clients \ {c} : client'[d] = client[d]
    BY <1>4, <1>t DEF BatchEnds, ClientAt, dbVars
  <2> QED BY <2>1
<1>5. CASE AbandonRow(c)
  <2>1. j # Target(c) /\ status[j] = "queued"
    BY <1>5, <1>t DEF AbandonRow, Update, NoRow
  <2>2. pending' = pending /\ ClientNext(c, "abandon") /\ client[c].pc \notin Jobless
    BY <1>5 DEF AbandonRow, Jobless
  <2>3. \A d \in Clients \ {c} : client'[d] = client[d]
    BY <2>2, <1>t DEF ClientNext, ClientAt
  <2> QED BY <2>1, <2>2, <2>3, NextCarries
<1>6. CASE Enqueue(c)
  <2>1. status' = status /\ ClientNext(c, "enqueue") /\ client[c].pc \notin Jobless
        /\ pending' = Enlisted(pending, Target(c))
    BY <1>6 DEF Enqueue, Jobless, dbVars
  <2>2. Target(c) \in Jobs
    BY <2>1, TargetTyped DEF TypeOK
  <2>3. \A d \in Clients \ {c} : client'[d] = client[d]
    BY <2>1, <1>t DEF ClientNext, ClientAt
  <2>4. Listed(pending', Target(c)) /\ (Listed(pending, j) => Listed(pending', j))
    BY <1>t, <2>1, <2>2, EnlistedKeeps
  <2> QED BY <2>1, <2>3, <2>4, NextCarries
<1>7. CASE LookAtReused(c)
  <2>1. status' = status /\ pending' = pending /\ client[c].pc = "look"
    BY <1>7 DEF LookAtReused, dbVars
  <2>2. Listed(client[c].todo, j) => ClientAt(c, "enqueue", client[c].todo)
    BY <1>7, <2>1, SingleTarget DEF LookAtReused
  <2>3. \A d \in Clients \ {c} : client'[d] = client[d]
    BY <1>7, <1>t DEF LookAtReused, ClientAt, ClientDone
  <2>4. Listed(client[c].todo, j) => Listed(client'[c].todo, j)
    BY <1>t, <2>2 DEF ClientAt
  <2> QED BY <2>1, <2>3, <2>4
<1>8. CASE Unpend(c)
  <2>1. status' = status /\ pending' = Unlisted(pending, Target(c)) /\ client[c].pc \notin Jobless
        /\ client'[c].todo = client[c].todo /\ \A d \in Clients \ {c} : client'[d] = client[d]
    BY <1>8, <1>t DEF Unpend, dbVars, ClientAt, Jobless
  <2>2. Listed(client[c].todo, Target(c))
    BY <2>1, TargetListed
  <2>3. j # Target(c) /\ Listed(pending, j) => Listed(pending', j)
    BY <1>t, <2>1, UnlistedKeeps
  <2> QED BY <2>1, <2>2, <2>3
<1>9. CASE WriteControl(c)
  <2>1. j # Target(c) /\ status[j] = "queued" /\ pending' = pending
    BY <1>9, <1>t DEF WriteControl, Update, DeleteRow, NoRow
  <2>2. ~Listed(client[c].todo, j) /\ \A d \in Clients \ {c} : client'[d] = client[d]
    BY <1>9, <1>t, <2>1, SingleTarget DEF WriteControl, ClientDone
  <2> QED BY <2>1, <2>2
<1>10. CASE Requeue(c)
  <2>1. status[j] = "queued" \/ j = Target(c)
    BY <1>10, <1>t DEF Requeue, Update, NoRow
  <2>2. pending' = pending /\ client'[c].todo = client[c].todo /\ client[c].pc \notin Jobless
        /\ \A d \in Clients \ {c} : client'[d] = client[d]
    BY <1>10, <1>t DEF Requeue, ClientAt, Jobless
  <2>3. Listed(client[c].todo, Target(c))
    BY <2>2, TargetListed
  <2> QED BY <2>1, <2>2, <2>3
<1>11. CASE NotifyPolicy(c)
  BY <1>11, <1>t, <1>e DEF NotifyPolicy, ClientDone, dbVars, Jobless
<1> QED BY <1>2, <1>3, <1>4, <1>5, <1>6, <1>7, <1>8, <1>9, <1>10, <1>11 DEF ClientStep

\* What no request and no thread touches stays expected.
LEMMA StaysExpected ==
  ASSUME TypeOK, NEW j \in Jobs, Expected(j),
         Listed(pending, j) => Listed(pending', j) \/ \E c \in Clients : Listed(client'[c].todo, j),
         sched = "chosen" /\ chosen = j =>
           \/ sched' = "chosen" /\ chosen' = j
           \/ \E r \in Runners : runner'[r].job = j /\ runner'[r].pc \in Claiming,
         \A r \in Runners : runner[r].pc \in Claiming => runner'[r] = runner[r],
         \A c \in Clients : Listed(client[c].todo, j) => Listed(client'[c].todo, j) \/ Listed(pending', j)
  PROVE  Expected(j)'
<1>1. CASE Listed(pending, j)
  BY <1>1 DEF Expected
<1>2. CASE sched = "chosen" /\ chosen = j
  BY <1>2 DEF Expected
<1>3. ASSUME NEW r \in Runners, runner[r].job = j, runner[r].pc \in Claiming PROVE Expected(j)'
  BY <1>3 DEF Expected
<1>4. ASSUME NEW c \in Clients, Listed(client[c].todo, j) PROVE Expected(j)'
  BY <1>4 DEF Expected
<1> QED BY <1>1, <1>2, <1>3, <1>4 DEF Expected

\* A step of a request changes neither the threads nor the job in hand.
LEMMA RequestsAside ==
  ASSUME NEW c \in Clients,
         NewRequest(c) \/ ClientStep(c) \/ SavePolicy(c) \/ \E p \in Payloads : BatchRow(c, p)
  PROVE  /\ runner' = runner /\ chosen' = chosen /\ boot' = boot
         /\ sched' = sched \/ (sched \in {"wait", "poll"} /\ sched' = "ready")
BY DEF NewRequest, ClearHistory, CreateJob, ReuseJob, CreateReindex, PauseRequest, ResumeRequest,
   RetryRequest, DeleteRequest, SavePolicy, BatchRow, ClientStep, BatchEnds, AbandonRow, Enqueue,
   LookAtReused, Unpend, WriteControl, Requeue, NotifyPolicy, Notify, ClientKeeps

\* A queued row is never forgotten.
LEMMA QueuedStep ==
  ASSUME MaxJobs <= ResumeLimit, TypeOK, BootIsAlone, Single, QueuedOwned, [Next]_vars
  PROVE  QueuedOwned'
<1> SUFFICES ASSUME NEW j \in Jobs, status'[j] = "queued"
             PROVE  sched' \in {"down", "exited"} \/ Unvisited(j)' \/ Expected(j)'
  BY DEF QueuedOwned
<1> DEFINE Goal == sched' \in {"down", "exited"} \/ Unvisited(j)' \/ Expected(j)'
<1> USE DEF QueuedOwned
<1>1. CASE Crash
  BY <1>1 DEF Crash
<1>2. CASE Restart
  BY <1>2, AllResumable DEF Restart, Unvisited, Rows, dbVars, NoRow
<1>3. ASSUME NEW k \in Jobs, BootRow(k) PROVE Goal
  <2>1. sched = "boot" /\ sched' = "boot" /\ boot' = boot \ {k} /\ client' = client /\ runner' = runner
    BY <1>3 DEF BootRow, schedVars
  <2>2. pending \in Seq(Jobs)
    BY DEF TypeOK, PendingTyped, IsList
  <2>3. CASE j = k
    <3>1. pending' = Enlisted(pending, j)
      BY <1>3, <2>3 DEF BootRow, Update, DeleteRow, NoRow, Runnable, TypeOK, RowsTyped
    <3> QED BY <2>2, <3>1, EnlistedKeeps DEF Expected
  <2>4. CASE j # k
    <3>1. status[j] = "queued"
      BY <1>3, <2>4 DEF BootRow, Update, DeleteRow, TypeOK, RowsTyped
    <3>2. CASE j \in boot
      BY <2>1, <2>4, <3>2 DEF Unvisited
    <3>3. CASE Expected(j)
      <4>1. Listed(pending, j) => Listed(pending', j)
        BY <1>3, <2>2, EnlistedKeeps DEF BootRow
      <4> QED BY <2>1, <3>3, <4>1 DEF Expected
    <3> QED BY <2>1, <3>1, <3>2, <3>3 DEF Unvisited
  <2> QED BY <2>3, <2>4
<1>4. CASE BootDone
  BY <1>4 DEF BootDone, Unvisited, Expected, dbVars
<1>5. CASE sched \in {"down", "boot"} /\ (NotifyStop \/ ClockTurns \/ UNCHANGED vars)
  BY <1>5 DEF NotifyStop, Notify, ClockTurns, vars, schedVars, dbVars, Unvisited, Expected
<1>6. CASE sched \notin {"down", "boot"} /\ ~Crash
  <2>1. sched = "exited" => sched' = "exited"
    <3>1. ASSUME NEW r \in Runners, RunnerStep(r), sched = "exited" PROVE sched' = "exited"
      BY <3>1 DEF RunnerStep, RunnerStart, RunnerBegin, RunnerCheck, HandlerEnds, RunnerFinalRead,
         RunnerFinish, RunnerExcept, RunnerFail, HandleControlStop, RunnerLeave, RunnerKeeps,
         Notify, schedVars
    <3>2. sched = "exited" => ~SchedulerStep
      BY DEF SchedulerStep, SchedulerQuits, SchedulerWaits, SchedulerScans, ScanSkip, ScanPop,
         ScanEnd, PollTimeout, Launch
    <3> QED BY <1>6, <3>1, <3>2, RequestsAside, UpSteps
            DEF Next, RequestStop, NotifyStop, Notify, ClockTurns, vars, schedVars
  <2> SUFFICES ASSUME sched # "exited"
               PROVE  Goal
    BY <2>1
  <2>2. status[j] = "queued" => Expected(j)
    BY <1>6 DEF Unvisited
  <2>3. ASSUME NEW c \in Clients,
               NewRequest(c) \/ ClientStep(c) \/ SavePolicy(c) \/ \E p \in Payloads : BatchRow(c, p)
        PROVE  Expected(j)'
    <3>1. /\ status[j] = "queued" \/ Listed(client'[c].todo, j)
          /\ \A d \in Clients \ {c} : client'[d] = client[d]
          /\ Listed(client[c].todo, j) => Listed(client'[c].todo, j) \/ Listed(pending', j)
          /\ Listed(pending, j) => Listed(pending', j) \/ Listed(client'[c].todo, j)
      BY <2>3, RequestsCarry
    <3>2. CASE Listed(client'[c].todo, j)
      BY <3>2 DEF Expected
    <3>3. CASE status[j] = "queued"
      BY <2>2, <2>3, <3>1, <3>3, RequestsAside, StaysExpected
    <3> QED BY <3>1, <3>2, <3>3
  <2>4. ASSUME NEW r \in Runners, RunnerStep(r) PROVE Expected(j)'
    <3>1. pending' = pending /\ client' = client /\ chosen' = chosen
          /\ (sched = "chosen" => sched' = "chosen")
      BY <2>4 DEF RunnerStep, RunnerStart, RunnerBegin, RunnerCheck, HandlerEnds, RunnerFinalRead,
         RunnerFinish, RunnerExcept, RunnerFail, HandleControlStop, RunnerLeave, RunnerKeeps,
         Notify, schedVars
    <3>2. CASE runner'[r].job = j /\ runner'[r].pc \in Claiming
      BY <3>2 DEF Expected
    <3>3. CASE ~(runner'[r].job = j /\ runner'[r].pc \in Claiming)
      <4>1. status[j] = "queued" /\ (runner[r].job = j => runner[r].pc \notin Claiming)
        BY <2>4, <3>3, RunnerStepsWrite
      <4>2. CASE Listed(pending, j) \/ (sched = "chosen" /\ chosen = j)
                 \/ \E c \in Clients : Listed(client[c].todo, j)
        BY <3>1, <4>2 DEF Expected
      <4>3. ASSUME NEW q \in Runners, runner[q].job = j, runner[q].pc \in Claiming
            PROVE  Expected(j)'
        <5>1. q # r
          BY <4>1, <4>3
        <5>2. runner'[q] = runner[q]
          BY <2>4, <5>1, RunnerStepsWrite
        <5> QED BY <4>3, <5>2 DEF Expected
      <4> QED BY <2>2, <4>1, <4>2, <4>3 DEF Expected
    <3> QED BY <3>2, <3>3
  <2>5. ASSUME NEW r \in Runners, Launch(r) PROVE Expected(j)'
    <3>1. /\ status[j] = "queued" /\ pending' = pending /\ client' = client
          /\ runner[r].pc = "free" /\ \A q \in Runners \ {r} : runner'[q] = runner[q]
          /\ runner'[r].job = chosen /\ runner'[r].pc = "start"
      BY <2>5 DEF Launch, dbVars, TypeOK, ThreadsTyped
    <3> QED BY <2>2, <3>1, StaysExpected DEF Claiming
  <2>6. CASE ScanPop
    <3>1. status[j] = "queued" /\ sched' = "chosen" /\ chosen' = pending[scan] /\ sched = "scan"
          /\ pending' = DropAt(pending, scan) /\ runner' = runner /\ client' = client
      BY <2>6 DEF ScanPop, dbVars
    <3>2. scan \in 1..Len(pending) /\ pending \in Seq(Jobs)
      BY <2>6 DEF ScanPop, TypeOK, SchedulerTyped, PendingTyped, IsList
    <3>3. CASE pending[scan] = j
      BY <3>1, <3>3 DEF Expected
    <3>4. CASE pending[scan] # j
      <4>1. Listed(pending, j) => Listed(pending', j)
        BY <3>1, <3>2, <3>4, DropAtKeeps
      <4> QED BY <2>2, <3>1, <4>1 DEF Expected
    <3> QED BY <3>3, <3>4
  <2>7. CASE \/ SchedulerQuits \/ SchedulerWaits \/ SchedulerScans \/ ScanSkip \/ ScanEnd
             \/ PollTimeout \/ RequestStop \/ NotifyStop \/ ClockTurns \/ UNCHANGED vars
    BY <2>2, <2>7 DEF SchedulerQuits, SchedulerWaits, SchedulerScans, ScanSkip, ScanEnd,
       PollTimeout, RequestStop, NotifyStop, Notify, ClockTurns, vars, schedVars, dbVars, Expected
  <2> QED BY <1>6, <2>3, <2>4, <2>5, <2>6, <2>7, UpSteps DEF Next, SchedulerStep
<1> QED BY <1>1, <1>2, <1>3, <1>4, <1>5, <1>6, AloneSteps DEF BootStep

-----------------------------------------------------------------------------
\* Every reachable state has an owner for every status that needs one.
LEMMA OwnerInvariant == ASSUME MaxJobs <= ResumeLimit PROVE Spec => []OwnerInv
<1>1. Init => OwnerInv
  BY OwnerInit
<1>2. TypeOK /\ OwnerInv /\ [Next]_vars => OwnerInv'
  BY AloneStep, SingleStep, RunningStep, QueuedStep DEF OwnerInv
<1> QED BY <1>1, <1>2, Typing, PTL DEF Spec

\* No job is forgotten in mid-course: as long as the table is no longer than
\* the rows a restart looks at, a running row has a thread that is working on
\* it, and a queued one is listed, in hand, about to be started, or a request
\* still has it to do.
THEOREM EveryStatusOwned == ASSUME MaxJobs <= ResumeLimit PROVE Spec => []StatusHasOwner
<1>1. TypeOK /\ OwnerInv => StatusHasOwner
  <2> SUFFICES ASSUME TypeOK, OwnerInv PROVE RunningHasRunner /\ QueuedIsOwned
    BY DEF StatusHasOwner
  <2>1. RunningHasRunner
    BY DEF OwnerInv, RunningOwned, RunningHasRunner, Unvisited, WorkedOn, Working, Live
  <2>2. QueuedIsOwned
    BY DEF OwnerInv, QueuedOwned, QueuedIsOwned, Unvisited, Expected, Claiming, Live, Listed
  <2> QED BY <2>1, <2>2
<1> QED BY <1>1, Typing, OwnerInvariant, PTL

-----------------------------------------------------------------------------
(* What the policies and the reindex requests rely on.                     *)

(* Some part of the program refers to the job.                             *)
Named(j) ==
  \/ status[j] # NoRow \/ Listed(pending, j) \/ chosen = j
  \/ \E r \in Runners : runner[r].job = j
  \/ \E c \in Clients : Listed(client[c].todo, j)

NamesAreOld == \A j \in Jobs : Named(j) => j < nextId

\* What the operations of the pending list list was listed before.
LEMMA NothingElseListed ==
  ASSUME NEW S, NEW s \in Seq(S), NEW j \in S, NEW k
  PROVE  /\ \A i \in 1..Len(s) : Listed(DropAt(s, i), k) => Listed(s, k)
         /\ Listed(Enlisted(s, j), k) => Listed(s, k) \/ k = j
         /\ Listed(Unlisted(s, j), k) => Listed(s, k)
<1>1. ASSUME NEW i \in 1..Len(s), Listed(DropAt(s, i), k) PROVE Listed(s, k)
  <2>1. /\ DropAt(s, i) \in Seq(S) /\ Len(DropAt(s, i)) = Len(s) - 1 /\ Len(s) \in Nat
        /\ \A h \in 1..(Len(s) - 1) : DropAt(s, i)[h] = IF h < i THEN s[h] ELSE s[h + 1]
    BY DEF DropAt
  <2>2. PICK h \in 1..(Len(s) - 1) : DropAt(s, i)[h] = k
    BY <1>1, <2>1 DEF Listed
  <2>3. h \in 1..Len(s) /\ h + 1 \in 1..Len(s) /\ (s[h] = k \/ s[h + 1] = k)
    BY <2>1, <2>2
  <2> QED BY <2>3 DEF Listed
<1>2. ASSUME ~Listed(s, j), Listed(Append(s, j), k) PROVE Listed(s, k) \/ k = j
  <2>1. /\ Len(Append(s, j)) = Len(s) + 1 /\ Len(s) \in Nat /\ Append(s, j)[Len(s) + 1] = j
        /\ \A i \in 1..Len(s) : Append(s, j)[i] = s[i]
    OBVIOUS
  <2> QED BY <1>2, <2>1 DEF Listed
<1>3. Listed(Unlisted(s, j), k) => Listed(s, k)
  <2>1. CASE Listed(s, j)
    <3>1. PICK i \in 1..Len(s) : Unlisted(s, j) = DropAt(s, i)
      BY <2>1 DEF Listed, Unlisted
    <3> QED BY <1>1, <3>1
  <2> QED BY <2>1 DEF Unlisted
<1> QED BY <1>1, <1>2, <1>3 DEF Enlisted

\* The rest of a list names nothing else either.
LEMMA TailNames ==
  ASSUME NEW S, NEW s \in Seq(S), s # <<>>, NEW k, Listed(Tail(s), k)
  PROVE  Listed(s, k)
<1>1. PICK i \in 1..Len(Tail(s)) : Tail(s)[i] = k
  BY DEF Listed
<1>2. i + 1 \in 1..Len(s) /\ s[i + 1] = k
  BY <1>1
<1> QED BY <1>2 DEF Listed

\* A request moves by itself, and ends with the process.
LEMMA OnlyRequestsMove ==
  ASSUME [Next]_vars
  PROVE  \/ client' = client \/ Crash
         \/ \E c \in Clients : \/ NewRequest(c) \/ ClientStep(c) \/ SavePolicy(c)
                               \/ \E p \in Payloads : BatchRow(c, p)
BY DEF Next, BootStep, SchedulerStep, RunnerStep, vars, Restart, BootRow, BootDone, RequestStop,
   NotifyStop, SchedulerQuits, SchedulerWaits, SchedulerScans, ScanSkip, ScanPop, ScanEnd,
   PollTimeout, Launch, ClockTurns, RunnerStart, RunnerBegin, RunnerCheck, HandlerEnds,
   RunnerFinalRead, RunnerFinish, RunnerExcept, RunnerFail, HandleControlStop, RunnerLeave,
   RunnerKeeps

\* No request moves another.
LEMMA OtherRequestsWait ==
  ASSUME TypeOK, NEW c \in Clients, NEW d \in Clients \ {c},
         NewRequest(c) \/ ClientStep(c) \/ SavePolicy(c) \/ \E p \in Payloads : BatchRow(c, p)
  PROVE  client'[d] = client[d]
<1> USE DEF TypeOK, ClientsTyped, ClientAt, ClientDone, ClientNext
<1>1. CASE NewRequest(c)
  BY <1>1 DEF NewRequest, ClearHistory, CreateJob, ReuseJob, CreateReindex, PauseRequest,
     ResumeRequest, RetryRequest, DeleteRequest
<1>2. CASE ClientStep(c)
  BY <1>2 DEF ClientStep, BatchEnds, AbandonRow, Enqueue, LookAtReused, Unpend, WriteControl,
     Requeue, NotifyPolicy
<1>3. CASE SavePolicy(c) \/ \E p \in Payloads : BatchRow(c, p)
  BY <1>3 DEF SavePolicy, BatchRow
<1> QED BY <1>1, <1>2, <1>3

\* The jobs of a request are the ones it had, a new row, or a row it has read.
LEMMA RequestNames ==
  ASSUME TypeOK, NEW c \in Clients, NEW j \in Jobs,
         NewRequest(c) \/ ClientStep(c) \/ SavePolicy(c) \/ \E p \in Payloads : BatchRow(c, p),
         Listed(client'[c].todo, j)
  PROVE  Listed(client[c].todo, j) \/ status[j] # NoRow \/ (j = nextId /\ nextId' = nextId + 1)
<1> DEFINE Old == Listed(client[c].todo, j) \/ status[j] # NoRow \/ (j = nextId /\ nextId' = nextId + 1)
<1>t. /\ client \in [Clients -> [pc : ClientPCs, todo : Seq(Jobs)]]
      /\ client[c].pc \in Jobless <=> client[c].todo = <<>>
  BY DEF TypeOK, ClientsTyped
<1>1. ASSUME NEW k \in Jobs, NEW pc, ClientAt(c, pc, <<k>>) PROVE j = k
  BY <1>1, <1>t DEF ClientAt, Listed
<1>2. ASSUME NEW p \in Payloads, CreateJob(c, p) \/ CreateReindex(c, p) PROVE Old
  BY <1>1, <1>2, InsertRowTyped DEF CreateJob, CreateReindex, InsertRow, TypeOK
<1>3. ASSUME NEW p \in Payloads, BatchRow(c, p) PROVE Old
  <2>1. /\ ClientAt(c, "batch", Append(client[c].todo, nextId)) /\ nextId' = nextId + 1
        /\ nextId \in Jobs
    BY <1>3, InsertRowTyped DEF BatchRow, InsertRow, TypeOK
  <2>2. Listed(Append(client[c].todo, nextId), j)
    BY <1>t, <2>1 DEF ClientAt
  <2>3. Listed(client[c].todo, j) \/ j = nextId
    BY <1>t, <2>1, <2>2, NothingElseListed DEF Enlisted, Listed
  <2> QED BY <2>1, <2>3
<1>4. ASSUME NewRequest(c) PROVE Old
  <2>1. ASSUME NEW p \in Payloads, ReuseJob(c, p) PROVE Old
    BY <1>1, <2>1 DEF ReuseJob, ActiveOf, Runnable, NoRow
  <2>2. ASSUME NEW k \in Jobs, PauseRequest(c, k) \/ ResumeRequest(c, k) \/ RetryRequest(c, k)
                               \/ DeleteRequest(c, k)
        PROVE  Old
    BY <1>1, <2>2 DEF PauseRequest, ResumeRequest, RetryRequest, DeleteRequest, NoRow
  <2>3. CASE ClearHistory(c)
    BY <2>3 DEF ClearHistory
  <2> QED BY <1>2, <1>4, <2>1, <2>2, <2>3 DEF NewRequest
<1>5. ASSUME NEW pc, ClientAt(c, pc, client[c].todo) \/ ClientAt(c, pc, <<>>) \/ ClientDone(c) PROVE Old
  BY <1>5, <1>t DEF ClientAt, ClientDone, IdleClient, Listed
<1>6. ASSUME NEW pc, ClientNext(c, pc), client[c].pc \notin Jobless PROVE Old
  <2>1. CASE Len(client[c].todo) = 1
    BY <1>5, <1>6, <2>1 DEF ClientNext, ClientDone
  <2>2. CASE Len(client[c].todo) # 1
    <3>1. Listed(Tail(client[c].todo), j)
      <4>1. client' = [client EXCEPT ![c] = [pc |-> pc, todo |-> Tail(client[c].todo)]]
        BY <1>6, <2>2 DEF ClientNext, ClientAt
      <4>2. client'[c].todo = Tail(client[c].todo)
        BY <1>t, <4>1
      <4> QED BY <4>2
    <3>2. client[c].todo \in Seq(Jobs) /\ client[c].todo # <<>>
      BY <1>6, TargetTyped DEF TypeOK
    <3> QED BY <3>1, <3>2, TailNames
  <2> QED BY <2>1, <2>2
<1>7. CASE SavePolicy(c)
  BY <1>5, <1>7 DEF SavePolicy
<1>8. CASE ClientStep(c)
  BY <1>5, <1>6, <1>8 DEF ClientStep, BatchEnds, AbandonRow, Enqueue, LookAtReused, Unpend,
     WriteControl, Requeue, NotifyPolicy, Jobless
<1> QED BY <1>3, <1>4, <1>7, <1>8

\* What can bring a row among those to be run: the INSERT, a resume or retry,
\* and a thread that takes the job it was given for queued.
LEMMA RowsRevived ==
  ASSUME TypeOK, [Next]_vars, NEW j \in Jobs
  PROVE  /\ status'[j] \in Runnable =>
              \/ status[j] \in Runnable
              \/ j = nextId /\ nextId' = nextId + 1
              \/ \E r \in Runners : runner[r].pc = "begin" /\ runner[r].job = j
              \/ \E c \in Clients : client[c].pc = "requeue"
         /\ status'[j] = "queued" =>
              \/ status[j] = "queued" \/ sched = "boot"
              \/ j = nextId /\ nextId' = nextId + 1
              \/ \E c \in Clients : client[c].pc = "requeue"
         /\ status'[j] # NoRow => status[j] # NoRow \/ (j = nextId /\ nextId' = nextId + 1)
         /\ payload'[j] = payload[j] \/ (j = nextId /\ nextId' = nextId + 1)
         /\ nextId' = nextId \/ nextId' = nextId + 1
<1> DEFINE
      New == j = nextId /\ nextId' = nextId + 1
      Asked == \E c \in Clients : client[c].pc = "requeue"
      Taken == \E r \in Runners : runner[r].pc = "begin" /\ runner[r].job = j
      Lives == status'[j] \in Runnable => status[j] \in Runnable \/ New \/ Taken \/ Asked
      Queues == status'[j] = "queued" => status[j] = "queued" \/ sched = "boot" \/ New \/ Asked
      Goal == /\ Lives /\ Queues
              /\ status'[j] # NoRow => status[j] # NoRow \/ New
              /\ payload'[j] = payload[j] \/ New
              /\ nextId' = nextId \/ nextId' = nextId + 1
<1>t. status \in [Jobs -> Statuses \cup {NoRow}] /\ payload \in [Jobs -> Payloads]
  BY DEF TypeOK, RowsTyped
<1>a. "queued" \in Runnable /\ {"paused", "pausing", "canceled", "failed", "done", "deleting"} \cap Runnable = {}
      /\ NoRow \notin Runnable /\ NoRow # "queued"
  BY DEF Runnable, NoRow
<1>1. ASSUME UNCHANGED <<status, payload, nextId>> PROVE Goal
  BY <1>1
<1>2. ASSUME NEW k \in Jobs, NEW s, Update(k, s) \/ DeleteRow(k), s \notin Runnable,
             UNCHANGED <<payload, nextId>>
      PROVE  Goal
  BY <1>2, <1>t, <1>a DEF Update, DeleteRow
<1>3. ASSUME NEW p \in Payloads, InsertRow(p) PROVE Goal
  BY <1>3, <1>t DEF InsertRow
<1>4. ASSUME NEW k \in Jobs, BootRow(k) PROVE Goal
  BY <1>4, <1>t, <1>a DEF BootRow, Update, DeleteRow
<1>5. ASSUME NEW r \in Runners, RunnerStep(r) PROVE Goal
  <2>1. CASE RunnerBegin(r)
    BY <2>1, <1>t, <1>a DEF RunnerBegin, Update, RunnerKeeps
  <2>2. CASE RunnerFinish(r) \/ RunnerFail(r)
    <3>1. runner[r].job \in Jobs
      BY <2>2 DEF RunnerFinish, RunnerFail, TypeOK, ThreadsTyped
    <3> QED BY <1>2, <1>a, <2>2, <3>1 DEF RunnerFinish, RunnerFail, RunnerKeeps
  <2>3. CASE HandleControlStop(r)
    <3>1. runner[r].job \in Jobs /\ runner[r].signal \in {"deleted", "paused", "canceled"}
      BY <2>3 DEF HandleControlStop, TypeOK, ThreadsTyped, Signals
    <3>2. "deleted" \notin Runnable
      BY DEF Runnable
    <3> QED BY <1>2, <1>a, <2>3, <3>1, <3>2 DEF HandleControlStop, RunnerKeeps
  <2> QED BY <1>1, <1>5, <2>1, <2>2, <2>3 DEF RunnerStep, RunnerStart, RunnerCheck, HandlerEnds,
     RunnerFinalRead, RunnerExcept, RunnerLeave, RunnerKeeps, dbVars
<1>6. ASSUME NEW c \in Clients, ClientStep(c) PROVE Goal
  <2>1. client[c].pc \notin Jobless => Target(c) \in Jobs
    BY TargetTyped DEF TypeOK
  <2>2. CASE Requeue(c)
    BY <2>2, <1>t, <1>a DEF Requeue, Update
  <2>3. CASE AbandonRow(c) \/ WriteControl(c)
    BY <2>1, <2>3, <1>2, <1>a DEF AbandonRow, WriteControl, Jobless
  <2> QED BY <1>1, <1>6, <2>2, <2>3 DEF ClientStep, BatchEnds, Enqueue, LookAtReused, Unpend,
     NotifyPolicy, dbVars
<1>7. ASSUME NEW c \in Clients, NewRequest(c) PROVE Goal
  <2>1. CASE ClearHistory(c)
    BY <2>1, <1>t, <1>a DEF ClearHistory
  <2> QED BY <1>1, <1>3, <1>7, <2>1 DEF NewRequest, CreateJob, ReuseJob, CreateReindex, PauseRequest,
     ResumeRequest, RetryRequest, DeleteRequest, dbVars
<1>8. ASSUME NEW c \in Clients, SavePolicy(c) \/ \E p \in Payloads : BatchRow(c, p) PROVE Goal
  BY <1>1, <1>3, <1>8 DEF SavePolicy, BatchRow
<1>9. CASE \/ Restart \/ BootDone \/ Crash \/ RequestStop \/ NotifyStop \/ SchedulerStep \/ ClockTurns
           \/ UNCHANGED vars
  BY <1>1, <1>9 DEF Restart, BootDone, Crash, RequestStop, NotifyStop, ClockTurns, vars, dbVars,
     SchedulerStep, SchedulerQuits, SchedulerWaits, SchedulerScans, ScanSkip, ScanPop, ScanEnd,
     PollTimeout, Launch
<1> QED BY <1>4, <1>5, <1>6, <1>7, <1>8, <1>9 DEF Next, BootStep

\* Every step refers to jobs that were referred to before, or to the row it
\* inserts.
LEMMA NamesStep ==
  ASSUME TypeOK, NamesAreOld, [Next]_vars
  PROVE  NamesAreOld'
<1> SUFFICES ASSUME NEW j \in Jobs, Named(j)'
             PROVE  Named(j) \/ (j = nextId /\ nextId' = nextId + 1)
  <2>1. nextId \in Nat /\ Jobs \subseteq Nat
    BY SizesAssumption DEF TypeOK, RowsTyped, Jobs
  <2>2. \A j \in Jobs : nextId' = nextId \/ nextId' = nextId + 1
    BY RowsRevived
  <2>3. ASSUME NEW j \in Jobs, Named(j) \/ (j = nextId /\ nextId' = nextId + 1) PROVE j < nextId'
    BY <2>1, <2>2, <2>3 DEF NamesAreOld
  <2> QED BY <2>3 DEF NamesAreOld
<1> DEFINE Old == Named(j) \/ (j = nextId /\ nextId' = nextId + 1)
<1>p. pending \in Seq(Jobs)
  BY DEF TypeOK, PendingTyped, IsList
<1>1. CASE status'[j] # NoRow
  BY <1>1, RowsRevived DEF Named
<1>2. ASSUME Listed(pending', j), pending' # pending PROVE Old
  <2>1. ASSUME NEW k \in Jobs, BootRow(k) PROVE Old
    <3>1. pending' = Enlisted(pending, k) /\ status[k] \in Runnable
      BY <1>2, <2>1 DEF BootRow
    <3>2. status[k] # NoRow
      BY <3>1 DEF Runnable, NoRow
    <3> QED BY <1>2, <1>p, <3>1, <3>2, NothingElseListed DEF Named
  <2>2. CASE Crash
    BY <1>2, <2>2 DEF Crash, Listed
  <2>3. CASE ScanPop
    <3>1. scan \in 1..Len(pending) /\ pending' = DropAt(pending, scan)
      BY <2>3, <1>p DEF ScanPop, TypeOK, SchedulerTyped
    <3> QED BY <1>2, <1>p, <3>1, NothingElseListed DEF Named
  <2>4. ASSUME NEW c \in Clients, ClientStep(c) PROVE Old
    <3>1. CASE Enqueue(c)
      <4>1. pending' = Enlisted(pending, Target(c)) /\ client[c].pc \notin Jobless
        BY <3>1 DEF Enqueue, Jobless
      <4>2. Target(c) \in Jobs /\ Listed(client[c].todo, Target(c))
        BY <4>1, TargetTyped, TargetListed DEF TypeOK
      <4> QED BY <1>2, <1>p, <4>1, <4>2, NothingElseListed DEF Named
    <3>2. CASE Unpend(c)
      <4>1. Target(c) \in Jobs /\ pending' = Unlisted(pending, Target(c))
        BY <3>2, TargetTyped DEF Unpend, TypeOK, Jobless
      <4> QED BY <1>2, <1>p, <4>1, NothingElseListed DEF Named
    <3> QED BY <1>2, <2>4, <3>1, <3>2 DEF ClientStep, BatchEnds, AbandonRow, LookAtReused,
       WriteControl, Requeue, NotifyPolicy
  <2>5. ~\E r \in Runners : RunnerStep(r)
    BY <1>2 DEF RunnerStep, RunnerStart, RunnerBegin, RunnerCheck, HandlerEnds, RunnerFinalRead,
       RunnerFinish, RunnerExcept, RunnerFail, HandleControlStop, RunnerLeave, RunnerKeeps
  <2>6. ~\E c \in Clients : NewRequest(c) \/ SavePolicy(c) \/ \E p \in Payloads : BatchRow(c, p)
    BY <1>2 DEF NewRequest, CreateJob, ReuseJob, CreateReindex, PauseRequest, ResumeRequest,
       RetryRequest, DeleteRequest, ClearHistory, SavePolicy, BatchRow
  <2> QED BY <1>2, <2>1, <2>2, <2>3, <2>4, <2>5, <2>6 DEF Next, BootStep, SchedulerStep, vars,
     Restart, BootDone, RequestStop, NotifyStop, SchedulerQuits, SchedulerWaits, SchedulerScans,
     ScanSkip, ScanEnd, PollTimeout, Launch, ClockTurns
<1>3. ASSUME chosen' = j PROVE Old
  <2>1. j # NoJob
    BY DEF Jobs, NoJob
  <2>2. CASE ScanPop
    <3>1. chosen' = pending[scan] /\ scan \in 1..Len(pending)
      BY <2>2, <1>p DEF ScanPop, TypeOK, SchedulerTyped
    <3> QED BY <1>3, <3>1 DEF Named, Listed
  <2>3. CASE Crash
    BY <1>3, <2>1, <2>3 DEF Crash
  <2>4. ASSUME NEW r \in Runners, Launch(r) PROVE Old
    BY <1>3, <2>1, <2>4 DEF Launch
  <2>5. ASSUME NEW r \in Runners, RunnerLeave(r) PROVE Old
    BY <1>3, <2>5 DEF RunnerLeave, Named
  <2> QED BY <1>3, <2>2, <2>3, <2>4, <2>5, SlotSteps DEF Quiet, Named
<1>4. ASSUME NEW r \in Runners, runner'[r].job = j PROVE Old
  <2>1. j # NoJob
    BY DEF Jobs, NoJob
  <2>2. CASE Quiet
    BY <1>4, <2>2 DEF Quiet, Named
  <2>3. CASE Crash
    BY <1>4, <2>1, <2>3 DEF Crash, FreeRunner
  <2>4. CASE ScanPop
    BY <1>4, <2>4 DEF ScanPop, Named
  <2>5. ASSUME NEW q \in Runners, Launch(q) PROVE Old
    BY <1>4, <2>5 DEF Launch, Named, TypeOK, ThreadsTyped
  <2>6. ASSUME NEW q \in Runners, RunnerLeave(q) PROVE Old
    BY <1>4, <2>1, <2>6 DEF RunnerLeave, Named, TypeOK, ThreadsTyped, FreeRunner
  <2> QED BY <2>2, <2>3, <2>4, <2>5, <2>6, SlotSteps
<1>5. ASSUME NEW c \in Clients, Listed(client'[c].todo, j) PROVE Old
  <2>1. CASE client'[c] = client[c]
    BY <1>5, <2>1 DEF Named
  <2>2. CASE Crash
    BY <1>5, <2>2 DEF Crash, IdleClient, Listed
  <2>3. ASSUME NEW d \in Clients,
               NewRequest(d) \/ ClientStep(d) \/ SavePolicy(d) \/ \E p \in Payloads : BatchRow(d, p),
               client'[c] # client[c]
        PROVE  Old
    <3>1. c = d
      BY <2>3, OtherRequestsWait
    <3> QED BY <1>5, <2>3, <3>1, RequestNames DEF Named
  <2> QED BY <2>1, <2>2, <2>3, OnlyRequestsMove
<1> QED BY <1>1, <1>2, <1>3, <1>4, <1>5 DEF Named

-----------------------------------------------------------------------------
(* An active reindex is reused.                                            *)

\* What brings a row into the queue beside another of its scope.
LEMMA SecondOfScope ==
  ASSUME TypeOK, [Next]_vars, NEW j \in Jobs, NEW k \in Jobs \ {j},
         status[j] \notin Runnable, status'[j] \in Runnable, status'[k] \in Runnable,
         payload'[j] \in Reused, payload'[k] = payload'[j]
  PROVE  \/ \E c \in Clients : Requeue(c) /\ Target(c) = j
         \/ \E r \in Runners : RunnerBegin(r) /\ runner[r].job = j
<1> DEFINE Goal == \/ \E c \in Clients : Requeue(c) /\ Target(c) = j
                   \/ \E r \in Runners : RunnerBegin(r) /\ runner[r].job = j
<1>t. status \in [Jobs -> Statuses \cup {NoRow}] /\ payload \in [Jobs -> Payloads]
  BY DEF TypeOK, RowsTyped
<1>a. "queued" \in Runnable /\ {"paused", "pausing", "canceled", "failed", "done", "deleting", "deleted"} \cap Runnable = {}
      /\ NoRow \notin Runnable
  BY DEF Runnable, NoRow
<1>1. status' # status
  OBVIOUS
<1>2. ASSUME NEW i \in Jobs, NEW s, Update(i, s) \/ DeleteRow(i) PROVE i = j /\ s \in Runnable /\ Update(i, s)
  BY <1>2, <1>t, <1>a DEF Update, DeleteRow
<1>3. ASSUME NEW p \in Payloads, InsertRow(p) PROVE p \in Reused /\ ActiveOf(p) # {}
  <2>1. j = nextId /\ payload'[j] = p /\ status'[k] = status[k] /\ payload'[k] = payload[k]
    BY <1>3, <1>t DEF InsertRow
  <2> QED BY <2>1 DEF ActiveOf
<1>4. ~\E i \in Jobs : BootRow(i)
  BY <1>1, <1>2, <1>a DEF BootRow, Runnable
<1>5. ASSUME NEW r \in Runners, RunnerStep(r) PROVE Goal
  <2>1. CASE RunnerBegin(r)
    <3>1. runner[r].job \in Jobs
      BY <2>1 DEF RunnerBegin, TypeOK, ThreadsTyped
    <3> QED BY <1>2, <2>1, <3>1 DEF RunnerBegin
  <2>2. ~RunnerFinish(r) /\ ~RunnerFail(r)
    <3>1. runner[r].pc \in {"finish", "fail"} => runner[r].job \in Jobs
      BY DEF TypeOK, ThreadsTyped
    <3> QED BY <1>2, <1>a, <3>1 DEF RunnerFinish, RunnerFail
  <2>3. ~HandleControlStop(r)
    <3>1. runner[r].pc = "stop" => runner[r].job \in Jobs /\ runner[r].signal \in {"deleted", "paused", "canceled"}
      BY DEF TypeOK, ThreadsTyped, Signals
    <3> QED BY <1>2, <1>a, <3>1 DEF HandleControlStop
  <2> QED BY <1>1, <1>5, <2>1, <2>2, <2>3 DEF RunnerStep, RunnerStart, RunnerCheck, HandlerEnds,
     RunnerFinalRead, RunnerExcept, RunnerLeave, RunnerKeeps, dbVars
<1>6. ASSUME NEW c \in Clients, ClientStep(c) PROVE Goal
  <2>1. client[c].pc \notin Jobless => Target(c) \in Jobs
    BY TargetTyped DEF TypeOK
  <2>2. CASE Requeue(c)
    BY <1>2, <2>1, <2>2 DEF Requeue, Jobless
  <2>3. ~AbandonRow(c) /\ ~WriteControl(c)
    BY <1>2, <1>a, <2>1 DEF AbandonRow, WriteControl, Jobless
  <2> QED BY <1>1, <1>6, <2>2, <2>3 DEF ClientStep, BatchEnds, Enqueue, LookAtReused, Unpend,
     NotifyPolicy, dbVars
<1>7. ~\E c \in Clients : ClearHistory(c) \/ SavePolicy(c)
  BY <1>1, <1>t, <1>a DEF ClearHistory, SavePolicy
<1>8. ~\E c \in Clients, p \in Payloads : CreateJob(c, p) \/ CreateReindex(c, p) \/ BatchRow(c, p)
  BY <1>3 DEF CreateJob, CreateReindex, BatchRow
<1>9. ~\E c \in Clients : NewRequest(c)
  BY <1>1, <1>7, <1>8 DEF NewRequest, ReuseJob, PauseRequest, ResumeRequest, RetryRequest, DeleteRequest, dbVars
<1>10. ~(Restart \/ BootDone \/ Crash \/ RequestStop \/ NotifyStop \/ SchedulerStep \/ ClockTurns
          \/ UNCHANGED vars)
  BY <1>1 DEF Restart, BootDone, Crash, RequestStop, NotifyStop, ClockTurns, vars, dbVars,
     SchedulerStep, SchedulerQuits, SchedulerWaits, SchedulerScans, ScanSkip, ScanPop, ScanEnd,
     PollTimeout, Launch
<1> QED BY <1>4, <1>5, <1>6, <1>7, <1>8, <1>9, <1>10 DEF Next, BootStep

\* Whatever the cap, the jobs and the requests: no request for a reindex and no
\* restart brings a second row of a scope into the queue, only a resume, a retry
\* or a thread that writes running to a row it had read before.
THEOREM SecondReindexByControl == Spec => ReindexReused
<1>1. TypeOK /\ [Next]_vars =>
        [\A j \in Jobs :
           /\ payload'[j] \in Reused /\ status[j] \notin Runnable /\ status'[j] \in Runnable
           /\ \E k \in Jobs \ {j} : payload'[k] = payload'[j] /\ status'[k] \in Runnable
           => \/ \E c \in Clients : Requeue(c) /\ Target(c) = j
              \/ \E r \in Runners : RunnerBegin(r) /\ runner[r].job = j]_vars
  BY SecondOfScope
<1> QED BY <1>1, Typing, PTL DEF Spec, ReindexReused

-----------------------------------------------------------------------------
(* The maintenance policy.                                                 *)

Saving == {"saveStartHour", "saveEndHour"}

\* Only its own steps, its launch and the end of the process move a thread.
LEMMA ThreadsMove ==
  ASSUME TypeOK, [Next]_vars, NEW r \in Runners, ~RunnerStep(r)
  PROVE  runner'[r] = runner[r] \/ runner'[r].pc \in {"free", "start"}
<1> USE DEF TypeOK, ThreadsTyped
<1>1. ASSUME NEW q \in Runners, RunnerStep(q) PROVE runner'[r] = runner[r]
  BY <1>1, RunnerStepsWrite
<1>2. ASSUME NEW q \in Runners, Launch(q) PROVE runner'[r] = runner[r] \/ runner'[r].pc = "start"
  BY <1>2 DEF Launch
<1>3. CASE Crash
  BY <1>3 DEF Crash, FreeRunner
<1>4. CASE /\ ~\E q \in Runners : Launch(q) \/ RunnerStep(q)
           /\ ~Crash /\ ~Restart /\ ~BootStep
  BY <1>4, AsideSteps
<1> QED BY <1>1, <1>2, <1>3, <1>4 DEF Restart, BootStep, BootRow, BootDone

\* No reachable state refers to a job whose row was never inserted.
LEMMA NamesInvariant == Spec => []NamesAreOld
<1>1. ASSUME Init PROVE NamesAreOld
  <2> SUFFICES ASSUME NEW j \in Jobs, Named(j) PROVE j < nextId
    BY DEF NamesAreOld
  <2>1. status[j] # NoRow
    BY <1>1 DEF Init, Named, Jobs, NoJob, Listed, FreeRunner, IdleClient
  <2> QED BY <1>1, <2>1, SizesAssumption DEF Init, Jobs
<1>2. TypeOK /\ NamesAreOld /\ [Next]_vars => NamesAreOld'
  BY NamesStep
<1> QED BY <1>1, <1>2, Typing, PTL DEF Spec

(* Under a closed policy a heavy job that has left the list has nothing to *)
(* run: its thread turns it down.                                          *)
TurnedDown ==
  ~gate => \A j \in Jobs : payload[j] \in Heavy =>
             /\ chosen = j => status[j] \notin Runnable
             /\ \A r \in Runners : runner[r].job = j =>
                  /\ status[j] \notin Runnable
                  /\ runner[r].pc \in {"start", "leave"}

NoPolicyRequest == \A c \in Clients : client[c].pc \notin Saving \cup {"requeue"}

\* A thread keeps its job until it ends.
LEMMA RunnerKeepsJob ==
  ASSUME TypeOK, NEW r \in Runners, RunnerStep(r)
  PROVE  runner'[r].job \in {runner[r].job, NoJob}
BY DEF TypeOK, ThreadsTyped, RunnerStep, RunnerStart, RunnerBegin, RunnerCheck, HandlerEnds,
   RunnerFinalRead, RunnerFinish, RunnerExcept, RunnerFail, HandleControlStop, RunnerLeave, Goto,
   GotoStop, FreeRunner

\* Another thread's job comes from the scheduler.
LEMMA LaunchGives ==
  ASSUME TypeOK, [Next]_vars, NEW r \in Runners, ~RunnerStep(r), runner'[r] # runner[r],
         runner'[r].job # NoJob
  PROVE  Launch(r)
<1> USE DEF TypeOK, ThreadsTyped
<1>1. ~\E q \in Runners : RunnerStep(q)
  BY RunnerStepsWrite
<1>2. ASSUME NEW q \in Runners, Launch(q) PROVE q = r
  BY <1>2 DEF Launch
<1>3. ~Crash
  BY DEF Crash, FreeRunner
<1>4. CASE ~\E q \in Runners : Launch(q)
  BY <1>1, <1>3, <1>4, AsideSteps DEF Restart, BootStep, BootRow, BootDone
<1> QED BY <1>2, <1>4

\* Every step but those of a clock, a settings request, a resume or a retry.
CalmStep ==
  \/ Restart \/ BootStep \/ Crash \/ RequestStop \/ NotifyStop \/ SchedulerStep
  \/ \E r \in Runners : RunnerStep(r)
  \/ \E c \in Clients :
       \/ ClearHistory(c) \/ ClientStep(c)
       \/ \E p \in Payloads : CreateJob(c, p) \/ ReuseJob(c, p) \/ CreateReindex(c, p) \/ BatchRow(c, p)
       \/ \E j \in Jobs : PauseRequest(c, j) \/ DeleteRequest(c, j)
  \/ UNCHANGED vars

\* By such steps the policy stays and no row is queued again.
LEMMA PolicyStays ==
  ASSUME TypeOK, NoPolicyRequest, CalmStep
  PROVE  NoPolicyRequest' /\ gate' = gate
<1>t. client \in [Clients -> [pc : ClientPCs, todo : Seq(Jobs)]]
  BY DEF TypeOK, ClientsTyped
<1> DEFINE Goal == NoPolicyRequest' /\ gate' = gate
<1>1. ASSUME client' = client, gate' = gate PROVE Goal
  BY <1>1 DEF NoPolicyRequest
<1>2. ASSUME NEW c \in Clients, NEW pc \in ClientPCs \ (Saving \cup {"requeue"}), NEW js,
             ClientAt(c, pc, js) \/ ClientDone(c), gate' = gate
      PROVE  Goal
  <2>1. "idle" \notin Saving \cup {"requeue"}
    BY DEF Saving
  <2> QED BY <1>2, <1>t, <2>1 DEF ClientAt, ClientDone, IdleClient, NoPolicyRequest
<1>3. CASE Restart \/ BootStep \/ RequestStop \/ NotifyStop \/ UNCHANGED vars
  BY <1>1, <1>3 DEF Restart, BootStep, BootRow, BootDone, RequestStop, NotifyStop, dbVars, vars
<1>4. CASE SchedulerStep
  BY <1>1, <1>4 DEF SchedulerStep, SchedulerQuits, SchedulerWaits, SchedulerScans, ScanSkip, ScanPop,
     ScanEnd, PollTimeout, Launch, dbVars
<1>5. CASE Crash
  BY <1>5 DEF Crash, dbVars, IdleClient, NoPolicyRequest, Saving
<1>6. ASSUME NEW r \in Runners, RunnerStep(r) PROVE Goal
  BY <1>1, <1>6 DEF RunnerStep, RunnerStart, RunnerBegin, RunnerCheck, HandlerEnds, RunnerFinalRead,
     RunnerFinish, RunnerExcept, RunnerFail, HandleControlStop, RunnerLeave, RunnerKeeps, dbVars
<1> DEFINE Quietly == ClientPCs \ (Saving \cup {"requeue"})
<1>7. {"idle", "enqueue", "look", "batch", "abandon", "writePaused", "writePausing", "writeDeleting",
       "unpendToPause", "unpendToDelete", "deleteRow"} \subseteq Quietly
  BY DEF ClientPCs, Saving
<1>8. ASSUME NEW c \in Clients, NEW p \in Payloads,
             CreateJob(c, p) \/ ReuseJob(c, p) \/ CreateReindex(c, p) \/ BatchRow(c, p)
      PROVE  Goal
  <2>1. gate' = gate /\ \E pc \in {"enqueue", "look", "batch"}, js \in {client'[c].todo} : ClientAt(c, pc, js)
    BY <1>8, <1>t DEF CreateJob, ReuseJob, CreateReindex, BatchRow, ClientAt, dbVars
  <2> QED BY <1>2, <1>7, <2>1
<1>9. ASSUME NEW c \in Clients, NEW j \in Jobs, PauseRequest(c, j) \/ DeleteRequest(c, j) PROVE Goal
  <2>1. gate' = gate /\ \E pc \in {"unpendToPause", "writePausing", "writeDeleting", "unpendToDelete"} :
                         ClientAt(c, pc, <<j>>)
    BY <1>9 DEF PauseRequest, DeleteRequest, dbVars
  <2> QED BY <1>2, <1>7, <2>1
<1>10. ASSUME NEW c \in Clients, ClearHistory(c) PROVE Goal
  BY <1>1, <1>10 DEF ClearHistory
<1>11. ASSUME NEW c \in Clients, ClientStep(c) PROVE Goal
  <2>1. ~Requeue(c)
    BY DEF Requeue, NoPolicyRequest
  <2>2. gate' = gate
    BY <1>11, <2>1 DEF ClientStep, BatchEnds, AbandonRow, Enqueue, LookAtReused, Unpend, WriteControl,
       NotifyPolicy, dbVars
  <2>3. ClientDone(c) \/ \E pc \in Quietly, js \in {client'[c].todo} : ClientAt(c, pc, js)
    <3>1. CASE AbandonRow(c) \/ Enqueue(c)
      BY <1>7, <1>t, <3>1 DEF AbandonRow, Enqueue, ClientNext, ClientDone, ClientAt
    <3>2. CASE BatchEnds(c) \/ LookAtReused(c) \/ Unpend(c)
      BY <1>7, <1>t, <3>2 DEF BatchEnds, LookAtReused, Unpend, ClientAt
    <3>3. CASE WriteControl(c) \/ NotifyPolicy(c)
      BY <3>3 DEF WriteControl, NotifyPolicy
    <3> QED BY <1>11, <2>1, <3>1, <3>2, <3>3 DEF ClientStep
  <2> QED BY <1>2, <1>7, <2>2, <2>3
<1> QED BY <1>3, <1>4, <1>5, <1>6, <1>8, <1>9, <1>10, <1>11 DEF CalmStep

\* The scheduler takes no heavy job that could run, and nothing lets one run
\* that it took.
LEMMA TurnedDownStep ==
  ASSUME TypeOK, BootIsAlone, NamesAreOld, NoPolicyRequest, TurnedDown, [Next]_vars, CalmStep
  PROVE  TurnedDown'
<1> SUFFICES ASSUME ~gate, NEW j \in Jobs, payload'[j] \in Heavy
             PROVE  /\ chosen' = j => status'[j] \notin Runnable
                    /\ \A r \in Runners : runner'[r].job = j =>
                         /\ status'[j] \notin Runnable
                         /\ runner'[r].pc \in {"start", "leave"}
  BY PolicyStays DEF TurnedDown
<1>n. nextId \in Nat /\ j # NoJob
  BY DEF TypeOK, RowsTyped, Jobs, NoJob
<1> DEFINE Held == chosen = j \/ \E r \in Runners : runner[r].job = j
<1>1. ASSUME Held PROVE payload[j] \in Heavy /\ status[j] \notin Runnable
  <2>1. j < nextId
    BY <1>1 DEF NamesAreOld, Named
  <2>2. payload[j] \in Heavy
    BY <1>n, <2>1, RowsRevived DEF Jobs
  <2> QED BY <1>1, <2>2 DEF TurnedDown
<1>2. ASSUME Held PROVE status'[j] \notin Runnable
  <2>1. j < nextId /\ status[j] \notin Runnable
    BY <1>1, <1>2 DEF NamesAreOld, Named
  <2>2. ~\E r \in Runners : runner[r].pc = "begin" /\ runner[r].job = j
    BY <1>1, <1>2 DEF TurnedDown
  <2>3. ~\E c \in Clients : client[c].pc = "requeue"
    BY DEF NoPolicyRequest
  <2> QED BY <1>n, <2>1, <2>2, <2>3, RowsRevived DEF Jobs
<1>3. ASSUME chosen' = j PROVE status'[j] \notin Runnable
  <2>1. CASE ScanPop
    <3>1. chosen' = pending[scan] /\ StartAllowed(pending[scan]) /\ status' = status /\ payload' = payload
      BY <2>1 DEF ScanPop, dbVars
    <3> QED BY <1>3, <3>1 DEF StartAllowed
  <2>2. CASE Crash \/ \E r \in Runners : Launch(r)
    BY <1>3, <1>n, <2>2 DEF Crash, Launch
  <2>3. CASE Quiet \/ \E r \in Runners : RunnerLeave(r)
    BY <1>2, <1>3, <2>3 DEF Quiet, RunnerLeave
  <2> QED BY <2>1, <2>2, <2>3, SlotSteps
<1>4. ASSUME NEW r \in Runners, runner'[r].job = j
      PROVE  status'[j] \notin Runnable /\ runner'[r].pc \in {"start", "leave"}
  <2>1. CASE RunnerStep(r)
    <3>1. runner[r].job = j /\ runner[r].pc \in {"start", "leave"} /\ status[j] \notin Runnable
      <4>1. runner[r].job = j
        BY <1>4, <1>n, <2>1, RunnerKeepsJob
      <4> QED BY <1>1, <4>1 DEF TurnedDown
    <3>2. runner'[r].pc = "leave" \/ RunnerLeave(r)
      BY <2>1, <3>1 DEF RunnerStep, RunnerStart, RunnerBegin, RunnerCheck, HandlerEnds,
         RunnerFinalRead, RunnerFinish, RunnerExcept, RunnerFail, HandleControlStop, Goto, TypeOK,
         ThreadsTyped
    <3>3. ~RunnerLeave(r)
      BY <1>4, <1>n DEF RunnerLeave, FreeRunner, TypeOK, ThreadsTyped
    <3> QED BY <1>2, <3>1, <3>2, <3>3
  <2>2. CASE runner'[r] = runner[r]
    BY <1>1, <1>2, <1>4, <2>2 DEF TurnedDown
  <2>3. CASE ~RunnerStep(r) /\ runner'[r] # runner[r]
    <3>1. runner'[r].pc \in {"free", "start"}
      BY <2>3, ThreadsMove
    <3>2. Launch(r)
      BY <1>4, <1>n, <2>3, LaunchGives
    <3>3. chosen = j /\ runner'[r].pc = "start"
      BY <1>4, <3>2 DEF Launch, TypeOK, ThreadsTyped
    <3> QED BY <1>2, <3>3
  <2> QED BY <2>1, <2>2, <2>3
<1> QED BY <1>3, <1>4

\* A row that says running has a thread at work, and no heavy job has one.
LEMMA HeldBack ==
  ASSUME OwnerInv, TurnedDown
  PROVE  HeavyHeldBack
<1> SUFFICES ASSUME ~gate, sched \notin {"down", "boot"},
                    NEW j \in Jobs, payload[j] \in Heavy, status[j] = "running"
             PROVE  FALSE
  BY DEF HeavyHeldBack
<1>1. PICK r \in Runners : runner[r].job = j /\ runner[r].pc \in Working
  BY DEF OwnerInv, RunningOwned, Unvisited, WorkedOn
<1> QED BY <1>1 DEF TurnedDown, Working

LEMMA NothingTurnedDown ==
  ASSUME Init
  PROVE  NoPolicyRequest /\ TurnedDown
BY DEF Init, NoPolicyRequest, TurnedDown, IdleClient, FreeRunner, Saving, Jobs, NoJob

\* Where the policy does not change and no job is resumed or retried, a heavy
\* job never runs under a closed policy, one that a restart finds interrupted
\* included, however jobs are created, paused and deleted meanwhile.
THEOREM HeavyNeverRuns ==
  ASSUME MaxJobs <= ResumeLimit, {"clock", "policy", "resume", "retry"} \cap Operations = {}
  PROVE  Spec => []HeavyHeldBack
<1> DEFINE Held == NoPolicyRequest /\ TurnedDown
<1>1. Init => Held
  BY NothingTurnedDown
<1>2. TypeOK /\ OwnerInv /\ NamesAreOld /\ Held /\ [Next]_vars => Held'
  <2> SUFFICES ASSUME TypeOK, OwnerInv, NamesAreOld, Held, [Next]_vars PROVE Held'
    OBVIOUS
  <2>1. ~ClockTurns /\ ~\E c \in Clients : SavePolicy(c)
    BY DEF ClockTurns, NoPolicyRequest, SavePolicy, Serving, Saving
  <2>2. ~\E c \in Clients, j \in Jobs : ResumeRequest(c, j) \/ RetryRequest(c, j)
    BY DEF ResumeRequest, RetryRequest, Serving
  <2>3. CalmStep
    BY <2>1, <2>2 DEF Next, NewRequest, CalmStep
  <2> QED BY <2>3, PolicyStays, TurnedDownStep DEF OwnerInv
<1>3. OwnerInv /\ Held => HeavyHeldBack
  BY HeldBack
<1> QED BY <1>1, <1>2, <1>3, Typing, OwnerInvariant, NamesInvariant, PTL DEF Spec

-----------------------------------------------------------------------------
(* The scenarios of MCInternalQueue: each is a part of Spec.               *)

LEMMA ScenarioSteps ==
  ASSUME scenario \in Scenarios, [ScenarioNext]_<<vars, scenario>>
  PROVE  /\ [Next]_vars /\ scenario' = scenario
         /\ scenario.ops \cap {"clock", "policy", "resume", "retry"} = {} => CalmStep
<1>0. scenario.clients \subseteq Clients /\ scenario.asked \subseteq Payloads
  BY ScenariosAssumption
<1> DEFINE Open == ~(scenario.ops \cap {"clock", "policy", "resume", "retry"} = {})
           Goal == [Next]_vars /\ scenario' = scenario /\ (Open \/ CalmStep)
<1>1. CASE UNCHANGED <<vars, scenario>>
  BY <1>1 DEF CalmStep, vars
<1>2. CASE \/ Restart /\ Same
           \/ BootDone /\ Same
           \/ \E j \in Jobs : BootRow(j) /\ Same
           \/ Crash /\ May("crash")
           \/ RequestStop /\ May("stop")
           \/ NotifyStop /\ Same
  BY <1>2 DEF Next, CalmStep, BootStep, Same, May
<1>3. ASSUME \/ SchedulerQuits \/ SchedulerWaits \/ SchedulerScans \/ ScanSkip \/ ScanPop \/ ScanEnd
             \/ PollTimeout \/ \E r \in Runners : Launch(r),
             Same
      PROVE  Goal
  <2>1. SchedulerStep
    BY <1>3 DEF SchedulerStep
  <2> QED BY <1>3, <2>1 DEF Next, CalmStep, Same
<1>4. CASE ClockTurns /\ May("clock")
  BY <1>4 DEF Next, May
<1>5. ASSUME NEW r \in Runners, Same,
             \/ RunnerStart(r) \/ RunnerBegin(r) \/ RunnerCheck(r) \/ HandlerEnds(r) \/ RunnerFinalRead(r)
             \/ RunnerFinish(r) \/ RunnerExcept(r) \/ RunnerFail(r) \/ HandleControlStop(r) \/ RunnerLeave(r)
      PROVE  Goal
  <2>1. RunnerStep(r)
    BY <1>5 DEF RunnerStep
  <2> QED BY <1>5, <2>1 DEF Next, CalmStep, Same
<1>6. ASSUME NEW c \in Clients, Same,
             \/ BatchEnds(c) \/ AbandonRow(c) \/ Enqueue(c) \/ LookAtReused(c)
             \/ Unpend(c) \/ WriteControl(c) \/ Requeue(c) \/ NotifyPolicy(c)
      PROVE  Goal
  <2>1. ClientStep(c)
    BY <1>6 DEF ClientStep
  <2> QED BY <1>6, <2>1 DEF Next, CalmStep, Same
<1>7. ASSUME NEW c \in scenario.clients, NEW p \in scenario.asked,
             \/ nextId <= scenario.rows /\ CreateJob(c, p) /\ May("create")
             \/ nextId <= scenario.rows /\ BatchRow(c, p) /\ May("batch")
             \/ ReuseJob(c, p) /\ May("reindex")
             \/ nextId <= scenario.rows /\ CreateReindex(c, p) /\ May("reindex")
      PROVE  Goal
  BY <1>0, <1>7 DEF Next, CalmStep, NewRequest, May
<1>8. ASSUME NEW c \in scenario.clients, NEW j \in Jobs,
             (PauseRequest(c, j) /\ May("pause")) \/ (DeleteRequest(c, j) /\ May("delete"))
      PROVE  Goal
  BY <1>0, <1>8 DEF Next, CalmStep, NewRequest, May
<1>9. ASSUME NEW c \in scenario.clients, NEW j \in Jobs,
             (ResumeRequest(c, j) /\ May("resume")) \/ (RetryRequest(c, j) /\ May("retry"))
      PROVE  Goal
  BY <1>0, <1>9 DEF Next, NewRequest, May
<1>10. ASSUME NEW c \in scenario.clients, SavePolicy(c) /\ May("policy") PROVE Goal
  BY <1>0, <1>10 DEF Next, May
<1>11. ASSUME NEW c \in scenario.clients, ClearHistory(c) /\ May("clear") PROVE Goal
  BY <1>0, <1>11 DEF Next, CalmStep, NewRequest, May
<1> HIDE DEF Goal
<1>12. CASE ScenarioNext
  BY <1>2, <1>3, <1>4, <1>5, <1>6, <1>7, <1>8, <1>9, <1>10, <1>11, <1>12, ZenonT(60) DEF ScenarioNext, Goal
<1> QED BY <1>1, <1>12 DEF Goal

\* In every scenario without a clock, settings, resumes and retries, the policy
\* that is closed at first keeps all heavy jobs from running.
THEOREM ScenariosHoldHeavyBack ==
  ASSUME MaxJobs <= ResumeLimit
  PROVE  ScenarioSpec => []ClosedPolicyKept
<1> DEFINE Open == ~(scenario.ops \cap {"clock", "policy", "resume", "retry"} = {})
           Held == scenario \in Scenarios /\ (Open \/ (NoPolicyRequest /\ TurnedDown))
<1>1. ScenarioInit => Init /\ Held
  BY NothingTurnedDown DEF ScenarioInit
<1>2. scenario \in Scenarios /\ [ScenarioNext]_<<vars, scenario>> => [Next]_vars /\ (scenario \in Scenarios)'
  BY ScenarioSteps
<1>3. ScenarioSpec => Spec
  BY <1>1, <1>2, PTL DEF ScenarioSpec, Spec
<1>4. TypeOK /\ OwnerInv /\ NamesAreOld /\ Held /\ [ScenarioNext]_<<vars, scenario>> => Held'
  BY ScenarioSteps, PolicyStays, TurnedDownStep DEF OwnerInv
<1>5. OwnerInv /\ Held => ClosedPolicyKept
  BY HeldBack DEF ClosedPolicyKept
<1> QED BY <1>1, <1>3, <1>4, <1>5, Typing, OwnerInvariant, NamesInvariant, PTL DEF ScenarioSpec
=============================================================================
