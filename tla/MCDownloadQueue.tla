--------------------------- MODULE MCDownloadQueue ---------------------------
(* Small instances of DownloadQueue.  A run covers several scenarios: each *)
(* restricts Init and what users, the host and the watchdog do; it never    *)
(* restricts a step that Fairness is about.  ScenarioNext is Next, spelled  *)
(* out so that TLC reports every action by itself.                          *)
EXTENDS DownloadQueue, TLC

CONSTANTS p1, p2, c1, c2, Scenarios

VARIABLE scenario

\* The jobs in the middle share a bucket: while one of them keeps the other
\* waiting, the last job has room in its own.
TwoBuckets == [j \in Jobs |-> IF j \in {1, 4} THEN p1 ELSE p2]

ThreadSymmetry == Permutations(Runners) \cup Permutations(Clients)

\* old: does job 1 exist at first; free: are the limits free at first, or the
\* lowest; rows: the last id that may be added; "lower": the global limit can
\* only be lowered, so that there are finitely many saves: for ever changing
\* settings may keep a thread from the lock it needs to leave.
Scenario(old, free, rows, clients, watched, ops) ==
  [old |-> old, free |-> free, rows |-> rows, clients |-> clients,
   watched |-> watched, ops |-> ops]

SafetyScenarios ==
  {Scenario(TRUE, TRUE, 1, Clients, TRUE,
            {"pause", "resume", "retry", "delete", "clear", "crash"}),
   Scenario(FALSE, TRUE, 4, {c1}, FALSE, {"add", "settings", "stop"})}

LivenessScenarios ==
  {Scenario(TRUE, FALSE, 2, {c1}, TRUE, {"add", "pause", "delete", "stop"}),
   Scenario(FALSE, TRUE, 3, {c1}, FALSE, {"add", "lower"}),
   Scenario(FALSE, TRUE, 4, {c1}, FALSE, {"add"})}

ScenarioInit ==
  /\ Init
  /\ scenario \in Scenarios
  /\ status[1] = NoRow <=> ~scenario.old
  /\ scenario.free \/ limits = [global |-> 1, provider |-> 1]

May(op) == op \in scenario.ops /\ UNCHANGED scenario
Same == UNCHANGED scenario

ScenarioNext ==
  \/ Restart /\ Same
  \/ BootDone /\ Same
  \/ \E j \in Jobs : BootRow(j) /\ Same
  \/ Crash /\ May("crash")
  \/ RequestStop /\ May("stop")
  \/ NotifyStop /\ Same
  \/ SchedulerQuits /\ Same
  \/ SchedulerFull /\ Same
  \/ SchedulerScans /\ Same
  \/ \E j \in Jobs : ScanDrop(j) /\ Same
  \/ \E j \in Jobs : ScanReject(j) /\ Same
  \/ \E j \in Jobs : ScanSkip(j) /\ Same
  \/ \E j \in Jobs : ScanSelect(j) /\ Same
  \/ WriteRejected /\ Same
  \/ ScanEnd /\ Same
  \/ WaitTimeout /\ Same
  \/ ReturnReservation /\ Same
  \/ \E r \in Runners : Launch(r) /\ Same
  \/ \E p \in Providers : CooldownElapses(p) /\ Same
  \/ \E r \in Runners : RunnerStart(r) /\ Same
  \/ \E r \in Runners : RunnerBegin(r) /\ Same
  \/ \E r \in Runners : RunnerCheck(r) /\ Same
  \/ \E r \in Runners : HandlerEnds(r) /\ Same
  \/ \E r \in Runners : RunnerFinish(r) /\ Same
  \/ \E r \in Runners : RunnerExcept(r) /\ Same
  \/ \E r \in Runners : RunnerFail(r) /\ Same
  \/ \E r \in Runners : HandleControlStop(r) /\ Same
  \/ \E r \in Runners : RunnerLeave(r) /\ Same
  \/ \E r \in Runners : scenario.watched /\ WatchdogJudges(r) /\ Same
  \/ \E v \in verdicts : WatchdogPauses(v) /\ Same
  \/ \E c \in scenario.clients : nextId <= scenario.rows /\ AddJob(c) /\ May("add")
  \/ \E c \in scenario.clients : ClearHistory(c) /\ May("clear")
  \/ \E c \in scenario.clients : SaveGlobalLimit(c) /\ May("settings")
  \/ \E c \in scenario.clients : /\ SaveGlobalLimit(c) /\ May("lower")
                                /\ limits'.global < limits.global
  \/ \E c \in scenario.clients, j \in Jobs : PauseRequest(c, j) /\ May("pause")
  \/ \E c \in scenario.clients, j \in Jobs : ResumeRequest(c, j) /\ May("resume")
  \/ \E c \in scenario.clients, j \in Jobs : RetryRequest(c, j) /\ May("retry")
  \/ \E c \in scenario.clients, j \in Jobs : DeleteRequest(c, j) /\ May("delete")
  \/ \E c \in Clients : Enqueue(c) /\ Same
  \/ \E c \in Clients : Unpend(c) /\ Same
  \/ \E c \in Clients : WriteControl(c) /\ Same
  \/ \E c \in Clients : Requeue(c) /\ Same
  \/ \E c \in Clients : SaveProviderLimit(c) /\ Same
  \/ \E c \in Clients : NotifySettings(c) /\ Same

ScenarioSpec == ScenarioInit /\ [][ScenarioNext]_<<vars, scenario>>
FairScenarioSpec == ScenarioSpec /\ Fairness
=============================================================================
