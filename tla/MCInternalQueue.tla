--------------------------- MODULE MCInternalQueue ---------------------------
(* Small instances of InternalQueue.  A run covers several scenarios: each *)
(* restricts Init and what users, the host and the clock do; it never       *)
(* restricts a step that Fairness is about.  ScenarioNext is Next, spelled  *)
(* out so that TLC reports every action by itself.                          *)
EXTENDS InternalQueue, TLC

CONSTANTS c1, c2, all, copy, zip, unknown, Scenarios

VARIABLE scenario

ASSUME ScenariosAssumption ==
  Scenarios \subseteq [old : BOOLEAN, rows : Nat, clients : SUBSET Clients, asked : SUBSET Payloads,
                       ops : SUBSET Operations]

ThreadSymmetry == Permutations(Runners) \cup Permutations(Clients)

\* old: does job 1 exist at first; rows: the last id that may be added;
\* asked: the payloads of the old row and of new ones.
Scenario(old, rows, clients, asked, ops) ==
  [old |-> old, rows |-> rows, clients |-> clients, asked |-> asked, ops |-> ops]

SafetyScenarios ==
  {Scenario(FALSE, 2, Clients, {all, unknown},
            {"create", "reindex", "pause", "resume", "retry", "delete", "clear", "crash"}),
   Scenario(FALSE, 2, {c1}, {all}, {"reindex", "pause", "resume", "policy"}),
   Scenario(FALSE, 3, {c1}, {copy}, {"batch", "delete", "crash"}),
   Scenario(TRUE, 2, {c1}, {copy}, {"batch", "retry", "crash"}),
   Scenario(FALSE, 2, {c1}, {zip}, {"batch", "pause", "crash"}),
   Scenario(FALSE, 2, {c1}, {all, copy}, {"create", "delete", "clear", "stop"}),
   Scenario(TRUE, 2, {c1}, {all}, {"reindex", "pause", "delete", "crash"}),
   Scenario(TRUE, 2, {c1}, {all, copy}, {"batch", "pause", "crash"})}

LivenessScenarios ==
  {Scenario(TRUE, 2, {c1}, {zip, copy}, {"create", "clock", "stop"}),
   Scenario(TRUE, 2, {c1}, {zip, copy}, {"create", "pause", "clock"}),
   Scenario(TRUE, 2, Clients, {all}, {"reindex", "clear", "crash"}),
   Scenario(TRUE, 2, {c1}, {all, copy}, {"reindex", "delete", "crash"})}

\* The payload of a row that does not exist yet is settled by its creation.
ScenarioInit ==
  /\ Init
  /\ scenario \in Scenarios
  /\ status[1] = NoRow <=> ~scenario.old
  /\ \A j \in Jobs : IF j = 1 /\ scenario.old THEN payload[j] \in scenario.asked
                     ELSE payload[j] = CHOOSE p \in Payloads : TRUE

May(op) == op \in scenario.ops /\ UNCHANGED scenario
Same == UNCHANGED scenario

ScenarioNext ==
  \/ Restart /\ Same
  \/ BootDone /\ Same
  \/ \E j \in Jobs : BootRow(j) /\ Same
  \/ Crash /\ May("crash")
  \/ RequestStop /\ May("stop")
  \/ NotifyStop /\ Same
  \/ SchedulerQuits /\ Same
  \/ SchedulerWaits /\ Same
  \/ SchedulerScans /\ Same
  \/ ScanSkip /\ Same
  \/ ScanPop /\ Same
  \/ ScanEnd /\ Same
  \/ PollTimeout /\ Same
  \/ \E r \in Runners : Launch(r) /\ Same
  \/ ClockTurns /\ May("clock")
  \/ \E r \in Runners : RunnerStart(r) /\ Same
  \/ \E r \in Runners : RunnerBegin(r) /\ Same
  \/ \E r \in Runners : RunnerCheck(r) /\ Same
  \/ \E r \in Runners : HandlerEnds(r) /\ Same
  \/ \E r \in Runners : RunnerFinalRead(r) /\ Same
  \/ \E r \in Runners : RunnerFinish(r) /\ Same
  \/ \E r \in Runners : RunnerExcept(r) /\ Same
  \/ \E r \in Runners : RunnerFail(r) /\ Same
  \/ \E r \in Runners : HandleControlStop(r) /\ Same
  \/ \E r \in Runners : RunnerLeave(r) /\ Same
  \/ \E c \in scenario.clients : ClearHistory(c) /\ May("clear")
  \/ \E c \in scenario.clients, p \in scenario.asked :
       nextId <= scenario.rows /\ CreateJob(c, p) /\ May("create")
  \/ \E c \in scenario.clients, p \in scenario.asked :
       nextId <= scenario.rows /\ BatchRow(c, p) /\ May("batch")
  \/ \E c \in scenario.clients, p \in scenario.asked : ReuseJob(c, p) /\ May("reindex")
  \/ \E c \in scenario.clients, p \in scenario.asked :
       nextId <= scenario.rows /\ CreateReindex(c, p) /\ May("reindex")
  \/ \E c \in scenario.clients, j \in Jobs : PauseRequest(c, j) /\ May("pause")
  \/ \E c \in scenario.clients, j \in Jobs : ResumeRequest(c, j) /\ May("resume")
  \/ \E c \in scenario.clients, j \in Jobs : RetryRequest(c, j) /\ May("retry")
  \/ \E c \in scenario.clients, j \in Jobs : DeleteRequest(c, j) /\ May("delete")
  \/ \E c \in scenario.clients : SavePolicy(c) /\ May("policy")
  \/ \E c \in Clients : BatchEnds(c) /\ Same
  \/ \E c \in Clients : AbandonRow(c) /\ Same
  \/ \E c \in Clients : Enqueue(c) /\ Same
  \/ \E c \in Clients : LookAtReused(c) /\ Same
  \/ \E c \in Clients : Unpend(c) /\ Same
  \/ \E c \in Clients : WriteControl(c) /\ Same
  \/ \E c \in Clients : Requeue(c) /\ Same
  \/ \E c \in Clients : NotifyPolicy(c) /\ Same

ScenarioSpec == ScenarioInit /\ [][ScenarioNext]_<<vars, scenario>>
FairScenarioSpec == ScenarioSpec /\ Fairness

\* Where the policy does not change and no job is requeued, a heavy job never
\* runs under a closed policy, an interrupted one that a restart lists again
\* included.  With a pause and a resume between the pop and the thread's first
\* read the code does let one run (internal_jobs.py:200).
ClosedPolicyKept == scenario.ops \cap {"clock", "policy", "resume", "retry"} = {} => HeavyHeldBack
=============================================================================
