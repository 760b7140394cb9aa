--------------------------- MODULE MCSubscriptions ---------------------------
(* Small instances of Subscriptions.  The run covers several scenarios: each *)
(* restricts what users, the site and the host do, never a step that         *)
(* Fairness is about.  ScenarioNext is Next, spelled out so that TLC reports *)
(* every action by itself.                                                   *)
EXTENDS Subscriptions

CONSTANTS s1

VARIABLE scenario

OneSource == [v \in Videos |-> s1]

\* policies and autos: what a subscription is created with; may: the videos
\* that may be published; requests: how many are made.
Scenario(policies, autos, may, requests, ops) ==
  [policies |-> policies, autos |-> autos, may |-> may, requests |-> requests, ops |-> ops]

AllScenarios ==
  {Scenario(Policies, {FALSE}, {3}, 3, {"create", "enable", "remove", "check", "crash"}),
   Scenario({"latest_n"}, {FALSE}, {3}, 3, {"create", "enable", "check", "stop"}),
   Scenario({"latest_n"}, {TRUE}, {}, 2, {"create", "queue", "crash"}),
   Scenario({"latest_n"}, BOOLEAN, {}, 3, {"create", "skip", "retry", "auto"}),
   Scenario({"latest_n"}, {TRUE}, {}, 2, {"create", "queue", "stop"})}

ScenarioInit == Init /\ scenario \in AllScenarios

Same == UNCHANGED scenario
May(op) == op \in scenario.ops /\ asked < scenario.requests /\ UNCHANGED scenario

ScenarioNext ==
  \/ RecoverChecks /\ Same
  \/ RecoverDownloads /\ Same
  \/ RequestStop /\ "stop" \in scenario.ops /\ Same
  \/ Crash /\ ("crash" \in scenario.ops \/ phase = "stopping") /\ Same
  \/ \E s \in Subs : CheckTimeComes(s) /\ Same
  \/ \E v \in Videos : AttemptTimeComes(v) /\ Same
  \/ \E v \in scenario.may : Publish(v) /\ Same
  \/ \E s \in Subs : SchedulerPicks(s) /\ Same
  \/ SchedulerExits /\ Same
  \/ \E a \in Checkers : CheckEnter(a) /\ Same
  \/ \E a \in Checkers : CheckRead(a) /\ Same
  \/ \E a \in Checkers : CheckMark(a) /\ Same
  \/ \E a \in Checkers : Discover(a) /\ Same
  \/ \E a \in Checkers : StoreItem(a) /\ Same
  \/ \E a \in Checkers : CheckSucceeds(a) /\ Same
  \/ \E a \in Checkers : CheckFails(a) /\ Same
  \/ \E a \in Checkers : CheckLeave(a) /\ Same
  \/ \E v \in Videos : WorkerPicks(v) /\ Same
  \/ WorkerExits /\ Same
  \/ WorkerBegins /\ Same
  \/ WorkerPrepares /\ Same
  \/ WorkerCannotPrepare /\ Same
  \/ DownloadEnds /\ Same
  \/ WorkerDone /\ Same
  \/ WorkerFails /\ Same
  \/ \E s \in Subs : /\ Create(s) /\ May("create")
                     /\ sub'[s].policy \in scenario.policies
                     /\ sub'[s].auto \in scenario.autos
  \/ \E s \in Subs : SetEnabled(s) /\ May("enable")
  \/ \E s \in Subs : SetAuto(s) /\ May("auto")
  \/ \E s \in Subs : Remove(s) /\ May("remove")
  \/ \E c \in Clients, s \in Subs : CheckRequest(c, s) /\ May("check")
  \/ \E c \in Clients, v \in Videos : QueueRequest(c, v) /\ May("queue")
  \/ \E c \in Clients, v \in Videos : RetryRequest(c, v) /\ May("retry")
  \/ \E c \in Clients, v \in Videos : SkipRequest(c, v) /\ May("skip")
  \/ \E c \in Clients : RetryReads(c) /\ Same
  \/ \E c \in Clients : WriteQueued(c) /\ Same
  \/ \E c \in Clients : WriteSkipped(c) /\ Same

ScenarioSpec == ScenarioInit /\ [][ScenarioNext]_<<vars, scenario>>
FairScenarioSpec == ScenarioInit /\ [][ScenarioNext]_<<vars, scenario>> /\ Fairness
=============================================================================
