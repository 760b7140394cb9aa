------------------------- MODULE SubscriptionProofs -------------------------
(***************************************************************************)
(* Subscriptions for every number of subscriptions, videos and requests    *)
(* and every limit: type correctness, with the bound on the attempts of an *)
(* item, mutual exclusion of the checks of a subscription, the owner of    *)
(* every status that says somebody is at work, and the policy a first      *)
(* check follows.                                                          *)
(***************************************************************************)
EXTENDS Subscriptions, FiniteSetTheorems, TLAPS

-----------------------------------------------------------------------------
(* Type correctness, one lemma per part of the state.                      *)

\* The initial states are well typed.
LEMMA InitTyped == ASSUME Init PROVE TypeOK
<1>1. SubsTyped
  BY VideosAssumption DEF Init, SubsTyped, SubRow, NoSub, Policies, CheckStatuses, Times
<1>2. ItemsTyped
  BY LimitsAssumption
     DEF Init, ItemsTyped, ItemRow, NoItem, ItemStatuses, Reasons, Chosen, Times
<1>3. ChecksTyped
  BY DEF Init, ChecksTyped, CheckRow, Nobody, CheckPCs
<1>4. WorkerTyped
  BY LimitsAssumption DEF Init, WorkerTyped, Resting
<1>5. RequestsTyped
  BY LimitsAssumption DEF Init, RequestsTyped, Request, NoRequest
<1> QED BY <1>1, <1>2, <1>3, <1>4, <1>5 DEF TypeOK

\* An UPDATE of a subscription to a legal row keeps the table well typed.
LEMMA UpdateSubTyped ==
  ASSUME SubsTyped, NEW s \in Subs, NEW row \in SubRow, UpdateSub(s, row),
         UNCHANGED published
  PROVE  SubsTyped'
BY DEF SubsTyped, UpdateSub

\* So does an UPDATE of an item.
LEMMA UpdateItemTyped ==
  ASSUME ItemsTyped, NEW v \in Videos, NEW row \in ItemRow, UpdateItem(v, row),
         UNCHANGED lost
  PROVE  ItemsTyped'
BY DEF ItemsTyped, UpdateItem

\* A step of a check that is under way has a subscription.
LEMMA CheckedTyped ==
  ASSUME ChecksTyped, SubsTyped, NEW a \in Checkers, checker[a].pc \notin {"idle", "exited"}
  PROVE  checker[a].sub \in Subs /\ sub[checker[a].sub] \in SubRow
BY DEF ChecksTyped, SubsTyped

\* What a request does to the table of subscriptions.
LEMMA RequestsKeepSubs ==
  ASSUME SubsTyped, NewRequest
  PROVE  SubsTyped'
<1>1. ASSUME NEW s \in Subs, Create(s) PROVE SubsTyped'
  BY <1>1, LimitsAssumption
     DEF Create, SubsTyped, SubRow, NoSub, CheckStatuses, Times, Policies
<1>2. ASSUME NEW s \in Subs, SetEnabled(s) PROVE SubsTyped'
  <2>1. PICK on \in BOOLEAN :
           UpdateSub(s, [sub[s] EXCEPT !.enabled = on, !.check = IF on THEN "idle" ELSE "paused",
                                       !.next = IF on THEN "past" ELSE "null"])
    BY <1>2 DEF SetEnabled
  <2>2. sub[s] \in SubRow
    BY DEF SubsTyped
  <2>3. CASE on
    <3>1. [sub[s] EXCEPT !.enabled = TRUE, !.check = "idle", !.next = "past"] \in SubRow
      BY <2>2 DEF SubRow, CheckStatuses, Times
    <3> QED BY <1>2, <2>1, <2>3, <3>1, UpdateSubTyped DEF SetEnabled
  <2>4. CASE ~on
    <3>1. [sub[s] EXCEPT !.enabled = FALSE, !.check = "paused", !.next = "null"] \in SubRow
      BY <2>2 DEF SubRow, CheckStatuses, Times
    <3> QED BY <1>2, <2>1, <2>4, <3>1, UpdateSubTyped DEF SetEnabled
  <2> QED BY <2>3, <2>4
<1>3. ASSUME NEW s \in Subs, SetAuto(s) PROVE SubsTyped'
  BY <1>3 DEF SetAuto, UpdateSub, SubsTyped, SubRow
<1>4. ASSUME NEW s \in Subs, Remove(s) PROVE SubsTyped'
  BY <1>4 DEF Remove, SubsTyped, SubRow, NoSub, CheckStatuses, Times
<1>5. ASSUME NEW c \in Clients, NEW s \in Subs, CheckRequest(c, s) PROVE SubsTyped'
  BY <1>5 DEF CheckRequest, SubsTyped
<1>6. ASSUME NEW c \in Clients, NEW v \in Videos,
             QueueRequest(c, v) \/ RetryRequest(c, v) \/ SkipRequest(c, v)
      PROVE SubsTyped'
  BY <1>6 DEF QueueRequest, RetryRequest, SkipRequest, ItemKeeps, SubsTyped
<1> QED BY <1>1, <1>2, <1>3, <1>4, <1>5, <1>6 DEF NewRequest

\* Every step keeps the table of subscriptions well typed.
LEMMA SubsStep ==
  ASSUME TypeOK, [Next]_vars
  PROVE  SubsTyped'
<1> USE DEF TypeOK
<1>1. CASE RecoverChecks
  BY <1>1, ZenonT(60) DEF RecoverChecks, SubsTyped, SubRow, CheckStatuses, Times
<1>2. CASE RecoverDownloads \/ RequestStop \/ Crash \/ UNCHANGED vars
  BY <1>2 DEF RecoverDownloads, RequestStop, Crash, vars, SubsTyped
<1>3. CASE TimePasses
  BY <1>3 DEF TimePasses, CheckTimeComes, AttemptTimeComes, SubsTyped, SubRow, Times
<1>4. ASSUME NEW v \in Videos, Publish(v) PROVE SubsTyped'
  BY <1>4 DEF Publish, SubsTyped
<1>5. ASSUME NEW a \in Checkers, CheckStep(a) PROVE SubsTyped'
  <2>1. CASE CheckMark(a)
    <3>1. [sub[checker[a].sub] EXCEPT !.check = "checking"] \in SubRow
      BY <2>1, CheckedTyped DEF CheckMark, SubRow, CheckStatuses
    <3> QED BY <2>1, <3>1, CheckedTyped, UpdateSubTyped DEF CheckMark, CheckKeeps
  <2>2. CASE CheckSucceeds(a)
    <3> DEFINE row == [sub[checker[a].sub] EXCEPT !.first = TRUE,
                         !.check = IF checker[a].enabled THEN "idle" ELSE "paused",
                         !.next = IF checker[a].enabled THEN "future" ELSE "null"]
    <3>1. row \in SubRow
      BY <2>2, CheckedTyped DEF CheckSucceeds, SubRow, CheckStatuses, Times
    <3>2. UpdateSub(checker[a].sub, row) /\ UNCHANGED published
      BY <2>2 DEF CheckSucceeds, CheckKeeps
    <3> QED BY <2>2, <3>1, <3>2, CheckedTyped, UpdateSubTyped DEF CheckSucceeds
  <2>3. CASE CheckFails(a)
    <3> DEFINE row == [sub[checker[a].sub] EXCEPT
                         !.check = IF checker[a].enabled THEN "backoff" ELSE "paused",
                         !.next = IF checker[a].enabled THEN "future" ELSE "null"]
    <3>1. row \in SubRow
      BY <2>3, CheckedTyped DEF CheckFails, SubRow, CheckStatuses, Times
    <3>2. UpdateSub(checker[a].sub, row) /\ UNCHANGED published
      BY <2>3 DEF CheckFails, CheckKeeps
    <3> QED BY <2>3, <3>1, <3>2, CheckedTyped, UpdateSubTyped DEF CheckFails
  <2>4. CASE \/ CheckEnter(a) \/ CheckRead(a) \/ Discover(a) \/ StoreItem(a) \/ CheckLeave(a)
    BY <2>4 DEF CheckEnter, CheckRead, Discover, StoreItem, CheckLeave, CheckKeeps, SubsTyped
  <2> QED BY <1>5, <2>1, <2>2, <2>3, <2>4 DEF CheckStep
<1>6. CASE (\E s \in Subs : SchedulerPicks(s)) \/ SchedulerExits
  BY <1>6 DEF SchedulerPicks, SchedulerExits, CheckKeeps, SubsTyped
<1>7. CASE WorkerStep
  BY <1>7 DEF WorkerStep, WorkerPicks, WorkerExits, WorkerBegins, WorkerPrepares,
     WorkerCannotPrepare, DownloadEnds, WorkerDone, WorkerFails, WorkerKeeps, SubsTyped
<1>8. CASE NewRequest
  BY <1>8, RequestsKeepSubs
<1>9. ASSUME NEW c \in Clients, RequestStep(c) PROVE SubsTyped'
  BY <1>9 DEF RequestStep, RetryReads, WriteQueued, WriteSkipped, ItemKeeps, SubsTyped
<1> QED BY <1>1, <1>2, <1>3, <1>4, <1>5, <1>6, <1>7, <1>8, <1>9 DEF Next, SchedulerStep, Checkers

\* The policy of the first check gives a known or an eligible item.
LEMMA ItemPolicyTyped ==
  ASSUME NEW s \in Subs, sub[s] \in SubRow, NEW first \in BOOLEAN, NEW v, NEW index \in Nat
  PROVE  /\ ItemPolicy(s, first, v, index)[1] \in {"known", "eligible"}
         /\ ItemPolicy(s, first, v, index)[2] \in Reasons
<1>1. sub[s].policy \in Policies
  BY DEF SubRow
<1> QED BY <1>1 DEF ItemPolicy, Policies, ItemStatuses, Reasons, Chosen

\* Every step keeps the table of items well typed.
LEMMA ItemsStep ==
  ASSUME TypeOK, [Next]_vars
  PROVE  ItemsTyped'
<1> USE DEF TypeOK
<1> SUFFICES ASSUME ~UNCHANGED <<item, lost>>
             PROVE  ItemsTyped'
  BY DEF ItemsTyped
<1>1. CASE RecoverDownloads
  BY <1>1 DEF RecoverDownloads, ItemsTyped, ItemRow, ItemStatuses, Times
<1>2. CASE TimePasses
  BY <1>2 DEF TimePasses, CheckTimeComes, AttemptTimeComes, ItemsTyped, ItemRow, Times
<1>3. ASSUME NEW a \in Checkers, CheckStep(a) PROVE ItemsTyped'
  <2>1. CASE StoreItem(a)
    <3> DEFINE v == Newest(checker[a].todo)
               policy == ItemPolicy(checker[a].sub, checker[a].first, v, checker[a].index)
               row == [status |-> policy[1], reason |-> policy[2], attempts |-> 0,
                       next |-> "null"]
    <3>1. policy[1] \in ItemStatuses /\ policy[2] \in Reasons
      BY <2>1, CheckedTyped, ItemPolicyTyped DEF StoreItem, ChecksTyped, CheckRow, ItemStatuses
    <3>2. item' = [item EXCEPT ![v] = IF @.status = "none" THEN row ELSE @] /\ lost' = lost
      BY <2>1 DEF StoreItem, CheckKeeps
    <3> HIDE DEF v, policy
    <3>3. 0 \in 0..MaxAttempts
      BY LimitsAssumption
    <3>4. row \in ItemRow
      BY <3>1, <3>3 DEF ItemRow, Times
    <3> HIDE DEF row
    <3> QED BY <3>2, <3>4 DEF ItemsTyped
  <2> QED BY <1>3, <2>1 DEF CheckStep, CheckEnter, CheckRead, CheckMark, Discover,
         CheckSucceeds, CheckFails, CheckLeave, CheckKeeps
<1>4. CASE WorkerStep
  <2>1. worker.pc \notin {"idle", "exited"} => worker.video \in Videos /\ item[worker.video] \in ItemRow
    BY DEF WorkerTyped, ItemsTyped
  <2>2. CASE WorkerBegins
    <3>1. worker.attempts + 1 \in 0..MaxAttempts
      BY LimitsAssumption DEF WorkerTyped
    <3>2. [item[worker.video] EXCEPT !.status = "downloading",
             !.attempts = worker.attempts + 1, !.next = "null"] \in ItemRow
      BY <2>1, <2>2, <3>1 DEF WorkerBegins, ItemRow, ItemStatuses, Times
    <3> QED BY <2>1, <2>2, <3>2, UpdateItemTyped DEF WorkerBegins, WorkerKeeps
  <2>3. CASE WorkerDone
    <3>1. [item[worker.video] EXCEPT !.status = "done", !.next = "null"] \in ItemRow
      BY <2>1, <2>3 DEF WorkerDone, ItemRow, ItemStatuses, Times
    <3> QED BY <2>1, <2>3, <3>1, UpdateItemTyped DEF WorkerDone, WorkerKeeps
  <2>4. CASE WorkerFails
    <3>1. /\ [item[worker.video] EXCEPT !.status = "queued", !.next = "future"] \in ItemRow
          /\ [item[worker.video] EXCEPT !.status = "failed", !.next = "null"] \in ItemRow
      BY <2>1, <2>4 DEF WorkerFails, ItemRow, ItemStatuses, Times
    <3> QED BY <2>1, <2>4, <3>1, UpdateItemTyped DEF WorkerFails, WorkerKeeps
  <2>5. CASE WorkerCannotPrepare
    BY <2>1, <2>5 DEF WorkerCannotPrepare, ItemsTyped
  <2> QED BY <1>4, <2>2, <2>3, <2>4, <2>5 DEF WorkerStep, WorkerPicks, WorkerExits,
         WorkerPrepares, DownloadEnds, WorkerKeeps
<1>5. CASE NewRequest
  <2>1. ASSUME NEW s \in Subs, Remove(s) PROVE ItemsTyped'
    <3>1. NoItem \in ItemRow
      BY LimitsAssumption DEF NoItem, ItemRow, ItemStatuses, Reasons, Times
    <3> QED BY <2>1, <3>1 DEF Remove, ItemsTyped
  <2> QED BY <1>5, <2>1 DEF NewRequest, Create, SetEnabled, SetAuto, CheckRequest,
         QueueRequest, RetryRequest, SkipRequest, ItemKeeps
<1>6. ASSUME NEW c \in Clients, RequestStep(c) PROVE ItemsTyped'
  <2> DEFINE v == request[c].video
  <2>1. request[c].pc # "idle" => v \in Videos /\ item[v] \in ItemRow
    BY DEF RequestsTyped, ItemsTyped
  <2>2. CASE WriteQueued(c)
    <3> DEFINE row == [item[v] EXCEPT !.status = "queued", !.next = "past",
                                      !.attempts = IF request[c].reset THEN 0 ELSE @]
    <3>1. item[v] \in ItemRow
      BY <2>1, <2>2 DEF WriteQueued
    <3>2. (IF request[c].reset THEN 0 ELSE item[v].attempts) \in 0..MaxAttempts
      BY <3>1, LimitsAssumption DEF ItemRow
    <3>3. \A n \in 0..MaxAttempts :
            [item[v] EXCEPT !.status = "queued", !.next = "past", !.attempts = n] \in ItemRow
      BY <3>1 DEF ItemRow, ItemStatuses, Times
    <3>4. row \in ItemRow
      BY <3>2, <3>3
    <3>5. UpdateItem(v, row) /\ UNCHANGED lost
      BY <2>2 DEF WriteQueued, ItemKeeps
    <3> QED BY <2>1, <2>2, <3>4, <3>5, UpdateItemTyped DEF WriteQueued
  <2>3. CASE WriteSkipped(c)
    <3>1. [item[v] EXCEPT !.status = "skipped", !.reason = "manual", !.next = "null"] \in ItemRow
      BY <2>1, <2>3 DEF WriteSkipped, ItemRow, ItemStatuses, Reasons, Times
    <3> QED BY <2>1, <2>3, <3>1, UpdateItemTyped DEF WriteSkipped, ItemKeeps
  <2> QED BY <1>6, <2>2, <2>3 DEF RequestStep, RetryReads, ItemKeeps
<1> QED BY <1>1, <1>2, <1>3, <1>4, <1>5, <1>6 DEF Next, SchedulerStep, Checkers, vars,
   RecoverChecks, RequestStop, Crash, Publish, SchedulerPicks, SchedulerExits, CheckKeeps

\* Nobody's check is well typed.
LEMMA NobodyIsTyped == Nobody \in CheckRow
BY DEF Nobody, CheckRow, CheckPCs

\* A check whose record changes to a legal one stays well typed.
LEMMA CheckerTyped ==
  ASSUME ChecksTyped, NEW a \in Checkers, NEW row \in CheckRow,
         row.pc \notin {"idle", "exited"} => row.sub \in Subs,
         checker' = [checker EXCEPT ![a] = row], active' \in SUBSET Subs
  PROVE  ChecksTyped'
BY DEF ChecksTyped

\* A check that moves on keeps its subscription.
LEMMA AtTyped ==
  ASSUME ChecksTyped, NEW a \in Checkers, checker[a].pc \notin {"idle", "exited"},
         NEW pc \in CheckPCs, At(a, pc), active' \in SUBSET Subs
  PROVE  ChecksTyped'
<1>1. checker[a] \in CheckRow /\ checker[a].sub \in Subs
  BY DEF ChecksTyped
<1>2. /\ [checker[a] EXCEPT !.pc = pc] \in CheckRow
      /\ [checker[a] EXCEPT !.pc = pc].sub = checker[a].sub
  BY <1>1 DEF CheckRow
<1> QED BY <1>1, <1>2, CheckerTyped DEF At

\* A check that ends, or has not begun, is nobody's.
LEMMA NobodyTyped ==
  ASSUME ChecksTyped, NEW a \in Checkers, checker' = [checker EXCEPT ![a] = Nobody],
         active' \in SUBSET Subs
  PROVE  ChecksTyped'
<1>1. Nobody.pc = "idle"
  BY DEF Nobody
<1> QED BY <1>1, NobodyIsTyped, CheckerTyped

\* A check that begins has a subscription.
LEMMA BeginTyped ==
  ASSUME ChecksTyped, NEW a \in Checkers, NEW s \in Subs, UNCHANGED active,
         checker' = [checker EXCEPT ![a] = [Nobody EXCEPT !.pc = "enter", !.sub = s]]
  PROVE  ChecksTyped'
<1>1. /\ [Nobody EXCEPT !.pc = "enter", !.sub = s] \in CheckRow
      /\ [Nobody EXCEPT !.pc = "enter", !.sub = s].sub = s
  BY NobodyIsTyped DEF CheckRow, CheckPCs
<1>2. active' \in SUBSET Subs
  BY DEF ChecksTyped
<1> QED BY <1>1, <1>2, CheckerTyped

\* Every step keeps the checks well typed.
LEMMA ChecksStep ==
  ASSUME TypeOK, [Next]_vars
  PROVE  ChecksTyped'
<1> USE DEF TypeOK
<1> SUFFICES ASSUME ~UNCHANGED <<checker, active>>
             PROVE  ChecksTyped'
  BY DEF ChecksTyped
<1>1. CASE Crash
  BY <1>1, NobodyIsTyped DEF Crash, ChecksTyped, Nobody
<1>2. ASSUME NEW s \in Subs, SchedulerPicks(s) PROVE ChecksTyped'
  BY <1>2, BeginTyped DEF SchedulerPicks, Checkers
<1>3. CASE SchedulerExits
  <2>1. /\ [Nobody EXCEPT !.pc = "exited"] \in CheckRow
        /\ [Nobody EXCEPT !.pc = "exited"].pc = "exited"
    BY NobodyIsTyped DEF CheckRow, CheckPCs
  <2>2. active' \in SUBSET Subs /\ Scheduler \in Checkers
    BY <1>3 DEF SchedulerExits, ChecksTyped, Checkers
  <2> QED BY <1>3, <2>1, <2>2, CheckerTyped DEF SchedulerExits
<1>4. ASSUME NEW a \in Checkers, CheckStep(a) PROVE ChecksTyped'
  <2> DEFINE me == checker[a]
  <2>0. me \in CheckRow /\ me.sub \in Subs
    BY <1>4 DEF CheckStep, CheckEnter, CheckRead, CheckMark, Discover, StoreItem,
       CheckSucceeds, CheckFails, CheckLeave, ChecksTyped
  <2>1. CASE CheckEnter(a)
    BY <2>1, AtTyped, NobodyTyped, CheckedTyped DEF CheckEnter, CheckPCs, ChecksTyped
  <2>2. CASE CheckRead(a)
    <3>1. sub[checker[a].sub] \in SubRow
      BY <2>2, CheckedTyped DEF CheckRead
    <3>2. CASE At(a, "leave")
      BY <2>2, <3>2, AtTyped DEF CheckRead, CheckPCs, ChecksTyped
    <3> DEFINE row == [me EXCEPT !.pc = "mark", !.first = sub[me.sub].first,
                                 !.enabled = sub[me.sub].enabled]
    <3>3. CASE checker' = [checker EXCEPT ![a] = row]
      <4>1. sub[me.sub].first \in BOOLEAN /\ sub[me.sub].enabled \in BOOLEAN
        BY <3>1 DEF SubRow
      <4>2. row \in CheckRow /\ row.sub = me.sub
        BY <2>0, <4>1 DEF CheckRow, CheckPCs
      <4>3. active' \in SUBSET Subs
        BY <2>2 DEF CheckRead, ChecksTyped
      <4> HIDE DEF row
      <4> QED BY <2>0, <3>3, <4>2, <4>3, CheckerTyped
    <3> QED BY <2>2, <3>2, <3>3 DEF CheckRead
  <2>3. CASE CheckMark(a) \/ CheckSucceeds(a) \/ CheckFails(a)
    BY <2>3, AtTyped DEF CheckMark, CheckSucceeds, CheckFails, CheckPCs, ChecksTyped
  <2>4. CASE Discover(a)
    <3>1. CASE At(a, "fail")
      BY <2>4, <3>1, AtTyped DEF Discover, CheckPCs, ChecksTyped
    <3> DEFINE todo == {v \in published : SourceOf[v] = me.sub}
               row == [me EXCEPT !.pc = "store", !.todo = todo]
    <3>2. CASE checker' = [checker EXCEPT ![a] = row]
      <4>1. todo \in SUBSET Videos
        BY DEF SubsTyped
      <4>2. row \in CheckRow /\ row.sub = me.sub
        BY <2>0, <4>1 DEF CheckRow, CheckPCs
      <4>3. active' \in SUBSET Subs
        BY <2>4 DEF Discover, ChecksTyped
      <4> HIDE DEF row
      <4> QED BY <2>0, <3>2, <4>2, <4>3, CheckerTyped
    <3> QED BY <2>4, <3>1, <3>2 DEF Discover
  <2>5. CASE StoreItem(a)
    <3> DEFINE v == Newest(me.todo)
               row == [me EXCEPT !.todo = me.todo \ {v}, !.index = me.index + 1]
    <3>1. checker' = [checker EXCEPT ![a] = row]
      BY <2>5 DEF StoreItem
    <3>2. active' \in SUBSET Subs
      BY <2>5 DEF StoreItem, ChecksTyped
    <3> HIDE DEF v
    <3>3. row \in CheckRow /\ row.sub = me.sub
      <4>1. me.todo \ {v} \in SUBSET Videos /\ me.index + 1 \in Nat
        BY <2>0 DEF CheckRow
      <4>2. \A todo \in SUBSET Videos, index \in Nat :
              /\ [me EXCEPT !.todo = todo, !.index = index] \in CheckRow
              /\ [me EXCEPT !.todo = todo, !.index = index].sub = me.sub
        BY <2>0 DEF CheckRow
      <4> QED BY <4>1, <4>2
    <3> HIDE DEF row
    <3> QED BY <2>0, <3>1, <3>2, <3>3, CheckerTyped
  <2>6. CASE CheckLeave(a)
    BY <2>6, NobodyTyped DEF CheckLeave, ChecksTyped
  <2> QED BY <1>4, <2>1, <2>2, <2>3, <2>4, <2>5, <2>6 DEF CheckStep
<1>5. CASE NewRequest
  <2>1. ASSUME NEW c \in Clients, NEW s \in Subs, CheckRequest(c, s) PROVE ChecksTyped'
    BY <2>1, BeginTyped DEF CheckRequest, Checkers
  <2> QED BY <1>5, <2>1 DEF NewRequest, Create, SetEnabled, SetAuto, Remove, QueueRequest,
         RetryRequest, SkipRequest, ItemKeeps
<1>6. CASE WorkerStep
  BY <1>6 DEF WorkerStep, WorkerPicks, WorkerExits, WorkerBegins, WorkerPrepares,
     WorkerCannotPrepare, DownloadEnds, WorkerDone, WorkerFails, WorkerKeeps
<1>7. ASSUME NEW c \in Clients, RequestStep(c) PROVE ChecksTyped'
  BY <1>7 DEF RequestStep, RetryReads, WriteQueued, WriteSkipped, ItemKeeps
<1> QED BY <1>1, <1>2, <1>3, <1>4, <1>5, <1>6, <1>7 DEF Next, SchedulerStep, Checkers, vars,
   RecoverChecks, RecoverDownloads, RequestStop, TimePasses, CheckTimeComes,
   AttemptTimeComes, Publish

\* Every step keeps the download thread well typed: it lists only items with
\* attempts left.
LEMMA WorkerPartStep ==
  ASSUME TypeOK, [Next]_vars
  PROVE  WorkerTyped'
<1> USE DEF TypeOK
<1> SUFFICES ASSUME worker' # worker
             PROVE  WorkerTyped'
  BY DEF WorkerTyped
<1>1. Resting \in [pc : {"idle"}, video : {0}, attempts : 0..(MaxAttempts - 1)]
  BY LimitsAssumption DEF Resting
<1>2. CASE Crash
  BY <1>1, <1>2 DEF Crash, WorkerTyped, Resting
<1>3. ASSUME NEW v \in Videos, WorkerPicks(v) PROVE WorkerTyped'
  <2>1. item[v] \in ItemRow /\ item[v].attempts < MaxAttempts
    BY <1>3 DEF WorkerPicks, Ready, ItemsTyped
  <2>2. item[v].attempts \in 0..(MaxAttempts - 1)
    BY <2>1, LimitsAssumption DEF ItemRow
  <2> QED BY <1>3, <2>2 DEF WorkerPicks, WorkerTyped
<1>4. CASE WorkerExits
  BY <1>1, <1>4 DEF WorkerExits, WorkerTyped, Resting
<1>5. CASE WorkerBegins \/ WorkerPrepares \/ DownloadEnds
  BY <1>5 DEF WorkerBegins, WorkerPrepares, DownloadEnds, WorkerTyped
<1>6. CASE WorkerCannotPrepare \/ WorkerDone \/ WorkerFails
  BY <1>1, <1>6 DEF WorkerCannotPrepare, WorkerDone, WorkerFails, WorkerTyped, Resting
<1>7. ASSUME NEW a \in Checkers, CheckStep(a) PROVE FALSE
  BY <1>7 DEF CheckStep, CheckEnter, CheckRead, CheckMark, Discover, StoreItem,
     CheckSucceeds, CheckFails, CheckLeave, CheckKeeps
<1>8. CASE NewRequest
  BY <1>8 DEF NewRequest, Create, SetEnabled, SetAuto, Remove, CheckRequest, QueueRequest,
     RetryRequest, SkipRequest, ItemKeeps
<1>9. ASSUME NEW c \in Clients, RequestStep(c) PROVE FALSE
  BY <1>9 DEF RequestStep, RetryReads, WriteQueued, WriteSkipped, ItemKeeps
<1> QED BY <1>2, <1>3, <1>4, <1>5, <1>6, <1>7, <1>8, <1>9 DEF Next, WorkerStep, SchedulerStep,
   Checkers, vars, RecoverChecks, RecoverDownloads, RequestStop, TimePasses,
   CheckTimeComes, AttemptTimeComes, Publish, SchedulerPicks, SchedulerExits, CheckKeeps

\* A request about an item has the item.
LEMMA GoesTyped ==
  ASSUME RequestsTyped, NEW c \in Clients, NEW v \in Videos, NEW reset \in BOOLEAN,
         NEW pc \in {"queue", "retry", "skip"}, Goes(c, pc, v, reset)
  PROVE  /\ request' \in [Clients -> Request]
         /\ \A d \in Clients : request'[d].pc # "idle" => request'[d].video \in Videos
<1>1. [pc |-> pc, video |-> v, reset |-> reset] \in Request
  BY DEF Request
<1> QED BY <1>1 DEF Goes, RequestsTyped

\* Every step keeps the requests and the phase of the process well typed.
LEMMA RequestsStep ==
  ASSUME TypeOK, [Next]_vars
  PROVE  RequestsTyped'
<1> USE DEF TypeOK
<1> SUFFICES ASSUME ~UNCHANGED <<request, asked, phase>>
             PROVE  RequestsTyped'
  BY DEF RequestsTyped
<1>1. CASE RecoverChecks \/ RecoverDownloads \/ RequestStop
  BY <1>1 DEF RecoverChecks, RecoverDownloads, RequestStop, RequestsTyped
<1>2. CASE Crash
  BY <1>2 DEF Crash, RequestsTyped, Request, NoRequest
<1>3. ASSUME NEW op, Asks(op), UNCHANGED phase
      PROVE  asked' \in 0..MaxRequests /\ phase' \in {"down", "starting", "up", "stopping"}
  BY <1>3, LimitsAssumption DEF Asks, RequestsTyped
<1>4. CASE NewRequest
  <2>1. ASSUME NEW s \in Subs, Create(s) \/ SetEnabled(s) \/ SetAuto(s) \/ Remove(s)
        PROVE  RequestsTyped'
    BY <1>3, <2>1 DEF Create, SetEnabled, SetAuto, Remove, RequestsTyped
  <2>2. ASSUME NEW c \in Clients, NEW s \in Subs, CheckRequest(c, s) PROVE RequestsTyped'
    BY <1>3, <2>2 DEF CheckRequest, RequestsTyped
  <2>3. ASSUME NEW c \in Clients, NEW v \in Videos,
               QueueRequest(c, v) \/ RetryRequest(c, v) \/ SkipRequest(c, v)
        PROVE  RequestsTyped'
    <3>1. PICK pc \in {"queue", "retry", "skip"}, reset \in BOOLEAN : Goes(c, pc, v, reset)
      BY <2>3 DEF QueueRequest, RetryRequest, SkipRequest
    <3>2. PICK op : Asks(op)
      BY <2>3 DEF QueueRequest, RetryRequest, SkipRequest
    <3>3. UNCHANGED phase
      BY <2>3 DEF QueueRequest, RetryRequest, SkipRequest, ItemKeeps
    <3> QED BY <1>3, <3>1, <3>2, <3>3, GoesTyped DEF RequestsTyped
  <2> QED BY <1>4, <2>1, <2>2, <2>3 DEF NewRequest
<1>5. ASSUME NEW c \in Clients, RequestStep(c) PROVE RequestsTyped'
  <2>1. UNCHANGED <<asked, phase>>
    BY <1>5 DEF RequestStep, RetryReads, WriteQueued, WriteSkipped, ItemKeeps
  <2>2. CASE request' = [request EXCEPT ![c] = NoRequest]
    <3>1. NoRequest \in Request /\ NoRequest.pc = "idle"
      BY DEF NoRequest, Request
    <3> QED BY <2>1, <2>2, <3>1 DEF RequestsTyped
  <2>3. ASSUME RetryReads(c), Goes(c, "queue", request[c].video, TRUE) PROVE RequestsTyped'
    <3>1. request[c].video \in Videos
      BY <2>3 DEF RetryReads, RequestsTyped
    <3> QED BY <2>1, <2>3, <3>1, GoesTyped DEF RequestsTyped
  <2> QED BY <1>5, <2>2, <2>3 DEF RequestStep, RetryReads, WriteQueued, WriteSkipped
<1>6. ASSUME NEW a \in Checkers, CheckStep(a) PROVE FALSE
  BY <1>6 DEF CheckStep, CheckEnter, CheckRead, CheckMark, Discover, StoreItem,
     CheckSucceeds, CheckFails, CheckLeave, CheckKeeps
<1>7. CASE WorkerStep
  BY <1>7 DEF WorkerStep, WorkerPicks, WorkerExits, WorkerBegins, WorkerPrepares,
     WorkerCannotPrepare, DownloadEnds, WorkerDone, WorkerFails, WorkerKeeps
<1> QED BY <1>1, <1>2, <1>4, <1>5, <1>6, <1>7 DEF Next, SchedulerStep, Checkers, vars,
   TimePasses, CheckTimeComes, AttemptTimeComes, Publish, SchedulerPicks, SchedulerExits,
   CheckKeeps

\* TypeOK is inductive: no item is given more attempts than the limit, whatever
\* requests do to it while the worker has it.
THEOREM Typing == Spec => []TypeOK
<1>1. Init => TypeOK
  BY InitTyped
<1>2. TypeOK /\ [Next]_vars => TypeOK'
  BY SubsStep, ItemsStep, ChecksStep, WorkerPartStep, RequestsStep DEF TypeOK
<1> QED BY <1>1, <1>2, PTL DEF Spec

-----------------------------------------------------------------------------
(* The checks of one subscription exclude each other.                      *)

\* Nobody enters or leaves a check.
Still == /\ active' = active
         /\ Inside' = Inside
         /\ \A a \in Inside : checker'[a].sub = checker[a].sub

\* A step that is still keeps the exclusion.
LEMMA StillExcludes == ASSUME ChecksExclude, Still PROVE ChecksExclude'
BY DEF ChecksExclude, Still

\* The steps inside a check are still.
LEMMA InnerStill ==
  ASSUME ChecksTyped, NEW a \in Checkers,
         \/ CheckRead(a) \/ CheckMark(a) \/ Discover(a)
         \/ StoreItem(a) \/ CheckSucceeds(a) \/ CheckFails(a)
  PROVE  Still
<1>0. checker[a] \in CheckRow /\ checker \in [Checkers -> CheckRow]
  BY DEF ChecksTyped
<1>1. /\ UNCHANGED active
      /\ \A b \in Checkers : b # a => checker'[b] = checker[b]
      /\ checker[a].pc \notin {"idle", "enter", "exited"}
  BY <1>0 DEF CheckRead, CheckMark, Discover, StoreItem, CheckSucceeds, CheckFails, At
<1>2. /\ checker'[a].sub = checker[a].sub
      /\ checker'[a].pc \notin {"idle", "enter", "exited"}
  <2>1. CASE CheckMark(a) \/ CheckSucceeds(a) \/ CheckFails(a)
    BY <1>0, <2>1 DEF CheckMark, CheckSucceeds, CheckFails, At, CheckRow
  <2>2. CASE CheckRead(a)
    <3> DEFINE first == sub[checker[a].sub].first
               enabled == sub[checker[a].sub].enabled
    <3>1. \/ At(a, "leave")
          \/ checker' = [checker EXCEPT ![a] = [checker[a] EXCEPT !.pc = "mark",
                                                   !.first = first, !.enabled = enabled]]
      BY <2>2 DEF CheckRead
    <3>2. checker[a].pc = "read"
      BY <2>2 DEF CheckRead
    <3> HIDE DEF first, enabled
    <3> QED BY <1>0, <3>1, <3>2, ZenonT(60) DEF At, CheckRow
  <2>3. CASE Discover(a)
    BY <1>0, <2>3, ZenonT(60) DEF Discover, At, CheckRow
  <2>4. CASE StoreItem(a)
    <3> DEFINE v == Newest(checker[a].todo)
    <3>1. /\ checker' = [checker EXCEPT ![a] = [checker[a] EXCEPT
                           !.todo = checker[a].todo \ {v}, !.index = checker[a].index + 1]]
          /\ checker[a].pc = "store"
      BY <2>4 DEF StoreItem
    <3> HIDE DEF v
    <3> QED BY <1>0, <3>1 DEF CheckRow
  <2> QED BY <2>1, <2>2, <2>3, <2>4
<1> QED BY <1>1, <1>2 DEF Still, Inside

\* Only a crash, an entry and an exit are not still.
LEMMA CheckSteps ==
  ASSUME TypeOK, [Next]_vars
  PROVE  Still \/ Crash \/ \E a \in Checkers : CheckEnter(a) \/ CheckLeave(a)
<1> USE DEF TypeOK
<1> SUFFICES ASSUME ~UNCHANGED <<checker, active>>
             PROVE  Still \/ Crash \/ \E a \in Checkers : CheckEnter(a) \/ CheckLeave(a)
  BY DEF Still, Inside
<1>1. ASSUME NEW a \in Checkers,
             \/ CheckRead(a) \/ CheckMark(a) \/ Discover(a)
             \/ StoreItem(a) \/ CheckSucceeds(a) \/ CheckFails(a)
      PROVE  Still
  BY <1>1, InnerStill
<1>2. ASSUME NEW a \in Checkers, UNCHANGED active,
             \A b \in Checkers : b # a => checker'[b] = checker[b],
             checker[a].pc \in {"idle", "enter", "exited"},
             checker'[a].pc \in {"idle", "enter", "exited"}
      PROVE  Still
  BY <1>2 DEF Still, Inside
<1>3. ASSUME NEW s \in Subs, SchedulerPicks(s) PROVE Still
  <2>1. Scheduler \in Checkers
    BY DEF Checkers
  <2> QED BY <1>2, <1>3, <2>1 DEF SchedulerPicks, ChecksTyped, Nobody
<1>4. CASE SchedulerExits
  <2>1. Scheduler \in Checkers
    BY DEF Checkers
  <2> QED BY <1>2, <1>4, <2>1 DEF SchedulerExits, ChecksTyped, Nobody
<1>5. ASSUME NEW c \in Clients, NEW s \in Subs, CheckRequest(c, s) PROVE Still
  <2>1. c \in Checkers
    BY DEF Checkers
  <2> QED BY <1>2, <1>5, <2>1 DEF CheckRequest, Free, ChecksTyped, Nobody
<1>6. CASE NewRequest
  BY <1>5, <1>6 DEF NewRequest, Create, SetEnabled, SetAuto, Remove, QueueRequest,
     RetryRequest, SkipRequest, ItemKeeps
<1>7. CASE WorkerStep
  BY <1>7 DEF WorkerStep, WorkerPicks, WorkerExits, WorkerBegins, WorkerPrepares,
     WorkerCannotPrepare, DownloadEnds, WorkerDone, WorkerFails, WorkerKeeps
<1>8. ASSUME NEW c \in Clients, RequestStep(c) PROVE FALSE
  BY <1>8 DEF RequestStep, RetryReads, WriteQueued, WriteSkipped, ItemKeeps
<1> QED BY <1>1, <1>3, <1>4, <1>6, <1>7, <1>8 DEF Next, SchedulerStep, CheckStep, Checkers,
   vars, RecoverChecks, RecoverDownloads, RequestStop, TimePasses, CheckTimeComes,
   AttemptTimeComes, Publish

\* One check of a subscription at a time, by the scheduler or a request, and it
\* is registered for exactly as long as it lasts.
THEOREM OneCheckAtATime == Spec => []ChecksExclude
<1>1. Init => ChecksExclude
  BY DEF Init, ChecksExclude, Inside, Nobody
<1>2. ASSUME TypeOK, ChecksExclude, [Next]_vars
      PROVE  ChecksExclude'
  <2>1. CASE Crash
    BY <2>1 DEF Crash, ChecksExclude, Inside, Nobody
  <2>2. ASSUME NEW a \in Checkers, CheckEnter(a) PROVE ChecksExclude'
    <3> DEFINE s == checker[a].sub
    <3>1. a \notin Inside
      BY <2>2 DEF CheckEnter, Inside
    <3>2. CASE s \in active
      <4>1. Still
        BY <1>2, <2>2, <3>2 DEF Still, Inside, CheckEnter, TypeOK, ChecksTyped, Nobody
      <4> QED BY <1>2, <4>1, StillExcludes
    <3>3. CASE s \notin active
      <4>1. /\ active' = active \cup {s}
            /\ Inside' = Inside \cup {a}
            /\ \A b \in Checkers : checker'[b].sub = checker[b].sub
        BY <1>2, <2>2, <3>3 DEF CheckEnter, At, Inside, TypeOK, ChecksTyped, CheckRow
      <4>2. \A b \in Inside : checker[b].sub # s
        BY <1>2, <3>3 DEF ChecksExclude
      <4>3. Inside \subseteq Checkers
        BY DEF Inside
      <4> QED BY <1>2, <4>1, <4>2, <4>3 DEF ChecksExclude
    <3> QED BY <3>2, <3>3
  <2>3. ASSUME NEW a \in Checkers, CheckLeave(a) PROVE ChecksExclude'
    <3>1. a \in Inside
      BY <2>3 DEF CheckLeave, Inside
    <3>2. /\ active' = active \ {checker[a].sub}
          /\ Inside' = Inside \ {a}
          /\ \A b \in Checkers \ {a} : checker'[b].sub = checker[b].sub
      BY <1>2, <2>3 DEF CheckLeave, Inside, TypeOK, ChecksTyped, Nobody
    <3>3. \A b \in Inside \ {a} : checker[b].sub # checker[a].sub
      BY <1>2, <3>1 DEF ChecksExclude
    <3>4. Inside \subseteq Checkers
      BY DEF Inside
    <3> QED BY <1>2, <3>1, <3>2, <3>3, <3>4 DEF ChecksExclude
  <2> QED BY <1>2, <2>1, <2>2, <2>3, CheckSteps, StillExcludes
<1> QED BY <1>1, <1>2, Typing, PTL DEF Spec

-----------------------------------------------------------------------------
(* A status that says somebody is at work is true.                         *)

\* The check that has written "checking" has not written its end yet.
Marked(s) == \E a \in Checkers : /\ checker[a].sub = s
                                 /\ checker[a].pc \in {"discover", "store", "fail"}
CheckOwned ==
  ChecksEnabled =>
    \A s \in Subs : Live(s) /\ sub[s].check = "checking" /\ phase # "down" => Marked(s)

\* So has the download that has written "downloading".  A row without a
\* subscription never gets there, since nobody lists it.
Taken(v) == worker.video = v /\ worker.pc \in {"prepare", "work", "done", "fail"}
ItemOwned ==
  \A v \in Videos : item[v].status = "downloading" =>
    /\ Live(SourceOf[v])
    /\ DownloadsEnabled /\ phase \in {"up", "stopping"} => Taken(v) \/ v \in lost

\* A step that writes no subscription and moves no check keeps the first part.
LEMMA CheckFrame ==
  ASSUME CheckOwned, UNCHANGED <<sub, checker>>, phase' # "down" => phase # "down"
  PROVE  CheckOwned'
BY DEF CheckOwned, Marked, Live

\* An UPDATE of a subscription to another status than "checking".
LEMMA CheckUpdate ==
  ASSUME SubsTyped, CheckOwned, NEW s \in Subs, NEW row, row.check # "checking",
         UpdateSub(s, row), UNCHANGED phase,
         \A a \in Checkers : checker[a].sub # s => checker'[a] = checker[a]
  PROVE  CheckOwned'
<1> SUFFICES ASSUME ChecksEnabled, NEW r \in Subs, Live(r)', sub'[r].check = "checking",
                    phase # "down"
             PROVE  Marked(r)'
  BY DEF CheckOwned
<1>1. sub' = IF Live(s) THEN [sub EXCEPT ![s] = row] ELSE sub
  BY DEF UpdateSub
<1>2. r # s
  BY <1>1 DEF SubsTyped, Live
<1>3. sub'[r] = sub[r]
  BY <1>1, <1>2 DEF SubsTyped
<1>4. PICK a \in Checkers : checker[a].sub = r /\ checker[a].pc \in {"discover", "store", "fail"}
  BY <1>3 DEF CheckOwned, Marked, Live
<1>5. checker'[a] = checker[a]
  BY <1>2, <1>4
<1> QED BY <1>4, <1>5 DEF Marked

\* Every step keeps the first part.
LEMMA CheckOwnedStep ==
  ASSUME TypeOK, CheckOwned, [Next]_vars
  PROVE  CheckOwned'
<1> USE DEF TypeOK
<1>1. CASE RecoverChecks
  <2> SUFFICES ASSUME ChecksEnabled, NEW s \in Subs PROVE ~(Live(s)' /\ sub'[s].check = "checking")
    BY DEF CheckOwned
  <2>1. sub[s] \in SubRow
    BY DEF SubsTyped
  <2>2. sub'[s] = IF Live(s) /\ sub[s].check = "checking"
                  THEN [sub[s] EXCEPT !.check = "due", !.next = "past"] ELSE sub[s]
    BY <1>1 DEF RecoverChecks
  <2>3. CASE Live(s) /\ sub[s].check = "checking"
    BY <2>1, <2>2, <2>3 DEF SubRow
  <2>4. CASE ~(Live(s) /\ sub[s].check = "checking")
    BY <2>2, <2>4 DEF Live
  <2> QED BY <2>3, <2>4
<1>2. CASE Crash
  BY <1>2 DEF Crash, CheckOwned
<1>3. CASE RecoverDownloads \/ RequestStop \/ (\E v \in Videos : Publish(v)) \/ WorkerStep
           \/ (\E c \in Clients : RequestStep(c)) \/ UNCHANGED vars
  BY <1>3, CheckFrame DEF RecoverDownloads, RequestStop, Publish, WorkerStep, WorkerPicks,
     WorkerExits, WorkerBegins, WorkerPrepares, WorkerCannotPrepare, DownloadEnds,
     WorkerDone, WorkerFails, WorkerKeeps, RequestStep, RetryReads, WriteQueued,
     WriteSkipped, ItemKeeps, vars
<1>4. CASE TimePasses
  <2>1. ASSUME NEW s \in Subs, CheckTimeComes(s) PROVE CheckOwned'
    <3>1. /\ \A r \in Subs : sub'[r].state = sub[r].state /\ sub'[r].check = sub[r].check
          /\ UNCHANGED <<checker, phase>>
      BY <2>1 DEF CheckTimeComes, SubsTyped, SubRow
    <3> QED BY <3>1 DEF CheckOwned, Marked, Live
  <2> QED BY <1>4, <2>1, CheckFrame DEF TimePasses, AttemptTimeComes
<1>5. ASSUME NEW a \in Checkers, UNCHANGED <<sub, phase>>,
             \A b \in Checkers : b # a => checker'[b] = checker[b],
             \/ checker[a].pc \notin {"discover", "store", "fail"}
             \/ /\ checker'[a].sub = checker[a].sub
                /\ checker'[a].pc \in {"discover", "store", "fail"}
      PROVE  CheckOwned'
  BY <1>5 DEF CheckOwned, Marked, Live
<1>6. ASSUME NEW a \in Checkers, CheckStep(a) PROVE CheckOwned'
  <2> DEFINE s == checker[a].sub
  <2>1. s \in Subs /\ sub[s] \in SubRow /\ checker[a] \in CheckRow /\ phase' = phase
    BY <1>6 DEF CheckStep, CheckEnter, CheckRead, CheckMark, Discover, StoreItem,
       CheckSucceeds, CheckFails, CheckLeave, CheckKeeps, ChecksTyped, SubsTyped
  <2>2. CASE CheckEnter(a) \/ CheckRead(a) \/ CheckLeave(a)
    <3>1. /\ UNCHANGED <<sub, phase>>
          /\ \A b \in Checkers : b # a => checker'[b] = checker[b]
          /\ checker[a].pc \notin {"discover", "store", "fail"}
      BY <2>2 DEF CheckEnter, CheckRead, CheckLeave, At, CheckKeeps, ChecksTyped
    <3> QED BY <1>5, <3>1
  <2>3. CASE Discover(a) \/ StoreItem(a)
    <3>1. /\ UNCHANGED <<sub, phase>>
          /\ \A b \in Checkers : b # a => checker'[b] = checker[b]
      BY <2>3 DEF Discover, StoreItem, At, CheckKeeps, ChecksTyped
    <3>2. Still
      BY <2>3, <1>6, InnerStill
    <3>3. checker'[a].sub = s
      BY <2>3, <3>2 DEF Still, Inside, Discover, StoreItem
    <3>4. checker'[a].pc \in {"store", "fail"}
      <4>1. CASE Discover(a)
        BY <2>1, <4>1 DEF Discover, At, ChecksTyped, CheckRow
      <4>2. CASE StoreItem(a)
        <5> DEFINE v == Newest(checker[a].todo)
        <5>1. /\ checker' = [checker EXCEPT ![a] = [checker[a] EXCEPT
                               !.todo = checker[a].todo \ {v}, !.index = checker[a].index + 1]]
              /\ checker[a].pc = "store"
          BY <4>2 DEF StoreItem
        <5> HIDE DEF v
        <5> QED BY <2>1, <5>1 DEF ChecksTyped, CheckRow
      <4> QED BY <2>3, <4>1, <4>2
    <3> QED BY <1>5, <3>1, <3>3, <3>4
  <2>4. CASE CheckMark(a)
    <3>1. /\ checker' = [checker EXCEPT ![a] = [checker[a] EXCEPT !.pc = "discover"]]
          /\ sub' = IF Live(s) THEN [sub EXCEPT ![s] = [sub[s] EXCEPT !.check = "checking"]]
                               ELSE sub
          /\ checker[a].pc = "mark"
      BY <2>4 DEF CheckMark, At, UpdateSub
    <3>2. /\ checker'[a].sub = s
          /\ checker'[a].pc = "discover"
      BY <2>1, <3>1 DEF ChecksTyped, CheckRow
    <3>3. \A r \in Subs : Marked(r) => Marked(r)'
      BY <2>1, <3>1 DEF Marked, ChecksTyped
    <3>4. \A r \in Subs \ {s} : sub'[r] = sub[r]
      BY <3>1 DEF SubsTyped
    <3>5. \A r \in Subs \ {s} : ChecksEnabled /\ Live(r)' /\ sub'[r].check = "checking"
                                 /\ phase # "down" => Marked(r)
      BY <3>4 DEF CheckOwned, Live
    <3>6. ASSUME ChecksEnabled, NEW r \in Subs, Live(r)', sub'[r].check = "checking",
                 phase # "down"
          PROVE  Marked(r)'
      <4>1. CASE r = s
        BY <3>2, <4>1 DEF Marked
      <4>2. CASE r # s
        BY <3>3, <3>5, <3>6, <4>2
      <4> QED BY <4>1, <4>2
    <3> QED BY <2>1, <3>6 DEF CheckOwned
  <2>5. CASE CheckSucceeds(a) \/ CheckFails(a)
    <3>1. \A b \in Checkers : checker[b].sub # s => checker'[b] = checker[b]
      BY <2>5 DEF CheckSucceeds, CheckFails, At, ChecksTyped
    <3>2. CASE CheckSucceeds(a)
      <4>1. \A next : \A check \in {"idle", "paused"} :
              [sub[s] EXCEPT !.first = TRUE, !.check = check, !.next = next].check # "checking"
        BY <2>1 DEF SubRow
      <4>2. PICK check \in {"idle", "paused"}, next \in Times :
              UpdateSub(s, [sub[s] EXCEPT !.first = TRUE, !.check = check, !.next = next])
        <5>1. CASE checker[a].enabled
          BY <3>2, <5>1 DEF CheckSucceeds, Times
        <5>2. CASE ~checker[a].enabled
          BY <3>2, <5>2 DEF CheckSucceeds, Times
        <5> QED BY <5>1, <5>2
      <4> QED BY <2>1, <3>1, <4>1, <4>2, CheckUpdate
    <3>3. CASE CheckFails(a)
      <4>1. \A next : \A check \in {"backoff", "paused"} :
              [sub[s] EXCEPT !.check = check, !.next = next].check # "checking"
        BY <2>1 DEF SubRow
      <4>2. PICK check \in {"backoff", "paused"}, next \in Times :
              UpdateSub(s, [sub[s] EXCEPT !.check = check, !.next = next])
        <5>1. CASE checker[a].enabled
          BY <3>3, <5>1 DEF CheckFails, Times
        <5>2. CASE ~checker[a].enabled
          BY <3>3, <5>2 DEF CheckFails, Times
        <5> QED BY <5>1, <5>2
      <4> QED BY <2>1, <3>1, <4>1, <4>2, CheckUpdate
    <3> QED BY <2>5, <3>2, <3>3
  <2> QED BY <1>6, <2>2, <2>3, <2>4, <2>5 DEF CheckStep
<1>7. CASE (\E s \in Subs : SchedulerPicks(s)) \/ SchedulerExits
  <2>1. /\ UNCHANGED <<sub, phase>>
        /\ \A b \in Checkers : b # Scheduler => checker'[b] = checker[b]
        /\ checker[Scheduler].pc \notin {"discover", "store", "fail"}
        /\ Scheduler \in Checkers
    BY <1>7 DEF SchedulerPicks, SchedulerExits, CheckKeeps, ChecksTyped, Checkers
  <2> QED BY <1>5, <2>1
<1>8. CASE NewRequest
  <2>1. ASSUME NEW s \in Subs, Create(s) PROVE CheckOwned'
    <3>1. PICK row : sub' = [sub EXCEPT ![s] = row] /\ row.check # "checking"
      <4>1. PICK on \in BOOLEAN, auto \in BOOLEAN, policy \in InitialPolicies :
              sub' = [sub EXCEPT ![s] = [state |-> "live", policy |-> policy, enabled |-> on,
                          auto |-> auto, check |-> IF on THEN "idle" ELSE "paused",
                          first |-> FALSE, next |-> IF on THEN "past" ELSE "null"]]
        BY <2>1 DEF Create
      <4> DEFINE row == [state |-> "live", policy |-> policy, enabled |-> on,
                         auto |-> auto, check |-> IF on THEN "idle" ELSE "paused",
                         first |-> FALSE, next |-> IF on THEN "past" ELSE "null"]
      <4>2. row.check # "checking"
        OBVIOUS
      <4>3. sub' = [sub EXCEPT ![s] = row]
        BY <4>1
      <4> HIDE DEF row
      <4> QED BY <4>2, <4>3
    <3>2. UNCHANGED <<checker, phase>>
      BY <2>1 DEF Create
    <3> QED BY <3>1, <3>2 DEF CheckOwned, Marked, Live, SubsTyped
  <2>2. ASSUME NEW s \in Subs, SetEnabled(s) PROVE CheckOwned'
    <3>1. sub[s] \in SubRow /\ UNCHANGED <<checker, phase>>
      BY <2>2 DEF SetEnabled, SubsTyped
    <3>2. PICK on \in BOOLEAN :
            UpdateSub(s, [sub[s] EXCEPT !.enabled = on, !.check = IF on THEN "idle" ELSE "paused",
                                        !.next = IF on THEN "past" ELSE "null"])
      BY <2>2 DEF SetEnabled
    <3>3. \A next : \A check \in {"idle", "paused"} :
            [sub[s] EXCEPT !.enabled = on, !.check = check, !.next = next].check # "checking"
      BY <3>1 DEF SubRow
    <3> QED BY <3>1, <3>2, <3>3, CheckUpdate
  <2>3. ASSUME NEW s \in Subs, SetAuto(s) PROVE CheckOwned'
    <3>1. /\ \A r \in Subs : sub'[r].state = sub[r].state /\ sub'[r].check = sub[r].check
          /\ UNCHANGED <<checker, phase>>
      BY <2>3 DEF SetAuto, UpdateSub, SubsTyped, SubRow
    <3> QED BY <3>1 DEF CheckOwned, Marked, Live
  <2>4. ASSUME NEW s \in Subs, Remove(s) PROVE CheckOwned'
    <3>1. /\ sub'[s].state # "live"
          /\ \A r \in Subs \ {s} : sub'[r] = sub[r]
          /\ UNCHANGED <<checker, phase>>
      BY <2>4 DEF Remove, SubsTyped, NoSub
    <3> QED BY <3>1 DEF CheckOwned, Marked, Live
  <2>5. ASSUME NEW c \in Clients, NEW s \in Subs, CheckRequest(c, s) PROVE CheckOwned'
    <3>1. /\ UNCHANGED <<sub, phase>>
          /\ \A b \in Checkers : b # c => checker'[b] = checker[b]
          /\ checker[c].pc \notin {"discover", "store", "fail"}
          /\ c \in Checkers
      BY <2>5 DEF CheckRequest, Free, ChecksTyped, Checkers
    <3> QED BY <1>5, <3>1
  <2> QED BY <1>8, <2>1, <2>2, <2>3, <2>4, <2>5, CheckFrame DEF NewRequest, QueueRequest,
         RetryRequest, SkipRequest, ItemKeeps
<1> QED BY <1>1, <1>2, <1>3, <1>4, <1>6, <1>7, <1>8 DEF Next, SchedulerStep, Checkers

\* A step in which no subscription goes, no item starts, and the worker has
\* what it had keeps the second part.
LEMMA ItemFrame ==
  ASSUME VideosAssumption, ItemOwned, \A s \in Subs : Live(s) => Live(s)',
         \A v \in Videos : item'[v].status = "downloading" => item[v].status = "downloading",
         phase' \in {"up", "stopping"} =>
           phase \in {"up", "stopping"} /\ UNCHANGED <<worker, lost>>
  PROVE  ItemOwned'
BY DEF ItemOwned, Taken, VideosAssumption

\* An UPDATE of a subscription.
LEMMA UpdateLive ==
  ASSUME SubsTyped, NEW s \in Subs, NEW row, UpdateSub(s, row), row.state = sub[s].state
  PROVE  \A r \in Subs : Live(r) => Live(r)'
BY DEF SubsTyped, UpdateSub, Live

\* No check makes a subscription go, and the upsert starts no item.
LEMMA ItemOwnedByCheck ==
  ASSUME TypeOK, ItemOwned, NEW a \in Checkers, CheckStep(a)
  PROVE  ItemOwned'
<1> USE DEF TypeOK
<1>1. UNCHANGED <<worker, lost, phase>>
  BY DEF CheckStep, CheckEnter, CheckRead, CheckMark, Discover, StoreItem, CheckSucceeds,
     CheckFails, CheckLeave, CheckKeeps
<1>2. CASE CheckEnter(a) \/ CheckRead(a) \/ Discover(a) \/ CheckLeave(a)
  <2>1. UNCHANGED <<sub, item>>
    BY <1>2 DEF CheckEnter, CheckRead, Discover, CheckLeave
  <2> QED BY <1>1, <2>1, ItemFrame, VideosAssumption DEF Live
<1>3. CASE CheckMark(a) \/ CheckSucceeds(a) \/ CheckFails(a)
  <2>1. checker[a].sub \in Subs /\ item' = item
    BY <1>3 DEF CheckMark, CheckSucceeds, CheckFails, ChecksTyped
  <2>2. sub[checker[a].sub] \in SubRow
    BY <2>1 DEF SubsTyped
  <2>3. \A row : UpdateSub(checker[a].sub, row) /\ row.state = sub[checker[a].sub].state
                   => ItemOwned'
    BY <1>1, <2>1, ItemFrame, UpdateLive, VideosAssumption
  <2>4. \A check, next :
          /\ [sub[checker[a].sub] EXCEPT !.check = check].state = sub[checker[a].sub].state
          /\ [sub[checker[a].sub] EXCEPT !.check = check, !.next = next].state
               = sub[checker[a].sub].state
    BY <2>2 DEF SubRow
  <2>5. CASE CheckMark(a)
    BY <2>3, <2>4, <2>5 DEF CheckMark
  <2>6. CASE CheckSucceeds(a)
    <3> DEFINE row == [sub[checker[a].sub] EXCEPT !.first = TRUE,
                        !.check = IF checker[a].enabled THEN "idle" ELSE "paused",
                        !.next = IF checker[a].enabled THEN "future" ELSE "null"]
    <3>1. UpdateSub(checker[a].sub, row)
      BY <2>6 DEF CheckSucceeds
    <3>2. row.state = sub[checker[a].sub].state
      BY <2>2 DEF SubRow
    <3> HIDE DEF row
    <3> QED BY <2>3, <3>1, <3>2
  <2>7. CASE CheckFails(a)
    BY <2>3, <2>4, <2>7 DEF CheckFails
  <2> QED BY <1>3, <2>5, <2>6, <2>7
<1>4. CASE StoreItem(a)
  <2> DEFINE v == Newest(checker[a].todo)
             policy == ItemPolicy(checker[a].sub, checker[a].first, v, checker[a].index)
  <2>1. policy[1] # "downloading"
    BY <1>4, CheckedTyped, ItemPolicyTyped DEF StoreItem, ChecksTyped, CheckRow
  <2>2. /\ item' = [item EXCEPT ![v] = IF item[v].status = "none"
                                       THEN [status |-> policy[1], reason |-> policy[2],
                                             attempts |-> 0, next |-> "null"]
                                       ELSE item[v]]
        /\ sub' = sub
    BY <1>4 DEF StoreItem
  <2> HIDE DEF v, policy
  <2>3. \A w \in Videos : item'[w].status = "downloading" => item[w].status = "downloading"
    BY <2>1, <2>2 DEF ItemsTyped
  <2> QED BY <1>1, <2>2, <2>3, ItemFrame, VideosAssumption DEF Live
<1> QED BY <1>2, <1>3, <1>4 DEF CheckStep

\* A step of the worker: what is marked was so before and is not let go of,
\* or the worker has it now.
LEMMA ItemOwnedByWorker ==
  ASSUME TypeOK, ItemOwned, WorkerStep
  PROVE  ItemOwned'
<1> USE DEF TypeOK
<1> DEFINE v == worker.video
<1>1. UNCHANGED <<sub, phase>>
  BY DEF WorkerStep, WorkerPicks, WorkerExits, WorkerBegins, WorkerPrepares,
     WorkerCannotPrepare, DownloadEnds, WorkerDone, WorkerFails, WorkerKeeps
<1>2. SUFFICES ASSUME NEW w \in Videos, item'[w].status = "downloading"
               PROVE  \/ /\ item[w].status = "downloading"
                         /\ Taken(w) => Taken(w)' \/ w \in lost'
                         /\ w \in lost => w \in lost'
                      \/ Live(SourceOf[w]) /\ Taken(w)'
  BY <1>1 DEF ItemOwned, Live
<1>3. CASE (\E u \in Videos : WorkerPicks(u)) \/ WorkerExits \/ WorkerPrepares
           \/ WorkerCannotPrepare \/ DownloadEnds
  BY <1>2, <1>3 DEF WorkerPicks, WorkerExits, WorkerPrepares, WorkerCannotPrepare,
     DownloadEnds, WorkerKeeps, WorkerTyped, Taken
<1>4. CASE WorkerBegins
  <2>1. /\ item' = IF Live(SourceOf[v]) /\ item[v].status # "none"
                   THEN [item EXCEPT ![v] = [item[v] EXCEPT !.status = "downloading",
                                      !.attempts = worker.attempts + 1, !.next = "null"]]
                   ELSE item
        /\ lost' = lost
        /\ ~Taken(w)
    BY <1>4 DEF WorkerBegins, UpdateItem, WorkerKeeps, Taken
  <2>2. worker'.video = v /\ worker'.pc = "prepare"
    BY <1>4 DEF WorkerBegins, WorkerTyped
  <2>3. CASE w = v /\ Live(SourceOf[v])
    BY <2>2, <2>3 DEF Taken
  <2>4. CASE ~(w = v /\ Live(SourceOf[v]))
    BY <1>2, <2>1, <2>4 DEF ItemsTyped
  <2> QED BY <2>3, <2>4
<1>5. ASSUME NEW row, row.status # "downloading", UpdateItem(v, row),
             worker.pc \in {"done", "fail"}, lost' = lost
      PROVE  item[w].status = "downloading" /\ ~Taken(w)
  <2>1. v \in Videos
    BY <1>5 DEF WorkerTyped
  <2>2. w # v
    <3>1. CASE Live(SourceOf[v]) /\ item[v].status # "none"
      BY <1>2, <1>5, <2>1, <3>1 DEF UpdateItem, ItemsTyped
    <3>2. CASE ~(Live(SourceOf[v]) /\ item[v].status # "none")
      BY <1>2, <1>5, <3>2 DEF UpdateItem, ItemOwned
    <3> QED BY <3>1, <3>2
  <2>3. item'[w] = item[w]
    BY <1>5, <2>2 DEF UpdateItem, ItemsTyped
  <2> QED BY <1>2, <2>2, <2>3 DEF Taken
<1>6. CASE WorkerDone
  <2>1. item[v] \in ItemRow
    BY <1>6 DEF WorkerDone, WorkerTyped, ItemsTyped
  <2>2. [item[v] EXCEPT !.status = "done", !.next = "null"].status # "downloading"
    BY <2>1 DEF ItemRow
  <2> QED BY <1>5, <1>6, <2>2 DEF WorkerDone, WorkerKeeps
<1>7. CASE WorkerFails
  <2>1. item[v] \in ItemRow
    BY <1>7 DEF WorkerFails, WorkerTyped, ItemsTyped
  <2>2. /\ [item[v] EXCEPT !.status = "queued", !.next = "future"].status # "downloading"
        /\ [item[v] EXCEPT !.status = "failed", !.next = "null"].status # "downloading"
    BY <2>1 DEF ItemRow
  <2>3. CASE worker.attempts + 1 < MaxAttempts
    BY <1>5, <1>7, <2>2, <2>3 DEF WorkerFails, WorkerKeeps
  <2>4. CASE ~(worker.attempts + 1 < MaxAttempts)
    BY <1>5, <1>7, <2>2, <2>4 DEF WorkerFails, WorkerKeeps
  <2> QED BY <2>3, <2>4
<1> QED BY <1>3, <1>4, <1>6, <1>7 DEF WorkerStep

\* Every step keeps the second part.
LEMMA ItemOwnedStep ==
  ASSUME TypeOK, ItemOwned, [Next]_vars
  PROVE  ItemOwned'
<1> USE DEF TypeOK
<1>1. CASE RecoverChecks
  <2>1. \A s \in Subs : Live(s) => Live(s)'
    <3> SUFFICES ASSUME NEW s \in Subs, Live(s) PROVE Live(s)'
      OBVIOUS
    <3>1. sub[s] \in SubRow
      BY DEF SubsTyped
    <3>2. sub'[s] = sub[s] \/ sub'[s] = [sub[s] EXCEPT !.check = "due", !.next = "past"]
      BY <1>1 DEF RecoverChecks
    <3> QED BY <3>1, <3>2 DEF SubRow, Live
  <2> QED BY <1>1, <2>1, ItemFrame, VideosAssumption DEF RecoverChecks
<1>2. CASE RecoverDownloads
  <2>1. \A v \in Videos : item'[v].status = "downloading" =>
             item[v].status = "downloading" /\ ~DownloadsEnabled
    <3> SUFFICES ASSUME NEW v \in Videos, item'[v].status = "downloading"
                 PROVE  item[v].status = "downloading" /\ ~DownloadsEnabled
      OBVIOUS
    <3>1. item[v] \in ItemRow
      BY DEF ItemsTyped
    <3>2. item'[v] = IF DownloadsEnabled /\ item[v].status = "downloading"
                     THEN [item[v] EXCEPT !.status = "queued", !.next = "past"] ELSE item[v]
      BY <1>2 DEF RecoverDownloads
    <3>3. CASE DownloadsEnabled /\ item[v].status = "downloading"
      BY <3>1, <3>2, <3>3 DEF ItemRow
    <3>4. CASE ~(DownloadsEnabled /\ item[v].status = "downloading")
      BY <3>2, <3>4
    <3> QED BY <3>3, <3>4
  <2>2. sub' = sub
    BY <1>2 DEF RecoverDownloads
  <2> QED BY <2>1, <2>2 DEF ItemOwned, Live
<1>3. CASE RequestStop \/ Crash \/ (\E v \in Videos : Publish(v)) \/ SchedulerExits
           \/ (\E s \in Subs : SchedulerPicks(s)) \/ UNCHANGED vars
  BY <1>3, ItemFrame, VideosAssumption DEF RequestStop, Crash, Publish, SchedulerExits,
     SchedulerPicks, CheckKeeps, vars, Live
<1>4. CASE TimePasses
  <2>1. \A s \in Subs : Live(s) => Live(s)'
    BY <1>4 DEF TimePasses, CheckTimeComes, AttemptTimeComes, SubsTyped, SubRow, Live
  <2>2. \A v \in Videos : item'[v].status = item[v].status
    BY <1>4 DEF TimePasses, CheckTimeComes, AttemptTimeComes, ItemsTyped, ItemRow
  <2>3. UNCHANGED <<worker, lost, phase>>
    BY <1>4 DEF TimePasses, CheckTimeComes, AttemptTimeComes
  <2> QED BY <2>1, <2>2, <2>3, ItemFrame, VideosAssumption
<1>5. ASSUME NEW c \in Clients, RequestStep(c) PROVE ItemOwned'
  <2>1. UNCHANGED <<sub, worker, lost, phase>>
    BY <1>5 DEF RequestStep, RetryReads, WriteQueued, WriteSkipped, ItemKeeps
  <2>2. ASSUME NEW v \in Videos, NEW row, UpdateItem(v, row), row.status # "downloading"
        PROVE  ItemOwned'
    <3>1. \A w \in Videos : item'[w].status = "downloading" => item[w].status = "downloading"
      BY <2>2 DEF UpdateItem, ItemsTyped
    <3> QED BY <2>1, <3>1, ItemFrame, VideosAssumption DEF Live
  <2>3. CASE RetryReads(c)
    BY <2>1, <2>3, ItemFrame, VideosAssumption DEF RetryReads, Live
  <2>4. CASE WriteQueued(c)
    <3> DEFINE v == request[c].video
    <3>1. v \in Videos /\ item[v] \in ItemRow
      BY <2>4 DEF WriteQueued, RequestsTyped, ItemsTyped
    <3> DEFINE row == [item[v] EXCEPT !.status = "queued", !.next = "past",
                                      !.attempts = IF request[c].reset THEN 0 ELSE @]
    <3>2. UpdateItem(v, row)
      BY <2>4 DEF WriteQueued
    <3>3. row.status # "downloading"
      BY <3>1 DEF ItemRow
    <3> HIDE DEF row
    <3> QED BY <2>2, <3>1, <3>2, <3>3
  <2>5. CASE WriteSkipped(c)
    <3> DEFINE v == request[c].video
    <3>1. v \in Videos /\ item[v] \in ItemRow
      BY <2>5 DEF WriteSkipped, RequestsTyped, ItemsTyped
    <3>2. [item[v] EXCEPT !.status = "skipped", !.reason = "manual",
                          !.next = "null"].status # "downloading"
      BY <3>1 DEF ItemRow
    <3> QED BY <2>2, <2>5, <3>1, <3>2 DEF WriteSkipped
  <2> QED BY <1>5, <2>3, <2>4, <2>5 DEF RequestStep
<1>6. CASE NewRequest
  <2>1. UNCHANGED <<worker, lost, phase>>
    BY <1>6 DEF NewRequest, Create, SetEnabled, SetAuto, Remove, CheckRequest, QueueRequest,
       RetryRequest, SkipRequest, ItemKeeps
  <2>2. ASSUME item' = item, \A s \in Subs : Live(s) => Live(s)' PROVE ItemOwned'
    BY <2>1, <2>2, ItemFrame, VideosAssumption
  <2>3. ASSUME NEW s \in Subs, Create(s) PROVE ItemOwned'
    <3>1. ~Live(s) /\ (\A r \in Subs \ {s} : sub'[r] = sub[r]) /\ item' = item
      BY <2>3 DEF Create, SubsTyped, Live
    <3> QED BY <2>2, <3>1 DEF Live
  <2>4. ASSUME NEW s \in Subs, SetEnabled(s) \/ SetAuto(s) PROVE ItemOwned'
    <3>1. sub[s] \in SubRow /\ item' = item
      BY <2>4 DEF SetEnabled, SetAuto, SubsTyped
    <3>2. \A auto : [sub[s] EXCEPT !.auto = auto].state = sub[s].state
      BY <3>1 DEF SubRow
    <3>3. \A row : UpdateSub(s, row) /\ row.state = sub[s].state => ItemOwned'
      BY <2>2, <3>1, UpdateLive
    <3>4. CASE SetEnabled(s)
      <4>1. PICK on \in BOOLEAN :
              UpdateSub(s, [sub[s] EXCEPT !.enabled = on,
                                          !.check = IF on THEN "idle" ELSE "paused",
                                          !.next = IF on THEN "past" ELSE "null"])
        BY <3>4 DEF SetEnabled
      <4> DEFINE row == [sub[s] EXCEPT !.enabled = on, !.check = IF on THEN "idle" ELSE "paused",
                                       !.next = IF on THEN "past" ELSE "null"]
      <4>2. row.state = sub[s].state
        BY <3>1 DEF SubRow
      <4> HIDE DEF row
      <4>3. UpdateSub(s, row)
        BY <4>1 DEF row
      <4> QED BY <3>3, <4>2, <4>3
    <3>5. CASE SetAuto(s)
      BY <3>2, <3>3, <3>5 DEF SetAuto
    <3> QED BY <2>4, <3>4, <3>5
  <2>5. ASSUME NEW s \in Subs, Remove(s) PROVE ItemOwned'
    <3>1. \A v \in Videos : item'[v].status = "downloading" =>
               item[v].status = "downloading" /\ SourceOf[v] # s
      BY <2>5 DEF Remove, NoItem
    <3>2. \A r \in Subs \ {s} : sub'[r] = sub[r]
      BY <2>5 DEF Remove
    <3> QED BY <2>1, <3>1, <3>2, VideosAssumption DEF ItemOwned, Taken, Live, VideosAssumption
  <2>6. ASSUME NEW c \in Clients,
               \/ \E s \in Subs : CheckRequest(c, s)
               \/ \E v \in Videos : QueueRequest(c, v) \/ RetryRequest(c, v) \/ SkipRequest(c, v)
        PROVE  ItemOwned'
    <3>1. UNCHANGED <<sub, item>>
      BY <2>6 DEF CheckRequest, QueueRequest, RetryRequest, SkipRequest, ItemKeeps
    <3> QED BY <2>2, <3>1 DEF Live
  <2> QED BY <1>6, <2>3, <2>4, <2>5, <2>6 DEF NewRequest
<1> QED BY <1>1, <1>2, <1>3, <1>4, <1>5, <1>6, ItemOwnedByCheck, ItemOwnedByWorker
        DEF Next, SchedulerStep, Checkers

\* A subscription that says "checking" is being checked and an item that says
\* "downloading" is with the worker, or was left by an exception: what the two
\* recoveries of a start restore, every later step keeps.
THEOREM StatusOwned == Spec => []StatusHasOwner
<1>1. Init => CheckOwned /\ ItemOwned
  BY DEF Init, CheckOwned, ItemOwned, NoItem, NoSub, Live
<1>2. TypeOK /\ CheckOwned /\ ItemOwned /\ [Next]_vars => (CheckOwned /\ ItemOwned)'
  BY CheckOwnedStep, ItemOwnedStep
<1>3. CheckOwned /\ ItemOwned => StatusHasOwner
  BY DEF CheckOwned, Marked, ItemOwned, Taken, StatusHasOwner, Inside
<1> QED BY <1>1, <1>2, <1>3, Typing, PTL DEF Spec

-----------------------------------------------------------------------------
(* The policy a subscription was created with.                             *)

\* Checks of a subscription under way, and what is known of its old videos.
Busy(a, s) == checker[a].sub = s /\ checker[a].pc \notin {"idle", "exited"}
OlderOf(s) == {v \in Older : SourceOf[v] = s}
OlderThan(v) == {w \in OlderOf(SourceOf[v]) : v < w}
Stored(s) == \A v \in OlderOf(s) : item[v].status # "none"

\* A check that takes the subscription for checked before, or that has stored
\* the last of the list, has the old videos behind it; at each moment it has
\* counted at least the old ones that it has stored.
Knows(a, s) ==
  LET gone == OlderOf(s) \ checker[a].todo
  IN  /\ checker[a].first => Stored(s)
      /\ checker[a].pc = "store" =>
           /\ \A v \in gone : item[v].status # "none"
           /\ Cardinality(gone) <= checker[a].index

\* An old video that was chosen has fewer than LatestN old ones before it.
ChosenWell(v) ==
  item[v].reason \in Chosen =>
    /\ sub[SourceOf[v]].policy # "from_now"
    /\ sub[SourceOf[v]].policy = "latest_n" => Cardinality(OlderThan(v)) < LatestN

\* What a check has still to store are videos of its subscription, and it has
\* counted none before it has a list.
OwnList(a) ==
  /\ checker[a].pc = "store" => \A v \in checker[a].todo : SourceOf[v] = checker[a].sub
  /\ checker[a].pc \in {"enter", "read", "mark", "discover"} => checker[a].index = 0

OldAreListed == Older \subseteq published
NothingBefore == \A s \in Subs : sub[s].state = "none" =>
                   /\ \A a \in Checkers : ~Busy(a, s)
                   /\ \A v \in Videos : SourceOf[v] = s => item[v] = NoItem
FirstIsWhole == \A s \in Subs : Live(s) /\ sub[s].first => Stored(s)
ChecksCount == \A s \in Subs, a \in Checkers : Live(s) /\ Busy(a, s) => Knows(a, s)
FewChosen == \A v \in Older : Live(SourceOf[v]) => ChosenWell(v)

ListsAreOwn == \A a \in Checkers : OwnList(a)

PolicyInv == OldAreListed /\ ListsAreOwn /\ NothingBefore /\ FirstIsWhole /\ ChecksCount /\ FewChosen

\* A set of numbers has a least one,
LEMMA LeastNatural ==
  ASSUME NEW T \in SUBSET Nat, T # {}
  PROVE  \E x \in T : \A y \in T : x <= y
<1>1. PICK x \in T : \A y \in T : ~(<<y, x>> \in OpToRel(<, Nat))
  BY NatLessThanWellFounded, WFMin
<1>2. \A y \in T : ~(y < x)
  BY <1>1 DEF OpToRel
<1> QED BY <1>2

\* and a greatest one if it is finite: the one with the fewest above it.
LEMMA GreatestNatural ==
  ASSUME NEW T \in SUBSET Nat, IsFiniteSet(T), T # {}
  PROVE  \E x \in T : \A y \in T : y <= x
<1> DEFINE Over(x) == {y \in T : x < y}
           Counts == {Cardinality(Over(x)) : x \in T}
<1>1. \A x \in T : IsFiniteSet(Over(x)) /\ Cardinality(Over(x)) \in Nat
  <2> TAKE x \in T
  <2>1. Over(x) \in SUBSET T
    OBVIOUS
  <2> QED BY <2>1, FS_Subset, FS_CardinalityType
<1>2. PICK x \in T : \A y \in T : Cardinality(Over(x)) <= Cardinality(Over(y))
  <2>1. Counts \in SUBSET Nat /\ Counts # {}
    BY <1>1
  <2>2. PICK n \in Counts : \A m \in Counts : n <= m
    BY <2>1, LeastNatural
  <2> QED BY <2>2
<1>3. ASSUME NEW y \in T, x < y PROVE FALSE
  <2>1. Over(y) \in SUBSET Over(x) /\ y \in Over(x) \ Over(y)
    <3>1. /\ x \in Nat /\ y \in Nat /\ x < y /\ \A z \in T : z \in Nat
      BY <1>3
    <3>2. \A z \in T : y < z => x < z
      BY <3>1
    <3>3. ~(y < y)
      BY <3>1
    <3> QED BY <1>3, <3>2, <3>3
  <2>2. Cardinality(Over(y)) <= Cardinality(Over(x)) /\ Cardinality(Over(x)) # Cardinality(Over(y))
    BY <1>1, <2>1, FS_Subset
  <2> QED BY <1>1, <1>2, <2>2
<1> QED BY <1>3

\* The next video of a list that is not empty is its newest.
LEMMA NewestIsListed ==
  ASSUME NEW T \in SUBSET Videos, T # {}
  PROVE  Newest(T) \in T /\ \A w \in T : w <= Newest(T)
<1>1. T \in SUBSET Nat /\ IsFiniteSet(T)
  BY VideosAssumption, FS_Subset DEF VideosAssumption
<1> QED BY <1>1, GreatestNatural DEF Newest

\* The old videos of a subscription are finitely many.
LEMMA OlderFinite ==
  ASSUME NEW s, NEW T \in SUBSET OlderOf(s)
  PROVE  IsFiniteSet(T) /\ Cardinality(T) \in Nat
<1>1. T \in SUBSET Videos
  BY VideosAssumption DEF OlderOf, VideosAssumption
<1> QED BY <1>1, VideosAssumption, FS_Subset, FS_CardinalityType DEF VideosAssumption

\* What a step does to a subscription: it is created unchecked, or keeps its
\* policy, and its first check has ended only when the old videos are stored.
SubsKeep ==
  \A s \in Subs :
    /\ sub'[s].state = "none" => sub[s].state = "none"
    /\ Live(s)' => \/ sub[s].state = "none" /\ ~sub'[s].first
                   \/ /\ Live(s) /\ sub'[s].policy = sub[s].policy
                      /\ sub'[s].first => sub[s].first \/ Stored(s)

\* To an item: it stays as long as its subscription, and is chosen well.
ItemsKeep ==
  \A v \in Videos :
    /\ Live(SourceOf[v])' => /\ item[v].status # "none" => item'[v].status # "none"
                             /\ item'[v].reason \in Chosen =>
                                  item[v].reason \in Chosen \/ v \notin Older \/ ChosenWell(v)'
    /\ sub'[SourceOf[v]].state = "none" /\ item[v] = NoItem => item'[v] = NoItem

\* To a check: it goes on as it was, or knows what it should.
ChecksKeep ==
  /\ \A a \in Checkers : OwnList(a)'
  /\ \A s \in Subs, a \in Checkers :
       Busy(a, s)' => \/ Busy(a, s) /\ checker'[a] = checker[a]
                      \/ sub[s].state # "none" /\ (Live(s)' => Knows(a, s)')

\* The three together keep the invariant.
LEMMA PolicyFrame ==
  ASSUME PolicyInv, SubsKeep, ItemsKeep, ChecksKeep, published \subseteq published'
  PROVE  PolicyInv'
<1> USE DEF PolicyInv
<1>1. \A s \in Subs : Live(s)' /\ Stored(s) => Stored(s)'
  BY VideosAssumption DEF ItemsKeep, Stored, OlderOf, VideosAssumption
<1>2. OldAreListed' /\ ListsAreOwn'
  BY DEF OldAreListed, ListsAreOwn, ChecksKeep
<1>3. NothingBefore'
  <2> SUFFICES ASSUME NEW s \in Subs, sub'[s].state = "none"
               PROVE  /\ \A a \in Checkers : ~Busy(a, s)'
                      /\ \A v \in Videos : SourceOf[v] = s => item'[v] = NoItem
    BY DEF NothingBefore
  <2>1. sub[s].state = "none"
    BY DEF SubsKeep
  <2> QED BY <2>1 DEF NothingBefore, ItemsKeep, ChecksKeep
<1>4. FirstIsWhole'
  BY <1>1 DEF FirstIsWhole, SubsKeep
<1>5. ChecksCount'
  <2> SUFFICES ASSUME NEW s \in Subs, NEW a \in Checkers, Live(s)', Busy(a, s)'
               PROVE  Knows(a, s)'
    BY DEF ChecksCount
  <2>1. CASE Busy(a, s) /\ checker'[a] = checker[a]
    <3>1. Live(s) /\ Knows(a, s)
      BY <2>1 DEF SubsKeep, NothingBefore, ChecksCount
    <3>2. \A v \in OlderOf(s) : item[v].status # "none" => item'[v].status # "none"
      BY VideosAssumption DEF ItemsKeep, OlderOf, VideosAssumption
    <3> QED BY <1>1, <2>1, <3>1, <3>2 DEF Knows
  <2> QED BY <2>1 DEF ChecksKeep
<1>6. FewChosen'
  <2> SUFFICES ASSUME NEW v \in Older, Live(SourceOf[v])', item'[v].reason \in Chosen
               PROVE  ChosenWell(v)'
    BY DEF FewChosen, ChosenWell
  <2>1. v \in Videos /\ SourceOf[v] \in Subs
    BY VideosAssumption DEF VideosAssumption
  <2>2. CASE item[v].reason \in Chosen
    <3>1. sub[SourceOf[v]].state # "none"
      BY <2>1, <2>2 DEF NothingBefore, NoItem, Chosen
    <3>2. Live(SourceOf[v]) /\ sub'[SourceOf[v]].policy = sub[SourceOf[v]].policy
      BY <2>1, <3>1 DEF SubsKeep
    <3> QED BY <2>2, <3>2 DEF FewChosen, ChosenWell
  <2> QED BY <2>1, <2>2 DEF ItemsKeep
<1> QED BY <1>2, <1>3, <1>4, <1>5, <1>6

\* An UPDATE that leaves the policy alone.
LEMMA UpdateKeepsSubs ==
  ASSUME SubsTyped, NEW s \in Subs, NEW row, UpdateSub(s, row),
         row.state = sub[s].state, row.policy = sub[s].policy,
         Live(s) /\ row.first => sub[s].first \/ Stored(s)
  PROVE  SubsKeep
<1>1. CASE Live(s)
  <2>1. sub'[s] = row /\ \A r \in Subs \ {s} : sub'[r] = sub[r]
    BY <1>1 DEF UpdateSub, SubsTyped
  <2> QED BY <1>1, <2>1 DEF SubsKeep, Live
<1>2. CASE ~Live(s)
  BY <1>2 DEF UpdateSub, SubsKeep, Live
<1> QED BY <1>1, <1>2

\* Every step treats the subscriptions so.
LEMMA SubsKeepStep ==
  ASSUME TypeOK, PolicyInv, [Next]_vars
  PROVE  SubsKeep
<1> USE DEF TypeOK
<1>1. CASE sub' = sub
  BY <1>1 DEF SubsKeep, Live
<1>2. ASSUME \A s \in Subs : /\ sub'[s].state = sub[s].state
                             /\ sub'[s].policy = sub[s].policy
                             /\ sub'[s].first = sub[s].first
      PROVE  SubsKeep
  BY <1>2 DEF SubsKeep, Live
<1>3. CASE RecoverChecks
  <2>1. \A s \in Subs : sub'[s] = sub[s] \/ sub'[s] = [sub[s] EXCEPT !.check = "due", !.next = "past"]
    BY <1>3 DEF RecoverChecks
  <2>2. \A s \in Subs : sub[s] \in SubRow
    BY DEF SubsTyped
  <2> QED BY <1>2, <2>1, <2>2 DEF SubRow
<1>4. CASE TimePasses
  BY <1>1, <1>2, <1>4 DEF TimePasses, CheckTimeComes, AttemptTimeComes, SubsTyped, SubRow
<1>5. ASSUME NEW a \in Checkers, CheckStep(a) PROVE SubsKeep
  <2> DEFINE s == checker[a].sub
  <2>1. CASE CheckEnter(a) \/ CheckRead(a) \/ Discover(a) \/ StoreItem(a) \/ CheckLeave(a)
    BY <1>1, <2>1 DEF CheckEnter, CheckRead, Discover, StoreItem, CheckLeave
  <2>2. CASE CheckMark(a)
    <3>1. s \in Subs /\ sub[s] \in SubRow
      BY <2>2, CheckedTyped DEF CheckMark
    <3> DEFINE row == [sub[s] EXCEPT !.check = "checking"]
    <3>2. row.state = sub[s].state /\ row.policy = sub[s].policy /\ row.first = sub[s].first
      BY <3>1 DEF SubRow
    <3>3. UpdateSub(s, row)
      BY <2>2 DEF CheckMark
    <3> HIDE DEF row, s
    <3> QED BY <3>1, <3>2, <3>3, UpdateKeepsSubs
  <2>3. CASE CheckSucceeds(a)
    <3>1. s \in Subs /\ sub[s] \in SubRow /\ Busy(a, s)
      BY <2>3, CheckedTyped DEF CheckSucceeds, Busy
    <3> DEFINE row == [sub[s] EXCEPT !.first = TRUE,
                         !.check = IF checker[a].enabled THEN "idle" ELSE "paused",
                         !.next = IF checker[a].enabled THEN "future" ELSE "null"]
    <3>2. row.state = sub[s].state /\ row.policy = sub[s].policy
      BY <3>1 DEF SubRow
    <3>3. UpdateSub(s, row)
      BY <2>3 DEF CheckSucceeds
    <3>4. Live(s) => Stored(s)
      BY <2>3, <3>1 DEF CheckSucceeds, PolicyInv, ChecksCount, Knows, Stored
    <3> HIDE DEF row, s
    <3> QED BY <3>1, <3>2, <3>3, <3>4, UpdateKeepsSubs
  <2>4. CASE CheckFails(a)
    <3>1. s \in Subs /\ sub[s] \in SubRow
      BY <2>4, CheckedTyped DEF CheckFails
    <3> DEFINE row == [sub[s] EXCEPT
                         !.check = IF checker[a].enabled THEN "backoff" ELSE "paused",
                         !.next = IF checker[a].enabled THEN "future" ELSE "null"]
    <3>2. row.state = sub[s].state /\ row.policy = sub[s].policy /\ row.first = sub[s].first
      BY <3>1 DEF SubRow
    <3>3. UpdateSub(s, row)
      BY <2>4 DEF CheckFails
    <3> HIDE DEF row, s
    <3> QED BY <3>1, <3>2, <3>3, UpdateKeepsSubs
  <2> QED BY <1>5, <2>1, <2>2, <2>3, <2>4 DEF CheckStep
<1>6. CASE NewRequest
  <2>1. ASSUME NEW s \in Subs, Create(s) PROVE SubsKeep
    <3>1. PICK on \in BOOLEAN, auto \in BOOLEAN, policy \in InitialPolicies :
            sub' = [sub EXCEPT ![s] = [state |-> "live", policy |-> policy, enabled |-> on,
                        auto |-> auto, check |-> IF on THEN "idle" ELSE "paused",
                        first |-> FALSE, next |-> IF on THEN "past" ELSE "null"]]
      BY <2>1 DEF Create
    <3>2. /\ sub[s].state = "none" /\ sub'[s].state = "live" /\ ~sub'[s].first
          /\ \A r \in Subs \ {s} : sub'[r] = sub[r]
      BY <2>1, <3>1 DEF Create, SubsTyped
    <3> QED BY <3>2 DEF SubsKeep, Live
  <2>2. ASSUME NEW s \in Subs, SetEnabled(s) PROVE SubsKeep
    <3>1. sub[s] \in SubRow
      BY DEF SubsTyped
    <3>2. PICK on \in BOOLEAN :
            UpdateSub(s, [sub[s] EXCEPT !.enabled = on, !.check = IF on THEN "idle" ELSE "paused",
                                        !.next = IF on THEN "past" ELSE "null"])
      BY <2>2 DEF SetEnabled
    <3> DEFINE row == [sub[s] EXCEPT !.enabled = on, !.check = IF on THEN "idle" ELSE "paused",
                                     !.next = IF on THEN "past" ELSE "null"]
    <3>3. row.state = sub[s].state /\ row.policy = sub[s].policy /\ row.first = sub[s].first
      BY <3>1 DEF SubRow
    <3>4. UpdateSub(s, row)
      BY <3>2
    <3> HIDE DEF row
    <3> QED BY <3>3, <3>4, UpdateKeepsSubs
  <2>3. ASSUME NEW s \in Subs, SetAuto(s) PROVE SubsKeep
    BY <1>2, <2>3 DEF SetAuto, UpdateSub, SubsTyped, SubRow
  <2>4. ASSUME NEW s \in Subs, Remove(s) PROVE SubsKeep
    <3>1. sub'[s].state = "gone" /\ \A r \in Subs \ {s} : sub'[r] = sub[r]
      BY <2>4 DEF Remove, SubsTyped, NoSub
    <3> QED BY <3>1 DEF SubsKeep, Live
  <2> QED BY <1>1, <1>6, <2>1, <2>2, <2>3, <2>4 DEF NewRequest, CheckRequest, QueueRequest,
         RetryRequest, SkipRequest, ItemKeeps
<1>7. CASE \/ RecoverDownloads \/ RequestStop \/ Crash \/ UNCHANGED vars
           \/ \E v \in Videos : Publish(v)
           \/ (\E s \in Subs : SchedulerPicks(s)) \/ SchedulerExits
           \/ \E c \in Clients : RequestStep(c)
  BY <1>1, <1>7 DEF RecoverDownloads, RequestStop, Crash, vars, Publish, SchedulerPicks,
     SchedulerExits, RequestStep, RetryReads, WriteQueued, WriteSkipped, ItemKeeps
<1>8. CASE WorkerStep
  BY <1>1, <1>8 DEF WorkerStep, WorkerPicks, WorkerExits, WorkerBegins, WorkerPrepares,
     WorkerCannotPrepare, DownloadEnds, WorkerDone, WorkerFails, WorkerKeeps
<1> QED BY <1>3, <1>4, <1>5, <1>6, <1>7, <1>8 DEF Next, SchedulerStep, Checkers

\* An UPDATE of an item that stays chosen, or not chosen.
LEMMA UpdateKeepsItems ==
  ASSUME ItemsTyped, NEW v \in Videos, NEW row, UpdateItem(v, row), row.status # "none",
         row.reason \in Chosen => item[v].reason \in Chosen
  PROVE  ItemsKeep
<1>1. CASE Live(SourceOf[v]) /\ item[v].status # "none"
  <2>1. item'[v] = row /\ \A w \in Videos \ {v} : item'[w] = item[w]
    BY <1>1 DEF UpdateItem, ItemsTyped
  <2>2. item[v] # NoItem
    BY <1>1 DEF NoItem
  <2> QED BY <2>1, <2>2 DEF ItemsKeep
<1>2. CASE ~(Live(SourceOf[v]) /\ item[v].status # "none")
  BY <1>2 DEF UpdateItem, ItemsKeep
<1> QED BY <1>1, <1>2

\* The upsert of a video that was not there yet follows the policy: at this
\* index, at least the old videos that are newer have been stored before.
LEMMA StoreChoosesWell ==
  ASSUME TypeOK, PolicyInv, NEW a \in Checkers, StoreItem(a), Live(checker[a].sub),
         NEW v \in Older, v = Newest(checker[a].todo), item[v].status = "none"
  PROVE  ChosenWell(v)'
<1> USE DEF TypeOK
<1> DEFINE s == checker[a].sub
           policy == ItemPolicy(s, checker[a].first, v, checker[a].index)
           gone == OlderOf(s) \ checker[a].todo
<1>1. /\ s \in Subs /\ sub[s] \in SubRow /\ checker[a] \in CheckRow
      /\ checker[a].pc = "store" /\ checker[a].todo # {} /\ sub' = sub
  BY CheckedTyped DEF StoreItem, ChecksTyped
<1>2. Knows(a, s)
  BY <1>1 DEF PolicyInv, ChecksCount, Busy
<1>3. v \in checker[a].todo /\ \A w \in checker[a].todo : w <= v
  BY <1>1, NewestIsListed DEF CheckRow
<1>4. SourceOf[v] = s /\ v \in OlderOf(s) /\ v \in Videos /\ v \in Nat
  BY <1>1, <1>3, VideosAssumption
     DEF PolicyInv, ListsAreOwn, OwnList, OlderOf, CheckRow, VideosAssumption
<1>5. ~checker[a].first
  BY <1>2, <1>4 DEF Knows, Stored
<1>6. item'[v].reason = policy[2]
  <2>1. item' = [item EXCEPT ![v] = IF item[v].status = "none"
                                    THEN [status |-> policy[1], reason |-> policy[2],
                                          attempts |-> 0, next |-> "null"]
                                    ELSE item[v]]
    BY DEF StoreItem
  <2> HIDE DEF policy
  <2> QED BY <1>4, <2>1 DEF ItemsTyped
<1>7. CASE sub[s].policy = "full_backfill"
  BY <1>1, <1>4, <1>7 DEF ChosenWell
<1>8. CASE sub[s].policy = "latest_n"
  <2>1. \/ checker[a].index < LatestN
        \/ policy[2] = "outside_latest_n"
    BY <1>5, <1>8 DEF ItemPolicy
  <2>2. ASSUME checker[a].index < LatestN PROVE Cardinality(OlderThan(v)) < LatestN
    <3>1. \A w \in Older : w \in Nat
      BY VideosAssumption DEF VideosAssumption
    <3>2. \A w \in OlderThan(v) : w \in OlderOf(s) /\ w \notin checker[a].todo
      <4> SUFFICES ASSUME NEW w \in OlderThan(v)
                   PROVE  w \in OlderOf(s) /\ w \notin checker[a].todo
        OBVIOUS
      <4>1. w \in OlderOf(s) /\ w \in Older /\ v < w
        BY <1>4 DEF OlderThan, OlderOf
      <4>2. v \in Nat /\ w \in Nat
        BY <3>1, <4>1
      <4>3. ~(w <= v)
        BY ONLY <4>2, <4>1, SMT
      <4> QED BY <1>3, <4>1, <4>3
    <3>3. OlderThan(v) \in SUBSET gone /\ IsFiniteSet(gone) /\ Cardinality(gone) \in Nat
      BY <3>2, OlderFinite
    <3>4. Cardinality(OlderThan(v)) \in Nat /\ Cardinality(OlderThan(v)) <= Cardinality(gone)
      BY <3>3, FS_Subset, FS_CardinalityType
    <3>5. Cardinality(gone) <= checker[a].index /\ checker[a].index \in Nat
      BY <1>1, <1>2 DEF Knows, CheckRow
    <3> QED BY <2>2, <3>3, <3>4, <3>5, LimitsAssumption DEF LimitsAssumption
  <2>3. policy[2] = "outside_latest_n" => policy[2] \notin Chosen
    BY DEF Chosen
  <2> HIDE DEF policy
  <2> QED BY <1>1, <1>4, <1>6, <1>8, <2>1, <2>2, <2>3 DEF ChosenWell, OlderThan
<1>9. CASE sub[s].policy = "from_now"
  <2>1. v \notin Recent
    BY VideosAssumption DEF VideosAssumption
  <2>2. policy[2] = "older_than_cutoff"
    BY <1>5, <1>9, <2>1 DEF ItemPolicy
  <2> QED BY <1>6, <2>2 DEF ChosenWell, Chosen
<1> QED BY <1>1, <1>7, <1>8, <1>9 DEF SubRow, Policies

\* Every step treats the items so.
LEMMA ItemsKeepStep ==
  ASSUME TypeOK, PolicyInv, [Next]_vars
  PROVE  ItemsKeep
<1> USE DEF TypeOK
<1>1. CASE item' = item
  BY <1>1 DEF ItemsKeep
<1>2. CASE RecoverDownloads
  <2>1. \A v \in Videos : \/ item'[v] = item[v]
                          \/ /\ item[v].status = "downloading"
                             /\ item'[v] = [item[v] EXCEPT !.status = "queued", !.next = "past"]
    BY <1>2 DEF RecoverDownloads
  <2>2. \A v \in Videos : item[v] \in ItemRow
    BY DEF ItemsTyped
  <2>3. \A v \in Videos : \/ item'[v] = item[v]
                          \/ /\ item[v] # NoItem
                             /\ item'[v].status # "none" /\ item'[v].reason = item[v].reason
    <3> SUFFICES ASSUME NEW v \in Videos, item[v].status = "downloading",
                        item'[v] = [item[v] EXCEPT !.status = "queued", !.next = "past"]
                 PROVE  /\ item[v] # NoItem
                        /\ item'[v].status # "none" /\ item'[v].reason = item[v].reason
      BY <2>1
    <3> QED BY <2>2 DEF ItemRow, NoItem
  <2> QED BY <2>3 DEF ItemsKeep
<1>3. CASE TimePasses
  <2>1. ASSUME NEW v \in Videos, AttemptTimeComes(v) PROVE ItemsKeep
    <3>1. /\ item[v].next = "future" /\ item[v] \in ItemRow
          /\ item'[v] = [item[v] EXCEPT !.next = "past"]
          /\ \A w \in Videos \ {v} : item'[w] = item[w]
      BY <2>1 DEF AttemptTimeComes, ItemsTyped
    <3>2. item[v] # NoItem /\ item'[v].status = item[v].status /\ item'[v].reason = item[v].reason
      BY <3>1 DEF ItemRow, NoItem
    <3> QED BY <3>1, <3>2 DEF ItemsKeep
  <2> QED BY <1>1, <1>3, <2>1 DEF TimePasses, CheckTimeComes
<1>4. ASSUME NEW a \in Checkers, CheckStep(a) PROVE ItemsKeep
  <2>1. CASE StoreItem(a)
    <3>0. PICK v : v = Newest(checker[a].todo)
      OBVIOUS
    <3> DEFINE policy == ItemPolicy(checker[a].sub, checker[a].first, v, checker[a].index)
               row == [status |-> policy[1], reason |-> policy[2],
                       attempts |-> 0, next |-> "null"]
    <3>1. /\ checker[a].sub \in Subs /\ checker[a] \in CheckRow
          /\ checker[a].pc = "store" /\ checker[a].todo # {} /\ sub' = sub
          /\ item' = [item EXCEPT ![v] = IF item[v].status = "none" THEN row ELSE item[v]]
      BY <2>1, <3>0, CheckedTyped DEF StoreItem, ChecksTyped
    <3>2. v \in checker[a].todo /\ v \in Videos
      BY <3>0, <3>1, NewestIsListed DEF CheckRow
    <3>3. policy[1] # "none"
      BY <2>1, CheckedTyped, ItemPolicyTyped DEF StoreItem, ChecksTyped, CheckRow
    <3>4. row.status # "none"
      BY <3>3
    <3>5. Busy(a, checker[a].sub)
      BY <3>1 DEF Busy
    <3>6. sub[checker[a].sub].state # "none"
      BY <3>1, <3>5 DEF PolicyInv, NothingBefore
    <3>7. SourceOf[v] = checker[a].sub
      BY <3>1, <3>2 DEF PolicyInv, ListsAreOwn, OwnList
    <3>8. Live(checker[a].sub) /\ v \in Older /\ item[v].status = "none" => ChosenWell(v)'
      BY <2>1, <3>0, StoreChoosesWell
    <3>9. \A w \in Videos \ {v} : item'[w] = item[w]
      BY <3>1 DEF ItemsTyped
    <3>10. item'[v] = IF item[v].status = "none" THEN row ELSE item[v]
      BY <3>1, <3>2 DEF ItemsTyped
    <3> HIDE DEF row
    <3>11. /\ item'[v].status # "none"
           /\ item[v].status # "none" => item'[v].reason = item[v].reason
      BY <3>4, <3>10
    <3> QED BY <3>1, <3>6, <3>7, <3>8, <3>9, <3>11 DEF ItemsKeep, Live
  <2>2. ASSUME item' = item PROVE ItemsKeep
    BY <1>1, <2>2
  <2> QED BY <1>4, <2>1, <2>2 DEF CheckStep, CheckEnter, CheckRead, CheckMark, Discover,
         CheckSucceeds, CheckFails, CheckLeave
<1>5. CASE WorkerStep
  <2> DEFINE v == worker.video
  <2>1. CASE WorkerBegins
    <3>1. v \in Videos /\ item[v] \in ItemRow
      BY <2>1 DEF WorkerBegins, WorkerTyped, ItemsTyped
    <3> DEFINE row == [item[v] EXCEPT !.status = "downloading",
                                      !.attempts = worker.attempts + 1, !.next = "null"]
    <3>2. row.status # "none" /\ row.reason = item[v].reason
      BY <3>1 DEF ItemRow
    <3>3. UpdateItem(v, row)
      BY <2>1 DEF WorkerBegins
    <3> HIDE DEF row, v
    <3> QED BY <3>1, <3>2, <3>3, UpdateKeepsItems
  <2>2. CASE WorkerDone
    <3>1. v \in Videos /\ item[v] \in ItemRow
      BY <2>2 DEF WorkerDone, WorkerTyped, ItemsTyped
    <3> DEFINE row == [item[v] EXCEPT !.status = "done", !.next = "null"]
    <3>2. row.status # "none" /\ row.reason = item[v].reason
      BY <3>1 DEF ItemRow
    <3>3. UpdateItem(v, row)
      BY <2>2 DEF WorkerDone
    <3> HIDE DEF row, v
    <3> QED BY <3>1, <3>2, <3>3, UpdateKeepsItems
  <2>3. CASE WorkerFails
    <3>1. v \in Videos /\ item[v] \in ItemRow
      BY <2>3 DEF WorkerFails, WorkerTyped, ItemsTyped
    <3> DEFINE row == IF worker.attempts + 1 < MaxAttempts
                      THEN [item[v] EXCEPT !.status = "queued", !.next = "future"]
                      ELSE [item[v] EXCEPT !.status = "failed", !.next = "null"]
    <3>2. row.status # "none" /\ row.reason = item[v].reason
      BY <3>1 DEF ItemRow
    <3>3. UpdateItem(v, row)
      BY <2>3 DEF WorkerFails
    <3> HIDE DEF row, v
    <3> QED BY <3>1, <3>2, <3>3, UpdateKeepsItems
  <2> QED BY <1>1, <1>5, <2>1, <2>2, <2>3 DEF WorkerStep, WorkerPicks, WorkerExits,
         WorkerPrepares, WorkerCannotPrepare, DownloadEnds
<1>6. CASE NewRequest
  <2>1. ASSUME NEW s \in Subs, Remove(s) PROVE ItemsKeep
    <3>1. sub'[s].state = "gone"
      BY <2>1 DEF Remove, SubsTyped, NoSub
    <3>2. \A v \in Videos : item'[v] = IF SourceOf[v] = s THEN NoItem ELSE item[v]
      BY <2>1 DEF Remove
    <3> QED BY <3>1, <3>2 DEF ItemsKeep, Live
  <2> QED BY <1>1, <1>6, <2>1 DEF NewRequest, Create, SetEnabled, SetAuto, CheckRequest,
         QueueRequest, RetryRequest, SkipRequest
<1>7. ASSUME NEW c \in Clients, RequestStep(c) PROVE ItemsKeep
  <2> DEFINE v == request[c].video
  <2>1. CASE WriteQueued(c)
    <3>1. v \in Videos /\ item[v] \in ItemRow
      BY <2>1 DEF WriteQueued, RequestsTyped, ItemsTyped
    <3> DEFINE row == [item[v] EXCEPT !.status = "queued", !.next = "past",
                                      !.attempts = IF request[c].reset THEN 0 ELSE @]
    <3>2. row.status # "none" /\ row.reason = item[v].reason
      BY <3>1 DEF ItemRow
    <3>3. UpdateItem(v, row)
      BY <2>1 DEF WriteQueued
    <3> HIDE DEF row, v
    <3> QED BY <3>1, <3>2, <3>3, UpdateKeepsItems
  <2>2. CASE WriteSkipped(c)
    <3>1. v \in Videos /\ item[v] \in ItemRow
      BY <2>2 DEF WriteSkipped, RequestsTyped, ItemsTyped
    <3> DEFINE row == [item[v] EXCEPT !.status = "skipped", !.reason = "manual", !.next = "null"]
    <3>2. row.status # "none" /\ row.reason \notin Chosen
      BY <3>1 DEF ItemRow, Chosen
    <3>3. UpdateItem(v, row)
      BY <2>2 DEF WriteSkipped
    <3> HIDE DEF row, v
    <3> QED BY <3>1, <3>2, <3>3, UpdateKeepsItems
  <2> QED BY <1>1, <1>7, <2>1, <2>2 DEF RequestStep, RetryReads
<1>8. CASE \/ RecoverChecks \/ RequestStop \/ Crash \/ UNCHANGED vars
           \/ \E v \in Videos : Publish(v)
           \/ (\E s \in Subs : SchedulerPicks(s)) \/ SchedulerExits
  BY <1>1, <1>8 DEF RecoverChecks, RequestStop, Crash, vars, Publish, SchedulerPicks,
     SchedulerExits
<1> QED BY <1>2, <1>3, <1>4, <1>5, <1>6, <1>7, <1>8 DEF Next, SchedulerStep, Checkers

\* Where a check has no list: nothing but its memory of a first check counts.
LEMMA QuietChecks ==
  ASSUME PolicyInv, NEW a \in Checkers,
         \A b \in Checkers \ {a} : checker'[b] = checker[b],
         checker'[a].pc # "store",
         checker'[a].pc \in {"enter", "read", "mark", "discover"} => checker'[a].index = 0,
         \A s \in Subs : Busy(a, s)' => /\ sub[s].state # "none"
                                        /\ Live(s)' /\ checker'[a].first => Stored(s)'
  PROVE  ChecksKeep
<1>1. \A b \in Checkers : OwnList(b)'
  BY DEF OwnList, PolicyInv, ListsAreOwn
<1>2. \A s \in Subs : Busy(a, s)' /\ Live(s)' => Knows(a, s)'
  BY DEF Knows
<1>3. \A s \in Subs, b \in Checkers \ {a} : Busy(b, s)' => Busy(b, s)
  BY DEF Busy
<1> QED BY <1>1, <1>2, <1>3 DEF ChecksKeep

\* A check that goes on to a step in which it stores nothing.
LEMMA NextQuiet ==
  ASSUME ChecksTyped, PolicyInv, SubsKeep, ItemsKeep, NEW a \in Checkers,
         \A b \in Checkers \ {a} : checker'[b] = checker[b],
         checker[a].pc \notin {"idle", "exited"}, checker'[a].pc # "store",
         checker'[a].sub = checker[a].sub, checker'[a].index = checker[a].index,
         checker'[a].pc \in {"enter", "read", "mark", "discover"} =>
           checker[a].pc \in {"enter", "read", "mark", "discover"},
         checker'[a].first => \/ checker[a].first
                              \/ Live(checker[a].sub) /\ sub[checker[a].sub].first
  PROVE  ChecksKeep
<1>0. PICK s : s = checker[a].sub
  OBVIOUS
<1>1. s \in Subs /\ Busy(a, s)
  BY <1>0 DEF ChecksTyped, Busy
<1>2. sub[s].state # "none"
  BY <1>1 DEF PolicyInv, NothingBefore
<1>3. \A r \in Subs : Busy(a, r)' => r = s
  BY <1>0 DEF Busy
<1>4. ASSUME checker'[a].first, Live(s)' PROVE Stored(s)'
  <2>1. Live(s)
    BY <1>1, <1>2, <1>4 DEF SubsKeep
  <2>2. Stored(s)
    BY <1>0, <1>1, <1>4, <2>1 DEF PolicyInv, ChecksCount, Knows, FirstIsWhole
  <2> QED BY <1>4, <2>2, VideosAssumption DEF ItemsKeep, Stored, OlderOf, VideosAssumption
<1>5. checker'[a].pc \in {"enter", "read", "mark", "discover"} => checker'[a].index = 0
  BY DEF PolicyInv, ListsAreOwn, OwnList
<1> QED BY <1>1, <1>2, <1>3, <1>4, <1>5, QuietChecks

\* The list of a check begins with every old video still in it.
LEMMA DiscoverKnows ==
  ASSUME TypeOK, PolicyInv, NEW a \in Checkers, Discover(a), SubsKeep, ItemsKeep
  PROVE  ChecksKeep
<1> USE DEF TypeOK
<1>0. PICK s : s = checker[a].sub
  OBVIOUS
<1> DEFINE listed == {v \in published : SourceOf[v] = s}
<1>1. /\ s \in Subs /\ checker[a] \in CheckRow /\ checker[a].pc = "discover"
      /\ \A b \in Checkers \ {a} : checker'[b] = checker[b]
      /\ UNCHANGED <<sub, item>>
  BY <1>0, CheckedTyped DEF Discover, At, ChecksTyped
<1>2. CASE At(a, "fail")
  <2>1. checker'[a] = [checker[a] EXCEPT !.pc = "fail"]
    BY <1>2 DEF At, ChecksTyped
  <2>2. /\ checker'[a].pc = "fail" /\ checker'[a].sub = s
        /\ checker'[a].index = checker[a].index /\ checker'[a].first = checker[a].first
    BY <1>0, <1>1, <2>1 DEF CheckRow
  <2>3. checker'[a].first => checker[a].first
    BY <2>2
  <2>4. /\ checker'[a].sub = checker[a].sub /\ checker'[a].index = checker[a].index
        /\ checker'[a].pc # "store"
        /\ checker[a].pc \notin {"idle", "exited"}
        /\ checker'[a].pc \notin {"enter", "read", "mark", "discover"}
    BY <1>0, <1>1, <2>2
  <2> QED BY <1>1, <2>3, <2>4, NextQuiet
<1>3. CASE checker' = [checker EXCEPT ![a] = [checker[a] EXCEPT !.pc = "store", !.todo = listed]]
  <2>1. /\ checker'[a].pc = "store" /\ checker'[a].sub = s /\ checker'[a].todo = listed
        /\ checker'[a].index = checker[a].index /\ checker'[a].first = checker[a].first
    BY <1>0, <1>1, <1>3 DEF ChecksTyped, CheckRow
  <2>2. checker[a].index = 0
    BY <1>1 DEF PolicyInv, ListsAreOwn, OwnList
  <2>3. OlderOf(s) \ listed = {}
    BY DEF PolicyInv, OldAreListed, OlderOf
  <2>4. Cardinality(OlderOf(s) \ listed) <= checker'[a].index
    BY <2>1, <2>2, <2>3, FS_EmptySet
  <2>5. Busy(a, s)
    BY <1>0, <1>1 DEF Busy
  <2>6. sub[s].state # "none"
    BY <1>1, <2>5 DEF PolicyInv, NothingBefore
  <2>7. Live(s) => (checker[a].first => Stored(s))
    BY <1>1, <2>5 DEF PolicyInv, ChecksCount, Knows
  <2>8. Live(s)' => Knows(a, s)'
    BY <1>1, <2>1, <2>3, <2>4, <2>7 DEF Knows, Stored, Live
  <2>9. OwnList(a)'
    BY <2>1 DEF OwnList
  <2>10. \A b \in Checkers \ {a} : OwnList(b)'
    BY <1>1 DEF OwnList, PolicyInv, ListsAreOwn
  <2>11. \A r \in Subs : Busy(a, r)' => r = s
    BY <2>1 DEF Busy
  <2>12. \A r \in Subs, b \in Checkers \ {a} : Busy(b, r)' => Busy(b, r)
    BY <1>1 DEF Busy
  <2> QED BY <1>1, <2>6, <2>8, <2>9, <2>10, <2>11, <2>12 DEF ChecksKeep
<1> QED BY <1>0, <1>2, <1>3 DEF Discover

\* Each upsert takes one video from the list, counts it, and stores it.
LEMMA StoreKnows ==
  ASSUME TypeOK, PolicyInv, NEW a \in Checkers, StoreItem(a), SubsKeep, ItemsKeep
  PROVE  ChecksKeep
<1> USE DEF TypeOK
<1>0. PICK s : s = checker[a].sub
  OBVIOUS
<1>1. PICK v : v = Newest(checker[a].todo)
  OBVIOUS
<1> DEFINE policy == ItemPolicy(s, checker[a].first, v, checker[a].index)
           row == [status |-> policy[1], reason |-> policy[2], attempts |-> 0, next |-> "null"]
<1>2. /\ s \in Subs /\ checker[a] \in CheckRow /\ checker[a].pc = "store"
      /\ checker[a].todo # {} /\ sub' = sub
      /\ item' = [item EXCEPT ![v] = IF item[v].status = "none" THEN row ELSE item[v]]
      /\ checker' = [checker EXCEPT ![a] = [checker[a] EXCEPT
                       !.todo = checker[a].todo \ {v}, !.index = checker[a].index + 1]]
  BY <1>0, <1>1, CheckedTyped DEF StoreItem, ChecksTyped
<1>3. v \in checker[a].todo /\ v \in Videos
  BY <1>1, <1>2, NewestIsListed DEF CheckRow
<1>4. /\ checker'[a].pc = "store" /\ checker'[a].sub = s /\ checker'[a].first = checker[a].first
      /\ checker'[a].todo = checker[a].todo \ {v} /\ checker'[a].index = checker[a].index + 1
      /\ \A b \in Checkers \ {a} : checker'[b] = checker[b]
  BY <1>0, <1>2 DEF ChecksTyped, CheckRow
<1>5. Busy(a, s)
  BY <1>0, <1>2 DEF Busy
<1>6. sub[s].state # "none"
  BY <1>2, <1>5 DEF PolicyInv, NothingBefore
<1>7. item'[v].status # "none"
  <2>1. policy[1] # "none"
    BY <1>0, <1>1, CheckedTyped, ItemPolicyTyped DEF StoreItem, ChecksTyped, CheckRow
  <2>2. row.status # "none"
    BY <2>1
  <2> HIDE DEF row
  <2> QED BY <1>2, <1>3, <2>2 DEF ItemsTyped
<1>8. ASSUME Live(s)' PROVE Knows(a, s)'
  <2> DEFINE gone == OlderOf(s) \ checker[a].todo
             gone2 == OlderOf(s) \ checker'[a].todo
  <2>1. Live(s) /\ Knows(a, s)
    BY <1>2, <1>5, <1>8 DEF PolicyInv, ChecksCount, Live
  <2>2. \A w \in OlderOf(s) : item[w].status # "none" => item'[w].status # "none"
    <3>1. \A w \in OlderOf(s) : w \in Videos /\ SourceOf[w] = s
      BY VideosAssumption DEF OlderOf, VideosAssumption
    <3> QED BY <1>8, <3>1 DEF ItemsKeep
  <2>3. gone2 \in SUBSET (gone \cup {v})
    BY <1>4
  <2>4. \A w \in gone2 : item'[w].status # "none"
    BY <1>7, <2>1, <2>2, <2>3, <1>2 DEF Knows
  <2>5. Cardinality(gone2) <= checker'[a].index
    <3>1. IsFiniteSet(gone) /\ Cardinality(gone) \in Nat /\ Cardinality(gone2) \in Nat
      BY OlderFinite
    <3>2. IsFiniteSet(gone \cup {v}) /\ Cardinality(gone \cup {v}) <= Cardinality(gone) + 1
      <4> HIDE DEF gone
      <4> QED BY <3>1, FS_AddElement, SMTT(60)
    <3>3. Cardinality(gone2) <= Cardinality(gone \cup {v}) /\ Cardinality(gone \cup {v}) \in Nat
      BY <2>3, <3>2, FS_Subset, FS_CardinalityType
    <3>4. Cardinality(gone) <= checker[a].index /\ checker[a].index \in Nat
      BY <1>2, <2>1 DEF Knows, CheckRow
    <3> HIDE DEF gone, gone2
    <3> QED BY <1>4, <3>1, <3>2, <3>3, <3>4
  <2>6. checker'[a].first => Stored(s)'
    BY <1>4, <2>1, <2>2 DEF Knows, Stored
  <2> QED BY <1>4, <2>4, <2>5, <2>6 DEF Knows
<1>9. OwnList(a)'
  BY <1>0, <1>2, <1>4 DEF OwnList, PolicyInv, ListsAreOwn
<1>10. \A b \in Checkers \ {a} : OwnList(b)'
  BY <1>4 DEF OwnList, PolicyInv, ListsAreOwn
<1>11. \A r \in Subs : Busy(a, r)' => r = s
  BY <1>4 DEF Busy
<1>12. \A r \in Subs, b \in Checkers \ {a} : Busy(b, r)' => Busy(b, r)
  BY <1>4 DEF Busy
<1> QED BY <1>4, <1>6, <1>8, <1>9, <1>10, <1>11, <1>12 DEF ChecksKeep

\* Every step treats the checks so.
LEMMA ChecksKeepStep ==
  ASSUME TypeOK, PolicyInv, SubsKeep, ItemsKeep, [Next]_vars
  PROVE  ChecksKeep
<1> USE DEF TypeOK
<1>1. CASE checker' = checker
  BY <1>1 DEF ChecksKeep, Busy, OwnList, PolicyInv, ListsAreOwn
<1>2. CASE Crash
  <2>1. \A a \in Checkers : checker'[a] = Nobody
    BY <1>2 DEF Crash
  <2> QED BY <2>1 DEF ChecksKeep, Busy, OwnList, Nobody
<1>3. ASSUME NEW a \in Checkers, CheckStep(a) PROVE ChecksKeep
  <2> DEFINE s == checker[a].sub
  <2>1. /\ s \in Subs /\ checker[a] \in CheckRow
        /\ \A b \in Checkers \ {a} : checker'[b] = checker[b]
    BY <1>3, CheckedTyped DEF CheckStep, CheckEnter, CheckRead, CheckMark, Discover,
       StoreItem, CheckSucceeds, CheckFails, CheckLeave, At, ChecksTyped
  <2>2. ASSUME checker'[a] = Nobody PROVE ChecksKeep
    BY <2>1, <2>2, QuietChecks DEF Nobody, Busy
  <2>3. ASSUME NEW pc \in {"read", "discover", "leave"}, At(a, pc),
               checker[a].pc \notin {"idle", "exited"},
               pc # "leave" => checker[a].pc \in {"enter", "read", "mark", "discover"}
        PROVE  ChecksKeep
    <3>1. checker'[a] = [checker[a] EXCEPT !.pc = pc]
      BY <2>3 DEF At, ChecksTyped
    <3>2. /\ checker'[a].pc = pc /\ checker'[a].sub = checker[a].sub
          /\ checker'[a].index = checker[a].index /\ checker'[a].first = checker[a].first
      BY <2>1, <3>1 DEF CheckRow
    <3>3. pc # "store" /\ (pc \in {"enter", "read", "mark", "discover"} => pc # "leave")
      OBVIOUS
    <3>4. checker'[a].first => checker[a].first
      BY <3>2
    <3>5. /\ checker'[a].pc # "store"
          /\ checker'[a].pc \in {"enter", "read", "mark", "discover"} =>
               checker[a].pc \in {"enter", "read", "mark", "discover"}
      BY <2>3, <3>2, <3>3
    <3> HIDE DEF s
    <3> QED BY <2>1, <2>3, <3>2, <3>4, <3>5, NextQuiet
  <2>4. CASE CheckEnter(a)
    BY <2>2, <2>3, <2>4 DEF CheckEnter, ChecksTyped
  <2>5. CASE CheckRead(a)
    <3>1. CASE At(a, "leave")
      BY <2>3, <2>5, <3>1 DEF CheckRead
    <3>2. CASE /\ sub[s].state = "live"
               /\ checker' = [checker EXCEPT ![a] = [checker[a] EXCEPT
                    !.pc = "mark", !.first = sub[s].first, !.enabled = sub[s].enabled]]
      <4>1. /\ checker'[a].pc = "mark" /\ checker'[a].sub = s
            /\ checker'[a].index = checker[a].index /\ checker'[a].first = sub[s].first
        BY <2>1, <3>2 DEF CheckRow, ChecksTyped
      <4> QED BY <2>1, <2>5, <3>2, <4>1, NextQuiet DEF CheckRead, Live
    <3> QED BY <2>5, <3>1, <3>2 DEF CheckRead
  <2>6. CASE CheckMark(a) \/ CheckSucceeds(a) \/ CheckFails(a)
    BY <2>3, <2>6 DEF CheckMark, CheckSucceeds, CheckFails
  <2>7. CASE CheckLeave(a)
    BY <2>2, <2>7 DEF CheckLeave, ChecksTyped
  <2> QED BY <1>3, <2>4, <2>5, <2>6, <2>7, DiscoverKnows, StoreKnows DEF CheckStep
<1>4. ASSUME NEW a \in Checkers, NEW s \in Subs, Live(s),
             checker' = [checker EXCEPT ![a] = [Nobody EXCEPT !.pc = "enter", !.sub = s]]
      PROVE  ChecksKeep
  <2>1. /\ checker'[a].pc = "enter" /\ checker'[a].sub = s /\ checker'[a].index = 0
        /\ ~checker'[a].first /\ \A b \in Checkers \ {a} : checker'[b] = checker[b]
    BY <1>4 DEF Nobody, ChecksTyped
  <2> QED BY <1>4, <2>1, QuietChecks DEF Busy, Live
<1>5. CASE \E s \in Subs : SchedulerPicks(s)
  BY <1>4, <1>5 DEF SchedulerPicks, Due, Checkers
<1>6. CASE SchedulerExits
  <2>1. /\ checker'[Scheduler].pc = "exited" /\ Scheduler \in Checkers
        /\ \A b \in Checkers \ {Scheduler} : checker'[b] = checker[b]
    BY <1>6 DEF SchedulerExits, Nobody, ChecksTyped, Checkers
  <2> QED BY <2>1, QuietChecks DEF Busy
<1>7. CASE NewRequest
  <2>1. CASE \E c \in Clients, s \in Subs : CheckRequest(c, s)
    BY <1>4, <2>1 DEF CheckRequest, Checkers
  <2> QED BY <1>1, <1>7, <2>1 DEF NewRequest, Create, SetEnabled, SetAuto, Remove,
         QueueRequest, RetryRequest, SkipRequest, ItemKeeps
<1>8. CASE \/ RecoverChecks \/ RecoverDownloads \/ RequestStop \/ TimePasses \/ UNCHANGED vars
           \/ (\E v \in Videos : Publish(v)) \/ \E c \in Clients : RequestStep(c)
  BY <1>1, <1>8 DEF RecoverChecks, RecoverDownloads, RequestStop, TimePasses, CheckTimeComes,
     AttemptTimeComes, vars, Publish, RequestStep, RetryReads, WriteQueued, WriteSkipped, ItemKeeps
<1>9. CASE WorkerStep
  BY <1>1, <1>9 DEF WorkerStep, WorkerPicks, WorkerExits, WorkerBegins, WorkerPrepares,
     WorkerCannotPrepare, DownloadEnds, WorkerDone, WorkerFails, WorkerKeeps
<1> QED BY <1>2, <1>3, <1>5, <1>6, <1>7, <1>8, <1>9 DEF Next, SchedulerStep, Checkers

\* Of numbers that each have fewer than n before them there are at most n.
LEMMA FewBefore ==
  ASSUME NEW s, NEW T \in SUBSET OlderOf(s), NEW n \in Nat,
         \A v \in T : Cardinality(OlderThan(v)) < n
  PROVE  Cardinality(T) <= n
<1>1. T \in SUBSET Nat /\ IsFiniteSet(T)
  BY OlderFinite, VideosAssumption DEF OlderOf, VideosAssumption
<1>2. CASE T = {}
  BY <1>2, FS_EmptySet
<1>3. CASE T # {}
  <2>1. PICK v \in T : \A w \in T : v <= w
    BY <1>1, <1>3, LeastNatural
  <2>2. SourceOf[v] = s /\ v \in Nat
    BY <1>1 DEF OlderOf
  <2>3. T \ {v} \in SUBSET OlderThan(v)
    <3> SUFFICES ASSUME NEW w \in T, w # v PROVE v < w
      BY <2>2 DEF OlderThan
    <3> QED BY <1>1, <2>1, <2>2
  <2>4. OlderThan(v) \in SUBSET OlderOf(s)
    BY <2>2 DEF OlderThan
  <2>5. IsFiniteSet(OlderThan(v)) /\ Cardinality(OlderThan(v)) \in Nat
    BY <2>4, OlderFinite
  <2>6. Cardinality(T \ {v}) <= Cardinality(OlderThan(v))
    BY <2>3, <2>5, FS_Subset
  <2>7. Cardinality(T \ {v}) = Cardinality(T) - 1 /\ Cardinality(T) \in Nat
    BY <1>1, FS_RemoveElement, FS_CardinalityType
  <2> QED BY <2>1, <2>5, <2>6, <2>7
<1> QED BY <1>2, <1>3

\* Of the videos that are older than the subscription discovery chooses none
\* or at most LatestN, as its policy says: store_discovered_items counts along
\* the list, a known row keeps what it was given, and a check that skips the
\* policy has all the old videos behind it.
THEOREM PolicyIsKept == Spec => []PolicyKept
<1>1. Init => PolicyInv
  <2> SUFFICES ASSUME Init PROVE PolicyInv
    OBVIOUS
  <2>1. \A a \in Checkers : checker[a] = Nobody
    BY DEF Init
  <2>2. \A s \in Subs : sub[s].state = "none"
    BY DEF Init, NoSub
  <2>3. \A v \in Videos : item[v] = NoItem
    BY DEF Init
  <2>4. OldAreListed /\ ListsAreOwn /\ NothingBefore
    BY <2>1, <2>3 DEF Init, OldAreListed, ListsAreOwn, OwnList, NothingBefore, Busy, Nobody
  <2>5. \A v \in Older : SourceOf[v] \in Subs
    BY VideosAssumption DEF VideosAssumption
  <2> QED BY <2>2, <2>4, <2>5 DEF PolicyInv, FirstIsWhole, ChecksCount, FewChosen, Live
<1>2. TypeOK /\ PolicyInv /\ [Next]_vars => PolicyInv'
  <2> SUFFICES ASSUME TypeOK, PolicyInv, [Next]_vars PROVE PolicyInv'
    OBVIOUS
  <2>1. published \subseteq published'
    BY DEF Next, vars, RecoverChecks, RecoverDownloads, RequestStop, Crash, TimePasses,
       CheckTimeComes, AttemptTimeComes, Publish, SchedulerStep, SchedulerPicks, SchedulerExits,
       CheckStep, CheckEnter, CheckRead, CheckMark, Discover, StoreItem, CheckSucceeds,
       CheckFails, CheckLeave, CheckKeeps, WorkerStep, WorkerPicks, WorkerExits, WorkerBegins,
       WorkerPrepares, WorkerCannotPrepare, DownloadEnds, WorkerDone, WorkerFails, WorkerKeeps,
       NewRequest, Create, SetEnabled, SetAuto, Remove, CheckRequest, QueueRequest, RetryRequest,
       SkipRequest, RequestStep, RetryReads, WriteQueued, WriteSkipped, ItemKeeps
  <2> QED BY <2>1, SubsKeepStep, ItemsKeepStep, ChecksKeepStep, PolicyFrame
<1>3. PolicyInv => PolicyKept
  <2> SUFFICES ASSUME PolicyInv, NEW s \in Subs, Live(s)
               PROVE  LET chosen == {v \in Older : SourceOf[v] = s /\ item[v].reason \in Chosen}
                      IN  /\ sub[s].policy = "from_now" => chosen = {}
                          /\ sub[s].policy = "latest_n" => Cardinality(chosen) <= LatestN
    BY DEF PolicyKept
  <2> DEFINE chosen == {v \in Older : SourceOf[v] = s /\ item[v].reason \in Chosen}
  <2>1. \A v \in chosen : /\ sub[s].policy # "from_now"
                          /\ sub[s].policy = "latest_n" => Cardinality(OlderThan(v)) < LatestN
    BY DEF PolicyInv, FewChosen, ChosenWell
  <2>2. chosen \in SUBSET OlderOf(s)
    BY DEF OlderOf
  <2>3. LatestN \in Nat
    BY LimitsAssumption DEF LimitsAssumption
  <2> QED BY <2>1, <2>2, <2>3, FewBefore
<1> QED BY <1>1, <1>2, <1>3, Typing, PTL DEF Spec

=============================================================================
