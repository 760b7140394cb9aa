---------------------------- MODULE TransferCopy ----------------------------
(***************************************************************************)
(* Transfer jobs: copies of files of the library to a mounted folder, to a *)
(* receiver over HTTP, or by rclone.  A request creates the rows of its    *)
(* jobs and then queues them; a job's thread checks its target again,      *)
(* waits for one of TRANSFER_COPY_SEMAPHORE's slots and copies file by     *)
(* file.  A mounted folder is written by several jobs and by its owner; a  *)
(* receiver keeps a job of its own per run.  The scheduler that starts the *)
(* threads is module InternalQueue.                                        *)
(***************************************************************************)
EXTENDS Integers, Sequences, FiniteSetsExt

CONSTANTS
  Jobs, Files,
  MaxRuns,      \* bound: starts of one job
  Scenarios     \* kind, jobs, skip, links, slots, events

ASSUME FilesAssumption == Files \subseteq Nat /\ IsFiniteSet(Files)
ASSUME JobsAssumption == "none" \notin Jobs
ASSUME RunsAssumption == MaxRuns \in Nat
ASSUME ScenarioAssumption ==
  \A s \in Scenarios : /\ s.kind \in {"mount", "receiver", "rclone"} /\ s.jobs \subseteq Jobs
                       /\ s.skip \in BOOLEAN /\ s.links \in BOOLEAN /\ s.slots \in Nat \ {0}

VARIABLES
  sc,       \* the scenario, chosen once
  req,      \* the request that creates the jobs
  target,   \* row of the transfer target
  source,   \* files of the source that exist
  dest,     \* dest[f]: who wrote it, "none" when it does not exist
  temps,    \* temporary files <<job, file, run>> beside the destination
  free,     \* TRANSFER_COPY_SEMAPHORE
  job,      \* row and thread of a job
  remote    \* the receiver's jobs

vars == <<sc, req, target, source, dest, temps, free, job, remote>>

NewJob == [status |-> "none", pc |-> "rest", run |-> 0, left |-> {}, listed |-> {}, file |-> 0,
           remote |-> 0, error |-> "none"]

Init ==
  /\ sc \in Scenarios
  /\ req = "none" /\ target = "enabled" /\ source = Files
  /\ dest = [f \in Files |-> "none"] /\ temps = {} /\ free = sc.slots
  /\ job = [j \in Jobs |-> NewJob] /\ remote = <<>>

Set(j, e) == job' = [job EXCEPT ![j] = e]

-----------------------------------------------------------------------------
(* The request: preflight, one row per job, then the queue.  When a row    *)
(* cannot be created those before it are marked failed.                    *)

RequestArrives ==
  /\ req = "none" /\ target = "enabled" /\ source # {}
  /\ req' = "creating"
  /\ UNCHANGED <<sc, target, source, dest, temps, free, job, remote>>

CreateRow(j) ==
  /\ req = "creating" /\ j \in sc.jobs /\ job[j].status = "none"
  /\ Set(j, [job[j] EXCEPT !.status = "created"])
  /\ req' = IF \A k \in sc.jobs \ {j} : job[k].status # "none" THEN "queueing" ELSE req
  /\ UNCHANGED <<sc, target, source, dest, temps, free, remote>>

Abandoned(j) == IF job[j].status = "created" THEN [job[j] EXCEPT !.status = "failed"] ELSE job[j]
CreateRowFails ==
  /\ req = "creating" /\ "batch" \in sc.events
  /\ req' = "raised" /\ job' = [j \in Jobs |-> Abandoned(j)]
  /\ UNCHANGED <<sc, target, source, dest, temps, free, remote>>

EnqueueRow(j) ==
  /\ req = "queueing" /\ job[j].status = "created"
  /\ Set(j, [job[j] EXCEPT !.status = "queued"])
  /\ UNCHANGED <<sc, req, target, source, dest, temps, free, remote>>

-----------------------------------------------------------------------------
(* The thread.                                                             *)

Stopping(j) == job[j].status \in {"pausing", "canceling"}
At(j, pc) == job[j].pc = pc
To(j, pc) == Set(j, [job[j] EXCEPT !.pc = pc])
Holds(j) == job[j].pc \notin {"rest", "begin", "wait"}

(* An exception of a job that is to stop is its stop. *)
Outcome(j, error) ==
  CASE job[j].status = "pausing" -> "paused"
    [] job[j].status = "canceling" -> "canceled"
    [] OTHER -> IF error = "none" THEN "done" ELSE "failed"
(* Mutant: the slot is kept. *)
Kept(j) == free
Released(j) == IF Holds(j) THEN free + 1 ELSE free
Leaves(j, error) ==
  /\ Set(j, [job[j] EXCEPT !.status = Outcome(j, error), !.pc = "rest", !.error = error])
  /\ free' = Released(j)

Start(j) ==
  /\ job[j].status = "queued" /\ job[j].run < MaxRuns
  /\ Set(j, [NewJob EXCEPT !.status = "running", !.pc = "begin", !.run = job[j].run + 1])
  /\ UNCHANGED <<sc, req, target, source, dest, temps, free, remote>>

(* The row of the target, the policy and the preflight, read again. *)
Begin(j) ==
  /\ At(j, "begin")
  /\ IF Stopping(j) \/ target # "enabled" \/ source = {} THEN Leaves(j, "rejected")
     ELSE To(j, "wait") /\ UNCHANGED free
  /\ UNCHANGED <<sc, req, target, source, dest, temps, remote>>

(* No control point while the thread waits. *)
Acquire(j) ==
  /\ At(j, "wait") /\ free > 0
  /\ free' = free - 1
  /\ To(j, IF sc.kind = "receiver" THEN "post" ELSE "list")
  /\ UNCHANGED <<sc, req, target, source, dest, temps, remote>>

ListFiles(j) ==
  /\ At(j, "list")
  /\ IF source = {} THEN Leaves(j, "empty")
     ELSE Set(j, [job[j] EXCEPT !.pc = "next", !.left = source, !.listed = source]) /\ UNCHANGED free
  /\ UNCHANGED <<sc, req, target, source, dest, temps, remote>>

(* The control point before each file and in rclone's output loop; a       *)
(* receiver is told.                                                       *)
ControlStop(j) ==
  /\ At(j, "next") /\ Stopping(j) /\ (sc.kind = "rclone" \/ job[j].left # {})
  /\ IF sc.kind = "receiver" THEN To(j, "tell") /\ UNCHANGED free ELSE Leaves(j, "control")
  /\ UNCHANGED <<sc, req, target, source, dest, temps, remote>>

NextFile(j) ==
  /\ At(j, "next") /\ ~Stopping(j) /\ job[j].left # {}
  /\ LET f == Min(job[j].left)
     IN  Set(j, [job[j] EXCEPT !.file = f, !.left = @ \ {f}, !.pc = sc.kind])
  /\ UNCHANGED <<sc, req, target, source, dest, temps, free, remote>>

NoFileLeft(j) ==
  /\ At(j, "next") /\ job[j].left = {} /\ ~(sc.kind = "rclone" /\ Stopping(j))
  /\ To(j, IF sc.kind = "receiver" THEN "complete" ELSE "manifest")
  /\ UNCHANGED <<sc, req, target, source, dest, temps, free, remote>>

(* A mounted folder: look, copy to a temporary file, link it into place.   *)
Temp(j) == <<j, job[j].file, job[j].run>>
Without(j) == temps \ {Temp(j)}

Exists(f) == dest[f] # "none"
ExistingFile(j) == IF sc.skip THEN To(j, "next") /\ UNCHANGED free ELSE Leaves(j, "exists")

LookAndOpen(j) ==
  /\ At(j, "mount")
  /\ IF Exists(job[j].file) THEN ExistingFile(j) /\ UNCHANGED temps
     ELSE IF job[j].file \notin source THEN Leaves(j, "source") /\ UNCHANGED temps
     ELSE To(j, "copy") /\ temps' = temps \cup {Temp(j)} /\ UNCHANGED free
  /\ UNCHANGED <<sc, req, target, source, dest, remote>>

CopyFails(j) ==
  /\ At(j, "copy") /\ "fault" \in sc.events
  /\ dest' = dest /\ temps' = Without(j)
  /\ Leaves(j, "copy")
  /\ UNCHANGED <<sc, req, target, source, remote>>

(* Mutant: a rename, which replaces. *)
Replaceable(f) == TRUE
Absent(f) == ~Exists(f)

(* os.link fails when the name exists, and always where it is unsupported. *)
Link(j) ==
  /\ At(j, "copy") /\ sc.links
  /\ IF Absent(job[j].file)
     THEN dest' = [dest EXCEPT ![job[j].file] = j] /\ To(j, "next") /\ UNCHANGED free
     ELSE dest' = dest /\ ExistingFile(j)
  /\ temps' = Without(j)
  /\ UNCHANGED <<sc, req, target, source, remote>>

LinkUnsupported(j) ==
  /\ At(j, "copy") /\ ~sc.links
  /\ dest' = dest
  /\ IF Exists(job[j].file) THEN ExistingFile(j) /\ temps' = Without(j)
     ELSE To(j, "rename") /\ UNCHANGED <<free, temps>>
  /\ UNCHANGED <<sc, req, target, source, remote>>

Rename(j) ==
  /\ At(j, "rename")
  /\ dest' = [dest EXCEPT ![job[j].file] = j] /\ temps' = Without(j)
  /\ To(j, "next")
  /\ UNCHANGED <<sc, req, target, source, free, remote>>

(* rclone copies what is new or differs. *)
RcloneCopies(j) ==
  /\ At(j, "rclone")
  /\ dest' = IF job[j].file \in source THEN [dest EXCEPT ![job[j].file] = j] ELSE dest
  /\ To(j, "next")
  /\ UNCHANGED <<sc, req, target, source, temps, free, remote>>

RcloneExits(j) ==
  /\ At(j, "rclone") /\ "fault" \in sc.events
  /\ Leaves(j, "exit code")
  /\ UNCHANGED <<sc, req, target, source, dest, temps, remote>>

-----------------------------------------------------------------------------
(* A receiver: a job of its own, one upload per file, complete or fail.    *)
(* A request fails, or its answer is lost after it took effect.            *)

MayFail == "fault" \in sc.events
MayLose == "lost" \in sc.events
Mine(j) == job[j].remote
Opened(j) == Append(remote, [of |-> j, status |-> "open", files |-> {}])

PostRemote(j) ==
  /\ At(j, "post")
  /\ \/ /\ remote' = Opened(j)
        /\ Set(j, [job[j] EXCEPT !.pc = "next", !.remote = Len(remote) + 1,
                                 !.left = source, !.listed = source])
        /\ UNCHANGED free
     \/ MayFail /\ remote' = remote /\ Leaves(j, "receiver")
     \/ MayLose /\ remote' = Opened(j) /\ Leaves(j, "receiver")
  /\ UNCHANGED <<sc, req, target, source, dest, temps>>

Upload(j) ==
  /\ At(j, "receiver")
  /\ \/ /\ job[j].file \in source
        /\ remote' = [remote EXCEPT ![Mine(j)].files = @ \cup {job[j].file}] /\ To(j, "next")
     \/ /\ MayFail \/ job[j].file \notin source
        /\ remote' = remote /\ To(j, "tell")
  /\ UNCHANGED <<sc, req, target, source, dest, temps, free>>

(* Mutant: an error of the last request is taken for success. *)
AfterErrorGoesOn == "manifest"
AfterError == "tell"
Complete(j) ==
  /\ At(j, "complete")
  /\ \/ remote' = [remote EXCEPT ![Mine(j)].status = "complete"] /\ To(j, "manifest")
     \/ MayFail /\ remote' = remote /\ To(j, AfterError)
     \/ MayLose /\ remote' = [remote EXCEPT ![Mine(j)].status = "complete"] /\ To(j, AfterError)
  /\ UNCHANGED <<sc, req, target, source, dest, temps, free>>

(* Mutant: a control stop is not told. *)
ToldOfErrors(j) ==
  IF Stopping(j) THEN remote ELSE [remote EXCEPT ![Mine(j)].status = "failed"]
Told(j) == [remote EXCEPT ![Mine(j)].status = "failed"]
TellFail(j) ==
  /\ At(j, "tell")
  /\ \/ remote' = Told(j)
     \/ MayLose /\ remote' = remote
  /\ Leaves(j, "receiver")
  /\ UNCHANGED <<sc, req, target, source, dest, temps>>

WriteManifest(j) ==
  /\ At(j, "manifest")
  /\ Leaves(j, "none")
  /\ UNCHANGED <<sc, req, target, source, dest, temps, remote>>

-----------------------------------------------------------------------------
(* The user, the library, the owner of the mounted folder, restarts.       *)

PauseOrCancel(j) ==
  /\ "stop" \in sc.events /\ job[j].status \in {"queued", "running"}
  /\ \E w \in {<<"pausing", "paused">>, <<"canceling", "canceled">>} :
       Set(j, [job[j] EXCEPT !.status = IF @ = "running" THEN w[1] ELSE w[2]])
  /\ UNCHANGED <<sc, req, target, source, dest, temps, free, remote>>

(* (A job that never ran is not retried here.) *)
ResumeOrRetry(j) ==
  /\ job[j].status \in {"paused", "failed", "canceled"} /\ job[j].run \in 1..(MaxRuns - 1)
  /\ Set(j, [job[j] EXCEPT !.status = "queued"])
  /\ UNCHANGED <<sc, req, target, source, dest, temps, free, remote>>

DisableTarget ==
  /\ "disable" \in sc.events /\ target = "enabled" /\ target' = "disabled"
  /\ UNCHANGED <<sc, req, source, dest, temps, free, job, remote>>

SourceRemoved(f) ==
  /\ "edit" \in sc.events /\ f \in source /\ source' = source \ {f}
  /\ UNCHANGED <<sc, req, target, dest, temps, free, job, remote>>

OwnerWrites(f) ==
  /\ "owner" \in sc.events /\ ~Exists(f) /\ dest' = [dest EXCEPT ![f] = "owner"]
  /\ UNCHANGED <<sc, req, target, source, temps, free, job, remote>>

Booted(status) ==
  CASE status \in {"created", "running"} -> "queued" [] status = "pausing" -> "paused"
    [] status = "canceling" -> "canceled" [] OTHER -> status
Crash ==
  /\ "crash" \in sc.events
  /\ job' = [j \in Jobs |-> [job[j] EXCEPT !.status = Booted(@), !.pc = "rest"]]
  /\ free' = sc.slots
  /\ req' = IF req = "none" THEN req ELSE "lost"
  /\ UNCHANGED <<sc, target, source, dest, temps, remote>>

-----------------------------------------------------------------------------
ThreadStep(j) ==
  \/ Begin(j) \/ Acquire(j) \/ ListFiles(j) \/ ControlStop(j) \/ NextFile(j) \/ NoFileLeft(j)
  \/ LookAndOpen(j) \/ CopyFails(j) \/ Link(j) \/ LinkUnsupported(j) \/ Rename(j)
  \/ RcloneCopies(j) \/ RcloneExits(j)
  \/ PostRemote(j) \/ Upload(j) \/ Complete(j) \/ TellFail(j) \/ WriteManifest(j)

Next ==
  \/ RequestArrives \/ CreateRowFails \/ DisableTarget \/ Crash
  \/ \E j \in Jobs : \/ CreateRow(j) \/ EnqueueRow(j) \/ Start(j) \/ ThreadStep(j)
                     \/ PauseOrCancel(j) \/ ResumeOrRetry(j)
  \/ \E f \in Files : SourceRemoved(f) \/ OwnerWrites(f)

Spec == Init /\ [][Next]_vars

(* A started thread goes on. *)
FairSpec == Spec /\ \A j \in Jobs : WF_vars(ThreadStep(j))

-----------------------------------------------------------------------------
(* Properties.                                                             *)

(* Every variable has its type.                                            *)
TypeOK ==
  /\ sc \in Scenarios /\ req \in {"none", "creating", "queueing", "raised", "lost"}
  /\ target \in {"enabled", "disabled"} /\ source \subseteq Files
  /\ dest \in [Files -> Jobs \cup {"none", "owner"}]
  /\ temps \subseteq Jobs \X Files \X (1..MaxRuns)
  /\ free \in 0..sc.slots
  /\ \A j \in Jobs : /\ job[j].run \in 0..MaxRuns /\ job[j].listed \subseteq Files
                     /\ job[j].left \subseteq job[j].listed /\ job[j].remote \in 0..Len(remote)

(* A copy never replaces a file of the mounted folder, neither the owner's *)
(* nor one a concurrent job just put there (with hard links, or one slot   *)
(* and no other writer).  _finalize_local_mount_temp_file                  *)
NeverReplaced == [][sc.kind = "mount" => \A f \in Files : Exists(f) => dest'[f] = dest[f]]_vars

(* A job is done only when every file it listed is at its destination, and *)
(* the receiver said so of its own job, whatever was lost on the way.      *)
DoneIsThere ==
  \A j \in Jobs : job[j].status = "done" =>
    CASE sc.kind = "mount" -> \A f \in job[j].listed : Exists(f)
      [] sc.kind = "receiver" -> remote[Mine(j)].status = "complete" /\ remote[Mine(j)].files = job[j].listed
      [] OTHER -> TRUE

(* A receiver has at most one open job of a local job, and none of one     *)
(* that rests, however often it was stopped and resumed, as long as no     *)
(* answer is lost.  run_receiver_transfer                                  *)
NoOpenRemote ==
  sc.events \cap {"lost", "crash"} = {} =>
    \A n \in DOMAIN remote : remote[n].status = "open" =>
      Holds(remote[n].of) /\ Mine(remote[n].of) = n

(* What a job's row says is so at the other end: nothing is called done    *)
(* that is not there, and nothing goes on there that rests here.           *)
RowAgreesWithTarget == DoneIsThere /\ NoOpenRemote

(* A pause or cancel takes effect although the thread may be waiting for   *)
(* another job's slot, and every thread ends and gives its slot back.      *)
StopsTakeEffect == \A j \in Jobs : job[j].pc # "rest" ~> job[j].pc = "rest"

=============================================================================
