------------------------- MODULE TransferCopyProofs -------------------------
(***************************************************************************)
(* Transfers.  First their jobs, for every number of jobs and files and    *)
(* every scenario: the slots of the semaphore are counted, a job that is   *)
(* done has its files at the destination and the receiver knows, no        *)
(* receiver keeps a job open that rests here, and a copy replaces no file. *)
(*                                                                         *)
(* Then their targets, for every set of names, tree of folders and         *)
(* scenario: a row fits its kind, a copy lands where its preview said, the *)
(* pages of a folder cover it, and the ComfyUI check is true.              *)
(***************************************************************************)
EXTENDS TransferCopy, TransferTargets, FiniteSetTheorems, FunctionTheorems, SequenceTheorems,
        WellFoundedInduction, TLAPS

Statuses == {"none", "created", "queued", "running", "pausing", "paused", "canceling",
             "canceled", "failed", "done"}
Working == {"running", "pausing", "canceling"}
PCs == {"rest", "begin", "wait", "post", "list", "next", "mount", "receiver", "rclone",
        "copy", "rename", "complete", "manifest", "tell"}
Errors == {"none", "rejected", "empty", "control", "exists", "source", "copy", "exit code",
           "receiver"}
InHand == {"mount", "copy", "rename", "rclone", "receiver"}

(* The variables have their types, without the bounds of TypeOK.           *)
Row == [status : Statuses, pc : PCs, run : 0..MaxRuns, left : SUBSET Files,
        listed : SUBSET Files, file : Files \cup {0}, remote : Nat, error : Errors]
Remote == [of : Jobs, status : {"open", "complete", "failed"}, files : SUBSET Files]
Typed ==
  /\ sc \in Scenarios /\ req \in {"none", "creating", "queueing", "raised", "lost"}
  /\ target \in {"enabled", "disabled"} /\ source \subseteq Files
  /\ dest \in [Files -> Jobs \cup {"none", "owner"}]
  /\ temps \subseteq Jobs \X Files \X (1..MaxRuns)
  /\ job \in [Jobs -> Row] /\ remote \in Seq(Remote)

(* What the place of the thread of a job says of its row: r is the row.    *)
WorkIsKept(r) ==
  /\ r.left \subseteq r.listed
  /\ r.pc # "rest" => r.status \in Working /\ r.run # 0
  /\ r.pc \in InHand => r.file \in r.listed \ r.left
  /\ r.pc \in {"complete", "manifest"} \/ r.status = "done" => r.left = {}

(* Each kind of target has places of its own.                              *)
PlaceFits(r, s) ==
  /\ r.pc \in {"mount", "copy", "rename"} => s.kind = "mount"
  /\ r.pc = "rename" => ~s.links
  /\ r.pc = "rclone" => s.kind = "rclone"
  /\ r.pc \in {"post", "receiver", "complete", "tell"} => s.kind = "receiver"
  /\ r.pc = "list" => s.kind # "receiver"

RowsFit == \A j \in Jobs : WorkIsKept(job[j]) /\ PlaceFits(job[j], sc)

(* What was taken from the list of a mounted folder's job is there, except *)
(* the file in hand.                                                       *)
Copied(r, d) ==
  r.pc \in {"next", "mount", "copy", "rename", "manifest"} \/ r.status = "done" =>
    \A f \in r.listed \ r.left :
      d[f] # "none" \/ (r.pc \in {"mount", "copy", "rename"} /\ f = r.file)
CopiedIsThere == sc.kind = "mount" => \A j \in Jobs : Copied(job[j], dest)

(* What the receiver knows of a job: m is the receiver's jobs.             *)
Knows(r, j, m) ==
  /\ r.remote # 0 => r.remote \in 1..Len(m) /\ m[r.remote].of = j
  /\ r.pc \in {"begin", "wait", "post"} => r.remote = 0
  /\ r.pc \in {"next", "receiver", "complete"} =>
       r.remote # 0 /\ m[r.remote].status = "open"
  /\ r.pc \in {"next", "complete"} => m[r.remote].files = r.listed \ r.left
  /\ r.pc = "receiver" => m[r.remote].files = (r.listed \ r.left) \ {r.file}
  /\ r.pc = "tell" => r.remote # 0
  /\ r.pc = "manifest" \/ r.status = "done" =>
       r.remote # 0 /\ m[r.remote].status = "complete" /\ m[r.remote].files = r.listed
ReceiverKnows ==
  IF sc.kind = "receiver" THEN \A j \in Jobs : Knows(job[j], j, remote)
  ELSE remote = <<>> /\ \A j \in Jobs : job[j].remote = 0

Inv == Typed /\ RowsFit /\ CopiedIsThere /\ ReceiverKnows /\ NoOpenRemote

(* The slots that are not free are those of the jobs that hold one.        *)
Holders == {j \in Jobs : Holds(j)}
SlotsCount ==
  IsFiniteSet(Holders) /\ free \in Nat /\ free + Cardinality(Holders) = sc.slots

(* A mounted folder without hard links has one slot and one writer.        *)
WritersApart ==
  \A s \in Scenarios : s.kind = "mount" /\ ~s.links => s.slots = 1 /\ "owner" \notin s.events
(* A file that is about to be renamed into place has a free name.          *)
RenameIsClear == \A j \in Jobs : At(j, "rename") => ~Exists(job[j].file)

-----------------------------------------------------------------------------
(* How a row changes.                                                      *)

Others(j) == \A k \in Jobs \ {j} : job'[k] = job[k]
SameWork(j) ==
  /\ job'[j].run = job[j].run /\ job'[j].left = job[j].left
  /\ job'[j].listed = job[j].listed /\ job'[j].file = job[j].file
  /\ job'[j].remote = job[j].remote

\* A file is chosen among those left: the least one.
LEMMA MinIsListed == ASSUME NEW S \in SUBSET Files, S # {} PROVE Min(S) \in S
<1>1. S \in SUBSET Nat BY FilesAssumption
<1>2. PICK x \in S : \A y \in S : ~(<<y, x>> \in OpToRel(<, Nat))
  BY <1>1, NatLessThanWellFounded, WFMin
<1>3. \A y \in S : ~(y < x)
  BY <1>1, <1>2 DEF OpToRel
<1>4. \A y \in S : x <= y
  BY <1>1, <1>3
<1> QED BY <1>4 DEF Min

\* A thread that goes to another place keeps the rest of its row.
LEMMA Goes ==
  ASSUME Typed, NEW j \in Jobs, NEW pc \in PCs, To(j, pc)
  PROVE  /\ job' \in [Jobs -> Row] /\ Others(j) /\ SameWork(j)
         /\ job'[j].pc = pc /\ job'[j].status = job[j].status
<1>1. job[j] \in Row BY DEF Typed
<1>2. [job[j] EXCEPT !.pc = pc] \in Row BY <1>1 DEF Row
<1>3. job' = [job EXCEPT ![j] = [job[j] EXCEPT !.pc = pc]] BY DEF To, Set
<1>4. job' \in [Jobs -> Row] BY <1>2, <1>3 DEF Typed
<1>5. job'[j] = [job[j] EXCEPT !.pc = pc] BY <1>3 DEF Typed
<1>6. Others(j) BY <1>3 DEF Others, Typed
<1> QED BY <1>1, <1>4, <1>5, <1>6 DEF SameWork, Row

\* A thread that ends says why, and only a thread without an error is done.
LEMMA Ends ==
  ASSUME Typed, NEW j \in Jobs, NEW e \in Errors, Leaves(j, e)
  PROVE  /\ job' \in [Jobs -> Row] /\ Others(j) /\ SameWork(j)
         /\ job'[j].pc = "rest" /\ job'[j].status \in {"paused", "canceled", "failed", "done"}
         /\ job'[j].status = "done" => e = "none"
<1> DEFINE o == Outcome(j, e)
<1>1. job[j] \in Row BY DEF Typed
<1>2. o \in {"paused", "canceled", "failed", "done"} /\ (o = "done" => e = "none")
  BY DEF Outcome
<1> HIDE DEF o
<1>3. [job[j] EXCEPT !.status = o] \in Row BY <1>1, <1>2 DEF Row, Statuses
<1>4. [[job[j] EXCEPT !.status = o] EXCEPT !.pc = "rest"] \in Row BY <1>3 DEF Row, PCs
<1>5. [job[j] EXCEPT !.status = o, !.pc = "rest", !.error = e] \in Row BY <1>4 DEF Row
<1>6. job' = [job EXCEPT ![j] = [job[j] EXCEPT !.status = o, !.pc = "rest", !.error = e]]
  BY DEF Leaves, Set, o
<1>7. job' \in [Jobs -> Row] BY <1>5, <1>6 DEF Typed
<1>8. job'[j] = [job[j] EXCEPT !.status = o, !.pc = "rest", !.error = e]
  BY <1>6 DEF Typed
<1>9. Others(j) BY <1>6 DEF Others, Typed
<1> QED BY <1>1, <1>2, <1>7, <1>8, <1>9 DEF SameWork, Row

\* A status that is written leaves the place of the thread alone.
LEMMA Marks ==
  ASSUME Typed, NEW j \in Jobs, NEW s \in Statuses, Set(j, [job[j] EXCEPT !.status = s])
  PROVE  /\ job' \in [Jobs -> Row] /\ Others(j) /\ SameWork(j)
         /\ job'[j].pc = job[j].pc /\ job'[j].status = s
<1>1. job[j] \in Row BY DEF Typed
<1>2. [job[j] EXCEPT !.status = s] \in Row BY <1>1 DEF Row
<1>3. job' = [job EXCEPT ![j] = [job[j] EXCEPT !.status = s]] BY DEF Set
<1>4. job' \in [Jobs -> Row] BY <1>2, <1>3 DEF Typed
<1>5. job'[j] = [job[j] EXCEPT !.status = s] BY <1>3 DEF Typed
<1>6. Others(j) BY <1>3 DEF Others, Typed
<1> QED BY <1>1, <1>4, <1>5, <1>6 DEF SameWork, Row

\* The row of a job that has not been created has the type of one.
LEMMA NewJobTyped == NewJob \in Row
<1>1. 0 \in 0..MaxRuns BY RunsAssumption
<1>2. "none" \in Statuses /\ "rest" \in PCs BY DEF Statuses, PCs
<1>3. {} \in SUBSET Files /\ 0 \in Files \cup {0} /\ 0 \in Nat OBVIOUS
<1>4. "none" \in Errors BY DEF Errors
<1> QED BY <1>1, <1>2, <1>3, <1>4, Zenon DEF NewJob, Row

\* A run begins with an empty row.
LEMMA Starts ==
  ASSUME Typed, NEW j \in Jobs, Start(j)
  PROVE  /\ job' \in [Jobs -> Row] /\ Others(j) /\ job[j].status = "queued"
         /\ job'[j].pc = "begin" /\ job'[j].status = "running" /\ job'[j].run # 0
         /\ job'[j].left = {} /\ job'[j].listed = {} /\ job'[j].remote = 0
<1> DEFINE r == [NewJob EXCEPT !.status = "running", !.pc = "begin", !.run = job[j].run + 1]
<1>1. job[j].run \in 0..MaxRuns /\ job[j].run < MaxRuns BY DEF Typed, Row, Start
<1>2. NewJob \in Row BY NewJobTyped
<1>3. [NewJob EXCEPT !.status = "running"] \in Row BY <1>2 DEF Row, Statuses
<1>4. [NewJob EXCEPT !.status = "running", !.pc = "begin"] \in Row BY <1>3 DEF Row, PCs
<1>5. job[j].run + 1 \in 0..MaxRuns BY <1>1, RunsAssumption
<1>6. r \in Row BY <1>4, <1>5 DEF Row
<1>7. /\ r.pc = "begin" /\ r.status = "running" /\ r.run = job[j].run + 1
      /\ r.left = {} /\ r.listed = {} /\ r.remote = 0
  BY <1>2 DEF NewJob, Row
<1>8. job' = [job EXCEPT ![j] = r] BY DEF Start, Set
<1> HIDE DEF r
<1>9. job' \in [Jobs -> Row] /\ job'[j] = r BY <1>6, <1>8 DEF Typed
<1>10. Others(j) BY <1>8 DEF Others, Typed
<1> QED BY <1>1, <1>7, <1>9, <1>10 DEF Start

\* The files are listed: those of the source that exist.
LEMMA Lists ==
  ASSUME Typed, NEW j \in Jobs, NEW m \in Nat,
         Set(j, [job[j] EXCEPT !.pc = "next", !.remote = m, !.left = source, !.listed = source])
  PROVE  /\ job' \in [Jobs -> Row] /\ Others(j) /\ job'[j].pc = "next"
         /\ job'[j].status = job[j].status /\ job'[j].run = job[j].run /\ job'[j].remote = m
         /\ job'[j].left = source /\ job'[j].listed = source
<1> DEFINE r == [job[j] EXCEPT !.pc = "next", !.remote = m, !.left = source, !.listed = source]
<1>1. job[j] \in Row BY DEF Typed
<1>2. [job[j] EXCEPT !.pc = "next"] \in Row BY <1>1 DEF Row, PCs
<1>3. [job[j] EXCEPT !.pc = "next", !.remote = m] \in Row BY <1>2 DEF Row
<1>4. [job[j] EXCEPT !.pc = "next", !.remote = m, !.left = source] \in Row
  BY <1>3 DEF Row, Typed
<1>5. r \in Row BY <1>4 DEF Row, Typed
<1>6. job' = [job EXCEPT ![j] = r] BY DEF Set
<1>7. r.pc = "next" /\ r.status = job[j].status /\ r.run = job[j].run /\ r.remote = m
      /\ r.left = source /\ r.listed = source
  BY <1>1 DEF Row
<1> HIDE DEF r
<1>8. job' \in [Jobs -> Row] /\ job'[j] = r BY <1>5, <1>6 DEF Typed
<1>9. Others(j) BY <1>6 DEF Others, Typed
<1> QED BY <1>7, <1>8, <1>9

\* The next file is taken from those that are left.
LEMMA Takes ==
  ASSUME Typed, NEW j \in Jobs, NextFile(j)
  PROVE  /\ job' \in [Jobs -> Row] /\ Others(j) /\ job'[j].pc = sc.kind
         /\ job'[j].status = job[j].status /\ job'[j].run = job[j].run
         /\ job'[j].remote = job[j].remote /\ job'[j].listed = job[j].listed
         /\ job'[j].file \in job[j].left /\ job'[j].left = job[j].left \ {job'[j].file}
<1>1. job[j] \in Row /\ job[j].left \in SUBSET Files /\ job[j].left # {}
  BY DEF Typed, Row, NextFile
<1>2. PICK f : f = Min(job[j].left) OBVIOUS
<1>3. f \in job[j].left BY <1>1, <1>2, MinIsListed
<1>4. PICK r : r = [job[j] EXCEPT !.file = f, !.left = @ \ {f}, !.pc = sc.kind] OBVIOUS
<1>5. sc.kind \in {"mount", "receiver", "rclone"} BY ScenarioAssumption DEF Typed
<1>6. [job[j] EXCEPT !.file = f] \in Row BY <1>1, <1>3 DEF Row
<1>7. [job[j] EXCEPT !.file = f, !.left = @ \ {f}] \in Row BY <1>6 DEF Row
<1>8. r \in Row BY <1>4, <1>5, <1>7 DEF Row, PCs
<1>9. job' = [job EXCEPT ![j] = r] BY <1>2, <1>4 DEF NextFile, Set
<1>10. job' \in [Jobs -> Row] /\ job'[j] = r BY <1>8, <1>9 DEF Typed
<1>11. Others(j) BY <1>9 DEF Others, Typed
<1>12. r.pc = sc.kind /\ r.status = job[j].status /\ r.run = job[j].run
       /\ r.remote = job[j].remote /\ r.listed = job[j].listed /\ r.file = f
       /\ r.left = job[j].left \ {f}
  BY <1>1, <1>4 DEF Row
<1> QED BY <1>3, <1>10, <1>11, <1>12

\* A crash stops every thread.
LEMMA Stops ==
  ASSUME Typed, Crash
  PROVE  /\ job' \in [Jobs -> Row]
         /\ \A j \in Jobs : /\ SameWork(j) /\ job'[j].pc = "rest"
                            /\ job'[j].status = "done" => job[j].status = "done"
<1>1. job' = [j \in Jobs |-> [job[j] EXCEPT !.status = Booted(@), !.pc = "rest"]] BY DEF Crash
<1>2. ASSUME NEW j \in Jobs
      PROVE  /\ job'[j] \in Row /\ SameWork(j) /\ job'[j].pc = "rest"
             /\ job'[j].status = "done" => job[j].status = "done"
  <2>1. job[j] \in Row BY DEF Typed
  <2>2. PICK b : b = Booted(job[j].status) OBVIOUS
  <2>3. b \in Statuses /\ (b = "done" => job[j].status = "done")
    BY <2>1, <2>2 DEF Booted, Row, Statuses
  <2>4. job'[j] = [job[j] EXCEPT !.status = b, !.pc = "rest"] BY <1>1, <2>2
  <2>5. [job[j] EXCEPT !.status = b] \in Row BY <2>1, <2>3 DEF Row
  <2>6. job'[j] \in Row BY <2>4, <2>5 DEF Row, PCs
  <2> QED BY <2>1, <2>3, <2>4, <2>6 DEF SameWork, Row
<1>3. job' \in [Jobs -> Row] BY <1>1, <1>2
<1> QED BY <1>2, <1>3

\* So does the end of a request halfway, for the rows that were not queued.
LEMMA Abandons ==
  ASSUME Typed, CreateRowFails
  PROVE  /\ job' \in [Jobs -> Row]
         /\ \A j \in Jobs : /\ SameWork(j) /\ job'[j].pc = job[j].pc
                            /\ \/ job'[j].status = job[j].status
                               \/ job[j].status = "created" /\ job'[j].status = "failed"
<1>1. job' = [j \in Jobs |-> Abandoned(j)] BY DEF CreateRowFails
<1>2. ASSUME NEW j \in Jobs
      PROVE  /\ job'[j] \in Row /\ SameWork(j) /\ job'[j].pc = job[j].pc
             /\ \/ job'[j].status = job[j].status
                \/ job[j].status = "created" /\ job'[j].status = "failed"
  <2>1. job[j] \in Row /\ job'[j] = Abandoned(j) BY <1>1 DEF Typed
  <2>2. [job[j] EXCEPT !.status = "failed"] \in Row BY <2>1 DEF Row, Statuses
  <2> QED BY <2>1, <2>2 DEF Abandoned, SameWork, Row
<1>3. job' \in [Jobs -> Row] BY <1>1, <1>2
<1> QED BY <1>2, <1>3

-----------------------------------------------------------------------------
(* The variables keep their types.                                         *)

AllErrors == {"rejected", "empty", "control", "exists", "source", "copy", "exit code",
              "receiver"}

\* The row of a job whose thread is somewhere.
LEMMA AtPlace ==
  ASSUME Inv, NEW j \in Jobs
  PROVE  /\ job[j] \in Row /\ WorkIsKept(job[j]) /\ PlaceFits(job[j], sc)
         /\ sc.kind \in {"mount", "receiver", "rclone"} /\ sc.slots \in Nat
         /\ sc.kind = "receiver" => Knows(job[j], j, remote)
         /\ sc.kind = "mount" => Copied(job[j], dest)
BY ScenarioAssumption DEF Inv, Typed, RowsFit, ReceiverKnows, CopiedIsThere

\* A job of the receiver is written.
LEMMA WritesRemote ==
  ASSUME Typed, NEW n \in 1..Len(remote), NEW e \in Remote, remote' = [remote EXCEPT ![n] = e]
  PROVE  /\ remote' \in Seq(Remote) /\ Len(remote') = Len(remote) /\ remote'[n] = e
         /\ \A k \in 1..Len(remote) \ {n} : remote'[k] = remote[k]
BY DEF Typed

\* A file arrives at the receiver.
LEMMA FileArrives ==
  ASSUME Typed, NEW n \in 1..Len(remote), NEW f \in Files,
         remote' = [remote EXCEPT ![n].files = @ \cup {f}]
  PROVE  /\ remote' \in Seq(Remote) /\ Len(remote') = Len(remote)
         /\ \A k \in 1..Len(remote) \ {n} : remote'[k] = remote[k]
         /\ remote'[n].of = remote[n].of /\ remote'[n].status = remote[n].status
         /\ remote'[n].files = remote[n].files \cup {f}
<1>1. remote[n] \in Remote BY DEF Typed
<1>2. PICK e : e = [remote[n] EXCEPT !.files = @ \cup {f}] OBVIOUS
<1>3. e \in Remote BY <1>1, <1>2 DEF Remote
<1>4. remote' = [remote EXCEPT ![n] = e] BY <1>2
<1>5. /\ remote' \in Seq(Remote) /\ Len(remote') = Len(remote) /\ remote'[n] = e
      /\ \A k \in 1..Len(remote) \ {n} : remote'[k] = remote[k]
  BY <1>3, <1>4, WritesRemote
<1> QED BY <1>1, <1>2, <1>5 DEF Remote

\* The receiver's job is completed or failed.
LEMMA StatusArrives ==
  ASSUME Typed, NEW n \in 1..Len(remote), NEW s \in {"complete", "failed"},
         remote' = [remote EXCEPT ![n].status = s]
  PROVE  /\ remote' \in Seq(Remote) /\ Len(remote') = Len(remote)
         /\ \A k \in 1..Len(remote) \ {n} : remote'[k] = remote[k]
         /\ remote'[n].of = remote[n].of /\ remote'[n].files = remote[n].files
         /\ remote'[n].status = s
<1>1. remote[n] \in Remote BY DEF Typed
<1>2. PICK e : e = [remote[n] EXCEPT !.status = s] OBVIOUS
<1>3. e \in Remote BY <1>1, <1>2 DEF Remote
<1>4. remote' = [remote EXCEPT ![n] = e] BY <1>2
<1>5. /\ remote' \in Seq(Remote) /\ Len(remote') = Len(remote) /\ remote'[n] = e
      /\ \A k \in 1..Len(remote) \ {n} : remote'[k] = remote[k]
  BY <1>3, <1>4, WritesRemote
<1> QED BY <1>1, <1>2, <1>5 DEF Remote

\* A job is opened at the receiver.
LEMMA Opens ==
  ASSUME Typed, NEW j \in Jobs, remote' = Opened(j)
  PROVE  /\ remote' \in Seq(Remote) /\ Len(remote') = Len(remote) + 1
         /\ \A k \in 1..Len(remote) : remote'[k] = remote[k]
         /\ remote'[Len(remote) + 1] = [of |-> j, status |-> "open", files |-> {}]
<1>1. [of |-> j, status |-> "open", files |-> {}] \in Remote BY DEF Remote
<1> QED BY <1>1 DEF Opened, Typed

\* What a step of a thread does to the receiver's jobs: it opens one of its
\* own, or writes one, its own, or nothing.
LEMMA RemoteOfThread ==
  ASSUME Inv, NEW j \in Jobs, ThreadStep(j)
  PROVE  /\ remote' \in Seq(Remote)
         /\ \/ remote' = remote
            \/ At(j, "post") /\ remote' = Opened(j)
            \/ /\ sc.kind = "receiver" /\ Mine(j) \in 1..Len(remote) /\ Len(remote') = Len(remote)
               /\ remote'[Mine(j)].of = remote[Mine(j)].of
               /\ \A k \in 1..Len(remote) \ {Mine(j)} : remote'[k] = remote[k]
<1> USE AtPlace
<1>1. Typed /\ remote \in Seq(Remote) BY DEF Inv, Typed
<1>2. CASE PostRemote(j)
  <2>1. CASE remote' = Opened(j) BY <1>1, <1>2, <2>1, Opens DEF PostRemote
  <2>2. CASE remote' = remote BY <1>1, <2>2
  <2> QED BY <1>2, <2>1, <2>2 DEF PostRemote
<1>3. CASE Upload(j)
  <2>1. CASE remote' = [remote EXCEPT ![Mine(j)].files = @ \cup {job[j].file}]
    <3>1. job[j].file \in Files /\ Mine(j) \in 1..Len(remote) /\ sc.kind = "receiver"
      BY <1>3 DEF Upload, At, WorkIsKept, InHand, Row, Knows, Mine, PlaceFits
    <3> QED BY <1>1, <2>1, <3>1, FileArrives
  <2>2. CASE remote' = remote BY <1>1, <2>2
  <2> QED BY <1>3, <2>1, <2>2 DEF Upload
<1>4. CASE Complete(j) \/ TellFail(j)
  <2>1. Mine(j) \in 1..Len(remote) /\ sc.kind = "receiver"
    BY <1>4 DEF Complete, TellFail, At, Knows, Mine, PlaceFits
  <2>2. \/ remote' = [remote EXCEPT ![Mine(j)].status = "complete"]
        \/ remote' = [remote EXCEPT ![Mine(j)].status = "failed"]
        \/ remote' = remote
    BY <1>4 DEF Complete, TellFail, Told
  <2>3. CASE remote' = [remote EXCEPT ![Mine(j)].status = "complete"]
    BY <1>1, <2>1, <2>3, StatusArrives
  <2>4. CASE remote' = [remote EXCEPT ![Mine(j)].status = "failed"]
    BY <1>1, <2>1, <2>4, StatusArrives
  <2> QED BY <1>1, <2>2, <2>3, <2>4
<1>5. CASE remote' = remote BY <1>1, <1>5
<1> QED
  BY <1>2, <1>3, <1>4, <1>5
  DEF ThreadStep, Begin, Acquire, ListFiles, ControlStop, NextFile, NoFileLeft, LookAndOpen,
      CopyFails, Link, LinkUnsupported, Rename, RcloneCopies, RcloneExits, WriteManifest

\* What it does to a row: the thread goes on, ends, lists or takes a file.
LEMMA RowOfThread ==
  ASSUME Inv, NEW j \in Jobs, ThreadStep(j)
  PROVE  /\ \/ \E pc \in PCs : To(j, pc) /\ (pc = "rename" => LinkUnsupported(j))
            \/ At(j, "manifest") /\ Leaves(j, "none")
            \/ \E e \in AllErrors : Leaves(j, e)
            \/ /\ At(j, "list")
               /\ Set(j, [job[j] EXCEPT !.pc = "next", !.left = source, !.listed = source])
            \/ /\ At(j, "post") /\ remote' = Opened(j)
               /\ Set(j, [job[j] EXCEPT !.pc = "next", !.remote = Len(remote) + 1,
                                        !.left = source, !.listed = source])
            \/ NextFile(j)
         /\ UNCHANGED <<sc, req, target, source>>
<1>1. CASE Begin(j) \/ Acquire(j) \/ NoFileLeft(j)
  BY <1>1 DEF Begin, Acquire, NoFileLeft, PCs, AllErrors
<1>2. CASE ListFiles(j) \/ ControlStop(j)
  BY <1>2 DEF ListFiles, ControlStop, PCs, AllErrors
<1>3. CASE LookAndOpen(j) \/ CopyFails(j)
  BY <1>3 DEF LookAndOpen, CopyFails, ExistingFile, PCs, AllErrors
<1>4. CASE Link(j) \/ LinkUnsupported(j) \/ Rename(j)
  BY <1>4 DEF Link, LinkUnsupported, Rename, ExistingFile, PCs, AllErrors
<1>5. CASE RcloneCopies(j) \/ RcloneExits(j) \/ WriteManifest(j)
  BY <1>5 DEF RcloneCopies, RcloneExits, WriteManifest, PCs, AllErrors
<1>6. CASE PostRemote(j) BY <1>6 DEF PostRemote, AllErrors
<1>7. CASE Upload(j) \/ Complete(j) \/ TellFail(j)
  BY <1>7 DEF Upload, Complete, TellFail, AfterError, PCs, AllErrors
<1>8. CASE NextFile(j) BY <1>8 DEF NextFile
<1> QED BY <1>1, <1>2, <1>3, <1>4, <1>5, <1>6, <1>7, <1>8 DEF ThreadStep

\* What it does to the folder: files only come.
LEMMA FolderOfThread ==
  ASSUME Inv, NEW j \in Jobs, ThreadStep(j)
  PROVE  /\ dest' \in [Files -> Jobs \cup {"none", "owner"}]
         /\ \A f \in Files : Exists(f) => dest'[f] # "none"
         /\ temps' \subseteq Jobs \X Files \X (1..MaxRuns)
<1> USE AtPlace, JobsAssumption
<1>1. Typed BY DEF Inv
<1>2. \/ dest' = dest
      \/ job[j].file \in Files /\ dest' = [dest EXCEPT ![job[j].file] = j]
  <2>1. CASE Link(j) \/ Rename(j) \/ RcloneCopies(j)
    <3>1. job[j].file \in Files
      BY <2>1 DEF Link, Rename, RcloneCopies, At, WorkIsKept, InHand, Row
    <3> QED BY <2>1, <3>1 DEF Link, Rename, RcloneCopies
  <2>2. CASE UNCHANGED dest BY <2>2
  <2> QED
    BY <2>1, <2>2
    DEF ThreadStep, Begin, Acquire, ListFiles, ControlStop, NextFile, NoFileLeft, LookAndOpen,
        CopyFails, LinkUnsupported, RcloneExits, PostRemote, Upload, Complete, TellFail,
        WriteManifest
<1>3. dest' \in [Files -> Jobs \cup {"none", "owner"}] BY <1>1, <1>2 DEF Typed
<1>4. \A f \in Files : Exists(f) => dest'[f] # "none" BY <1>1, <1>2 DEF Typed, Exists
<1>5. temps' \subseteq temps \/ (At(j, "mount") /\ temps' = temps \cup {Temp(j)})
  BY DEF ThreadStep, Begin, Acquire, ListFiles, ControlStop, NextFile, NoFileLeft, LookAndOpen,
         CopyFails, LinkUnsupported, Link, Rename, RcloneCopies, RcloneExits, PostRemote, Upload,
         Complete, TellFail, WriteManifest, Without
<1>6. At(j, "mount") => Temp(j) \in Jobs \X Files \X (1..MaxRuns)
  <2>1. HAVE At(j, "mount")
  <2>2. job[j].file \in Files /\ job[j].run \in 1..MaxRuns
    BY <2>1, RunsAssumption DEF At, WorkIsKept, InHand, Row
  <2> QED BY <2>2 DEF Temp
<1> QED BY <1>1, <1>3, <1>4, <1>5, <1>6 DEF Typed

\* A step of a thread leaves the other rows alone.
LEMMA ThreadTyped ==
  ASSUME Inv, NEW j \in Jobs, ThreadStep(j)
  PROVE  Typed' /\ Others(j) /\ sc' = sc /\ source' = source
<1>1. Typed BY DEF Inv
<1>2. /\ remote' \in Seq(Remote) /\ dest' \in [Files -> Jobs \cup {"none", "owner"}]
      /\ temps' \subseteq Jobs \X Files \X (1..MaxRuns)
  BY RemoteOfThread, FolderOfThread
<1>3. UNCHANGED <<sc, req, target, source>> BY RowOfThread
<1>4. job' \in [Jobs -> Row] /\ Others(j)
  <2>1. CASE \E pc \in PCs : To(j, pc) BY <1>1, <2>1, Goes
  <2>2. CASE Leaves(j, "none") BY <1>1, <2>2, Ends DEF Errors
  <2>3. CASE \E e \in AllErrors : Leaves(j, e)
    <3>1. AllErrors \subseteq Errors BY DEF AllErrors, Errors
    <3> QED BY <1>1, <2>3, <3>1, Ends
  <2>4. CASE Set(j, [job[j] EXCEPT !.pc = "next", !.left = source, !.listed = source])
    <3>1. job[j] \in Row BY <1>1 DEF Typed
    <3>2. [job[j] EXCEPT !.pc = "next", !.left = source, !.listed = source]
          = [job[j] EXCEPT !.pc = "next", !.remote = job[j].remote, !.left = source, !.listed = source]
      BY <3>1 DEF Row
    <3>3. job[j].remote \in Nat BY <3>1 DEF Row
    <3> QED BY <1>1, <2>4, <3>2, <3>3, Lists
  <2>5. CASE Set(j, [job[j] EXCEPT !.pc = "next", !.remote = Len(remote) + 1,
                                   !.left = source, !.listed = source])
    <3>1. Len(remote) + 1 \in Nat BY <1>1 DEF Typed
    <3> QED BY <1>1, <2>5, <3>1, Lists
  <2>6. CASE NextFile(j) BY <1>1, <2>6, Takes
  <2> QED BY <2>1, <2>2, <2>3, <2>4, <2>5, <2>6, RowOfThread
<1> QED BY <1>1, <1>2, <1>3, <1>4 DEF Typed

\* Every other step: what it does to the rows, the folder and the receiver.
Undisturbed(j) ==
  /\ SameWork(j) /\ job'[j].pc = job[j].pc
  /\ job'[j].status = "done" => job[j].status = "done"
  /\ job'[j].status \in Working \/ job'[j].pc = "rest"
\* Requests and the world change no row a thread works on, and no remote file.
LEMMA OtherSteps ==
  ASSUME Inv,
         \/ RequestArrives \/ CreateRowFails \/ DisableTarget
         \/ \E j \in Jobs : CreateRow(j) \/ EnqueueRow(j) \/ PauseOrCancel(j) \/ ResumeOrRetry(j)
         \/ \E f \in Files : SourceRemoved(f) \/ OwnerWrites(f)
  PROVE  /\ Typed' /\ sc' = sc /\ remote' = remote
         /\ \A j \in Jobs : Undisturbed(j)
         /\ \A f \in Files : Exists(f) => dest'[f] # "none"
<1> USE AtPlace
<1>1. Typed BY DEF Inv
<1>2. ASSUME job' = job, sc' = sc, remote' = remote, source' \subseteq source, temps' = temps,
             \/ dest' = dest
             \/ \E f \in Files : ~Exists(f) /\ dest' = [dest EXCEPT ![f] = "owner"],
             req' \in {"none", "creating", "queueing", "raised", "lost"},
             target' \in {"enabled", "disabled"}
      PROVE  /\ Typed' /\ sc' = sc /\ remote' = remote
             /\ \A j \in Jobs : Undisturbed(j)
             /\ \A f \in Files : Exists(f) => dest'[f] # "none"
  <2>1. Typed' BY <1>1, <1>2 DEF Typed
  <2>2. \A f \in Files : Exists(f) => dest'[f] # "none" BY <1>1, <1>2 DEF Typed, Exists
  <2>3. \A j \in Jobs : Undisturbed(j) BY <1>2 DEF Undisturbed, SameWork, WorkIsKept, Row, PCs
  <2> QED BY <1>2, <2>1, <2>2, <2>3
<1>3. CASE RequestArrives \/ DisableTarget
  BY <1>1, <1>2, <1>3 DEF RequestArrives, DisableTarget, Typed
<1>4. CASE \E f \in Files : SourceRemoved(f) \/ OwnerWrites(f)
  BY <1>1, <1>2, <1>4 DEF SourceRemoved, OwnerWrites, Typed
<1>5. ASSUME NEW j \in Jobs, NEW s \in Statuses \ {"done"},
             Set(j, [job[j] EXCEPT !.status = s]),
             s \in Working \/ job[j].pc = "rest",
             req' \in {"none", "creating", "queueing", "raised", "lost"},
             UNCHANGED <<sc, target, source, dest, temps, remote>>
      PROVE  /\ Typed' /\ sc' = sc /\ remote' = remote
             /\ \A k \in Jobs : Undisturbed(k)
             /\ \A f \in Files : Exists(f) => dest'[f] # "none"
  <2>1. /\ job' \in [Jobs -> Row] /\ Others(j) /\ SameWork(j)
        /\ job'[j].pc = job[j].pc /\ job'[j].status = s
    BY <1>1, <1>5, Marks
  <2>2. Typed' BY <1>1, <1>5, <2>1 DEF Typed
  <2>3. ASSUME NEW k \in Jobs PROVE Undisturbed(k)
    <3>1. CASE k = j BY <1>5, <2>1, <3>1 DEF Undisturbed
    <3>2. CASE k # j BY <2>1, <3>2 DEF Undisturbed, Others, SameWork, WorkIsKept
    <3> QED BY <3>1, <3>2
  <2> QED BY <1>5, <2>2, <2>3 DEF Exists
<1>6. ASSUME NEW j \in Jobs, CreateRow(j) PROVE Set(j, [job[j] EXCEPT !.status = "created"])
                                               /\ job[j].pc = "rest"
  BY <1>6 DEF CreateRow, WorkIsKept, Working
<1>7. CASE \E j \in Jobs : CreateRow(j)
  BY <1>1, <1>5, <1>6, <1>7 DEF CreateRow, Statuses, Typed
<1>8. CASE \E j \in Jobs : EnqueueRow(j)
  <2>1. PICK j \in Jobs : EnqueueRow(j) BY <1>8
  <2>2. job[j].pc = "rest" BY <2>1 DEF EnqueueRow, WorkIsKept, Working
  <2> QED BY <1>1, <1>5, <2>1, <2>2 DEF EnqueueRow, Statuses, Typed
<1>9. CASE \E j \in Jobs : ResumeOrRetry(j)
  <2>1. PICK j \in Jobs : ResumeOrRetry(j) BY <1>9
  <2>2. job[j].pc = "rest" BY <2>1 DEF ResumeOrRetry, WorkIsKept, Working
  <2> QED BY <1>1, <1>5, <2>1, <2>2 DEF ResumeOrRetry, Statuses, Typed
<1>10. CASE \E j \in Jobs : PauseOrCancel(j)
  <2>1. PICK j \in Jobs : PauseOrCancel(j) BY <1>10
  <2>2. PICK w \in {<<"pausing", "paused">>, <<"canceling", "canceled">>} :
          Set(j, [job[j] EXCEPT !.status = IF @ = "running" THEN w[1] ELSE w[2]])
    BY <2>1 DEF PauseOrCancel
  <2>3. PICK s : s = IF job[j].status = "running" THEN w[1] ELSE w[2] OBVIOUS
  <2>4. w[1] \in {"pausing", "canceling"} /\ w[2] \in {"paused", "canceled"} OBVIOUS
  <2>5. s \in Statuses \ {"done"} /\ (job[j].status = "running" => s \in Working)
    BY <2>3, <2>4 DEF Statuses, Working
  <2>6. Set(j, [job[j] EXCEPT !.status = s]) BY <2>2, <2>3
  <2>7. job[j].status # "running" => job[j].pc = "rest"
    BY <2>1 DEF PauseOrCancel, WorkIsKept, Working
  <2> QED BY <1>1, <1>5, <2>1, <2>5, <2>6, <2>7 DEF PauseOrCancel, Typed
<1>11. CASE CreateRowFails
  <2>1. /\ job' \in [Jobs -> Row]
        /\ \A j \in Jobs : /\ SameWork(j) /\ job'[j].pc = job[j].pc
                           /\ \/ job'[j].status = job[j].status
                              \/ job[j].status = "created" /\ job'[j].status = "failed"
    BY <1>1, <1>11, Abandons
  <2>2. Typed' BY <1>1, <1>11, <2>1 DEF Typed, CreateRowFails
  <2>3. \A j \in Jobs : Undisturbed(j)
    BY <2>1 DEF Undisturbed, WorkIsKept, Working
  <2> QED BY <1>11, <2>2, <2>3 DEF CreateRowFails, Exists
<1> QED BY <1>3, <1>4, <1>7, <1>8, <1>9, <1>10, <1>11

\* The start of a thread keeps the types.
LEMMA StartTyped ==
  ASSUME Inv, NEW j \in Jobs, Start(j)
  PROVE  Typed' /\ sc' = sc /\ dest' = dest /\ remote' = remote
<1>1. Typed BY DEF Inv
<1>2. job' \in [Jobs -> Row] BY <1>1, Starts
<1> QED BY <1>1, <1>2 DEF Start, Typed

\* A crash keeps the types, and the files.
LEMMA CrashTyped ==
  ASSUME Inv, Crash
  PROVE  Typed' /\ sc' = sc /\ dest' = dest /\ remote' = remote
<1>1. Typed BY DEF Inv
<1>2. job' \in [Jobs -> Row] BY <1>1, Stops
<1> QED BY <1>1, <1>2 DEF Crash, Typed

-----------------------------------------------------------------------------
(* The places of the threads and what their rows hold.                     *)

\* A thread that ends leaves nothing to do if it is done.
LEMMA EndedFits ==
  ASSUME Inv, NEW j \in Jobs, NEW e \in Errors, Leaves(j, e), e = "none" => job[j].left = {}
  PROVE  WorkIsKept(job'[j]) /\ PlaceFits(job'[j], sc)
<1>1. /\ SameWork(j) /\ job'[j].pc = "rest"
      /\ job'[j].status = "done" => e = "none"
  BY Ends DEF Inv
<1> QED BY <1>1, AtPlace DEF WorkIsKept, PlaceFits, SameWork, InHand

\* A thread that goes to another place of its kind.
LEMMA MovedFits ==
  ASSUME Inv, NEW j \in Jobs, NEW pc \in PCs, To(j, pc), job[j].pc # "rest",
         PlaceFits([job[j] EXCEPT !.pc = pc], sc),
         pc \in InHand => job[j].pc \in InHand,
         pc \in {"complete", "manifest"} => job[j].left = {}
  PROVE  WorkIsKept(job'[j]) /\ PlaceFits(job'[j], sc)
<1>1. SameWork(j) /\ job'[j].pc = pc /\ job'[j].status = job[j].status
  BY Goes DEF Inv
<1>2. WorkIsKept(job[j]) /\ job[j] \in Row BY AtPlace
<1>3. WorkIsKept(job'[j])
  BY <1>1, <1>2 DEF WorkIsKept, SameWork, Working
<1>4. [job[j] EXCEPT !.pc = pc].pc = pc BY <1>2 DEF Row
<1>5. PlaceFits(job'[j], sc) BY <1>1, <1>4 DEF PlaceFits
<1> QED BY <1>3, <1>5

\* Each step of a thread.
LEMMA ThreadFits ==
  ASSUME Inv, NEW j \in Jobs, ThreadStep(j)
  PROVE  WorkIsKept(job'[j]) /\ PlaceFits(job'[j], sc)
<1> USE AtPlace DEF PCs, At
<1>1. Typed /\ sc' = sc /\ job[j] \in Row BY ThreadTyped DEF Inv
<1>2. \A pc : pc \in PCs => [job[j] EXCEPT !.pc = pc].pc = pc BY <1>1 DEF Row
<1>3. CASE Begin(j) \/ Acquire(j)
  BY <1>1, <1>2, <1>3, EndedFits, MovedFits DEF Begin, Acquire, PlaceFits, InHand, Errors
<1>4. CASE ListFiles(j)
  <2>1. CASE Leaves(j, "empty") BY <2>1, EndedFits DEF Errors
  <2>2. CASE Set(j, [job[j] EXCEPT !.pc = "next", !.left = source, !.listed = source])
    <3>1. job' = [job EXCEPT ![j] = [job[j] EXCEPT !.pc = "next", !.left = source, !.listed = source]]
      BY <2>2 DEF Set
    <3>2. job'[j] = [job[j] EXCEPT !.pc = "next", !.left = source, !.listed = source]
      BY <1>1, <3>1 DEF Typed
    <3> QED BY <1>1, <1>4, <3>2 DEF ListFiles, WorkIsKept, PlaceFits, Row, InHand, Working
  <2> QED BY <1>4, <2>1, <2>2 DEF ListFiles
<1>5. CASE ControlStop(j)
  BY <1>1, <1>2, <1>5, EndedFits, MovedFits DEF ControlStop, PlaceFits, InHand, Errors
<1>6. CASE NextFile(j)
  <2>1. /\ job'[j].pc = sc.kind /\ job'[j].status = job[j].status /\ job'[j].run = job[j].run
        /\ job'[j].listed = job[j].listed /\ job'[j].file \in job[j].left
        /\ job'[j].left = job[j].left \ {job'[j].file}
    BY <1>1, <1>6, Takes
  <2> QED
    BY <1>1, <1>6, <2>1 DEF NextFile, Stopping, WorkIsKept, PlaceFits, InHand, Working
<1>7. CASE NoFileLeft(j)
  BY <1>1, <1>2, <1>7, MovedFits DEF NoFileLeft, PlaceFits, InHand
<1>8. CASE LookAndOpen(j)
  BY <1>1, <1>2, <1>8, EndedFits, MovedFits
  DEF LookAndOpen, ExistingFile, PlaceFits, InHand, Errors
<1>9. CASE CopyFails(j) \/ Link(j)
  BY <1>1, <1>2, <1>9, EndedFits, MovedFits
  DEF CopyFails, Link, ExistingFile, PlaceFits, InHand, Errors
<1>10. CASE LinkUnsupported(j) \/ Rename(j)
  BY <1>1, <1>2, <1>10, EndedFits, MovedFits
  DEF LinkUnsupported, Rename, ExistingFile, PlaceFits, InHand, Errors
<1>11. CASE RcloneCopies(j) \/ RcloneExits(j)
  BY <1>1, <1>2, <1>11, EndedFits, MovedFits
  DEF RcloneCopies, RcloneExits, PlaceFits, InHand, Errors
<1>12. CASE PostRemote(j)
  <2>1. CASE Leaves(j, "receiver") BY <2>1, EndedFits DEF Errors
  <2>2. CASE Set(j, [job[j] EXCEPT !.pc = "next", !.remote = Len(remote) + 1,
                                   !.left = source, !.listed = source])
    <3>1. Len(remote) + 1 \in Nat BY <1>1 DEF Typed
    <3>2. /\ job'[j].pc = "next" /\ job'[j].status = job[j].status /\ job'[j].run = job[j].run
          /\ job'[j].left = source /\ job'[j].listed = source
      BY <1>1, <2>2, <3>1, Lists
    <3> QED BY <1>1, <1>12, <3>2 DEF PostRemote, WorkIsKept, PlaceFits, InHand, Working
  <2> QED BY <1>12, <2>1, <2>2 DEF PostRemote
<1>13. CASE Upload(j)
  BY <1>1, <1>2, <1>13, MovedFits DEF Upload, PlaceFits, InHand
<1>14. CASE Complete(j)
  BY <1>1, <1>2, <1>14, MovedFits DEF Complete, AfterError, WorkIsKept, PlaceFits, InHand
<1>15. CASE TellFail(j) BY <1>15, EndedFits DEF TellFail, Errors
<1>16. CASE WriteManifest(j)
  BY <1>16, EndedFits DEF WriteManifest, WorkIsKept, Errors
<1> QED
  BY <1>3, <1>4, <1>5, <1>6, <1>7, <1>8, <1>9, <1>10, <1>11, <1>12, <1>13, <1>14, <1>15, <1>16
  DEF ThreadStep

-----------------------------------------------------------------------------
(* The mounted folder.                                                     *)

\* A row without a change of its work stays true of a folder that grows.
LEMMA CopiedStays ==
  ASSUME NEW r, NEW t, NEW d, NEW g, Copied(r, d),
         r.listed \subseteq Files, \A f \in Files : d[f] # "none" => g[f] # "none",
         t.left = r.left, t.listed = r.listed, t.file = r.file,
         t.status = "done" => r.status = "done" \/ r.pc = "manifest",
         r.status = "done" => r.pc = "rest",
         \/ t.pc = "rest" \/ t.pc = r.pc
         \/ t.pc \in {"copy", "rename"} /\ r.pc \in {"mount", "copy"}
         \/ t.pc = "manifest" /\ r.pc = "next"
         \/ /\ t.pc = "next" /\ r.pc \in {"mount", "copy", "rename"}
            /\ r.file \in Files => g[r.file] # "none"
  PROVE  Copied(t, g)
<1> SUFFICES ASSUME t.pc \in {"next", "mount", "copy", "rename", "manifest"} \/ t.status = "done",
                    NEW f \in t.listed \ t.left
             PROVE  g[f] # "none" \/ (t.pc \in {"mount", "copy", "rename"} /\ f = t.file)
  BY DEF Copied
<1>1. f \in r.listed \ r.left /\ f \in Files OBVIOUS
<1>2. d[f] # "none" \/ (r.pc \in {"mount", "copy", "rename"} /\ f = r.file)
  BY <1>1 DEF Copied
<1> QED BY <1>1, <1>2

\* What a job counts as copied to a mount is there.
LEMMA ThreadCopied ==
  ASSUME Inv, sc.kind = "mount", NEW j \in Jobs, ThreadStep(j)
  PROVE  Copied(job'[j], dest')
<1> USE AtPlace DEF PCs, At
<1>1. /\ Typed /\ job[j] \in Row /\ Copied(job[j], dest) /\ job[j].listed \subseteq Files
      /\ \A f \in Files : Exists(f) => dest'[f] # "none"
      /\ job[j].status = "done" => job[j].pc = "rest"
  BY FolderOfThread DEF Inv, Row, WorkIsKept, Working
<1>2. ASSUME NEW e \in Errors, Leaves(j, e), e = "none" => job[j].pc = "manifest"
      PROVE  Copied(job'[j], dest')
  <2>1. /\ SameWork(j) /\ job'[j].pc = "rest"
        /\ job'[j].status = "done" => e = "none"
    BY <1>1, <1>2, Ends
  <2> QED BY <1>1, <1>2, <2>1, CopiedStays DEF SameWork, Exists
<1>3. ASSUME NEW pc \in {"wait", "list", "post", "copy", "rename", "manifest", "tell"},
             To(j, pc),
             pc \in {"copy", "rename"} => job[j].pc \in {"mount", "copy"},
             pc = "manifest" => job[j].pc = "next",
             job[j].status # "done"
      PROVE  Copied(job'[j], dest')
  <2>1. SameWork(j) /\ job'[j].pc = pc /\ job'[j].status = job[j].status
    BY <1>1, <1>3, Goes
  <2>2. CASE pc \in {"copy", "rename", "manifest"}
    BY <1>1, <1>3, <2>1, <2>2, CopiedStays DEF SameWork, Exists
  <2>3. CASE pc \in {"wait", "list", "post", "tell"}
    BY <1>3, <2>1, <2>3 DEF Copied
  <2> QED BY <2>2, <2>3
<1>4. ASSUME To(j, "next"), job[j].pc \in {"mount", "copy", "rename"},
             dest'[job[j].file] # "none"
      PROVE  Copied(job'[j], dest')
  <2>1. SameWork(j) /\ job'[j].pc = "next" /\ job'[j].status = job[j].status
    BY <1>1, <1>4, Goes
  <2> QED BY <1>1, <1>4, <2>1, CopiedStays DEF SameWork, Exists
<1>5. job[j].status # "done" /\ sc.kind = "mount"
  BY DEF ThreadStep, Begin, Acquire, ListFiles, ControlStop, NextFile, NoFileLeft, LookAndOpen,
         CopyFails, Link, LinkUnsupported, Rename, RcloneCopies, RcloneExits, PostRemote, Upload,
         Complete, TellFail, WriteManifest, WorkIsKept, Working
<1>6. CASE Begin(j) \/ Acquire(j)
  BY <1>2, <1>3, <1>5, <1>6 DEF Begin, Acquire, Errors
<1>7. CASE ListFiles(j)
  <2>1. CASE Leaves(j, "empty") BY <1>2, <2>1 DEF Errors
  <2>2. CASE Set(j, [job[j] EXCEPT !.pc = "next", !.left = source, !.listed = source])
    <3>1. job' = [job EXCEPT ![j] = [job[j] EXCEPT !.pc = "next", !.left = source, !.listed = source]]
      BY <2>2 DEF Set
    <3>2. job'[j] = [job[j] EXCEPT !.pc = "next", !.left = source, !.listed = source]
      BY <1>1, <3>1 DEF Typed
    <3> QED BY <1>1, <3>2 DEF Copied, Row
  <2> QED BY <1>7, <2>1, <2>2 DEF ListFiles
<1>8. CASE ControlStop(j)
  BY <1>2, <1>3, <1>5, <1>8 DEF ControlStop, Errors
<1>9. CASE NextFile(j)
  <2>1. /\ job'[j].pc = "mount" /\ job'[j].listed = job[j].listed
        /\ job'[j].file \in job[j].left /\ job'[j].left = job[j].left \ {job'[j].file}
    BY <1>1, <1>5, <1>9, Takes
  <2>2. \A f \in job[j].listed \ job[j].left : dest[f] # "none"
    BY <1>1, <1>9 DEF NextFile, Copied
  <2>3. dest' = dest BY <1>9 DEF NextFile
  <2> QED BY <2>1, <2>2, <2>3 DEF Copied
<1>10. CASE NoFileLeft(j) BY <1>3, <1>5, <1>10 DEF NoFileLeft
<1>11. CASE LookAndOpen(j)
  BY <1>1, <1>2, <1>3, <1>4, <1>5, <1>11
  DEF LookAndOpen, ExistingFile, Exists, Errors
<1>12. CASE CopyFails(j) BY <1>2, <1>12 DEF CopyFails, Errors
<1>13. job[j].pc \in InHand => job[j].file \in Files
  BY <1>1 DEF WorkIsKept
<1>14. CASE Link(j)
  BY <1>1, <1>2, <1>4, <1>13, <1>14, JobsAssumption
  DEF Link, ExistingFile, Absent, Exists, Errors, InHand, Typed
<1>15. CASE LinkUnsupported(j)
  BY <1>1, <1>2, <1>3, <1>4, <1>5, <1>13, <1>15
  DEF LinkUnsupported, ExistingFile, Exists, Errors, InHand
<1>16. CASE Rename(j)
  BY <1>1, <1>4, <1>13, <1>16, JobsAssumption DEF Rename, InHand, Typed
<1>17. ~(RcloneCopies(j) \/ RcloneExits(j) \/ PostRemote(j) \/ Upload(j) \/ Complete(j) \/ TellFail(j))
  BY <1>5 DEF RcloneCopies, RcloneExits, PostRemote, Upload, Complete, TellFail, PlaceFits
<1>18. CASE WriteManifest(j) BY <1>2, <1>18 DEF WriteManifest, Errors
<1> QED
  BY <1>6, <1>7, <1>8, <1>9, <1>10, <1>11, <1>12, <1>14, <1>15, <1>16, <1>17, <1>18
  DEF ThreadStep

-----------------------------------------------------------------------------
(* The receiver.                                                           *)

\* A row stays true of a receiver that keeps the job's job.
LEMMA KnowsStays ==
  ASSUME NEW r, NEW t, NEW j, NEW m \in Seq(Remote), NEW n \in Seq(Remote), Knows(r, j, m),
         Len(m) <= Len(n), r.remote # 0 => n[r.remote] = m[r.remote],
         t.remote = r.remote, t.left = r.left, t.listed = r.listed, t.file = r.file,
         t.status = "done" => r.status = "done" \/ r.pc = "manifest",
         \/ t.pc = "rest" \/ t.pc = r.pc
         \/ t.pc \in {"wait", "post"} /\ r.pc \in {"begin", "wait"}
         \/ t.pc = "tell" /\ r.pc \in {"next", "receiver", "complete"}
         \/ t.pc = "complete" /\ r.pc = "next"
  PROVE  Knows(t, j, n)
<1>1. r.remote # 0 => r.remote \in 1..Len(n) /\ n[r.remote].of = j BY DEF Knows
<1> QED BY <1>1 DEF Knows

\* What a job knows of a receiver is so.
LEMMA ThreadKnows ==
  ASSUME Inv, sc.kind = "receiver", NEW j \in Jobs, ThreadStep(j)
  PROVE  Knows(job'[j], j, remote')
<1> USE AtPlace DEF PCs, At, Mine
<1>1. /\ Typed /\ job[j] \in Row /\ Knows(job[j], j, remote) /\ sc.kind = "receiver"
      /\ remote \in Seq(Remote) /\ remote' \in Seq(Remote) /\ WorkIsKept(job[j])
  BY RemoteOfThread DEF Inv, Typed
<1>2. ASSUME NEW e \in Errors, Leaves(j, e), e = "none" => job[j].pc = "manifest",
             remote' = remote
      PROVE  Knows(job'[j], j, remote')
  <2>1. /\ SameWork(j) /\ job'[j].pc = "rest"
        /\ job'[j].status = "done" => e = "none"
    BY <1>1, <1>2, Ends
  <2> QED BY <1>1, <1>2, <2>1, KnowsStays DEF SameWork
<1>3. ASSUME NEW pc \in PCs, To(j, pc), remote' = remote,
             \/ pc \in {"wait", "post"} /\ job[j].pc \in {"begin", "wait"}
             \/ pc = "tell" /\ job[j].pc \in {"next", "receiver", "complete"}
             \/ pc = "complete" /\ job[j].pc = "next"
      PROVE  Knows(job'[j], j, remote')
  <2>1. SameWork(j) /\ job'[j].pc = pc /\ job'[j].status = job[j].status
    BY <1>1, <1>3, Goes
  <2>2. \/ job'[j].pc \in {"wait", "post"} /\ job[j].pc \in {"begin", "wait"}
        \/ job'[j].pc = "tell" /\ job[j].pc \in {"next", "receiver", "complete"}
        \/ job'[j].pc = "complete" /\ job[j].pc = "next"
    BY <1>3, <2>1
  <2>3. Len(remote) <= Len(remote') /\ remote' = remote
    BY <1>1, <1>3
  <2> HIDE DEF PCs, At, Mine
  <2> QED BY <1>1, <2>1, <2>2, <2>3, KnowsStays DEF SameWork
<1>4. CASE Begin(j) \/ Acquire(j)
  <2>1. CASE Begin(j)
    BY <1>1, <1>2, <1>3, <2>1 DEF Begin, Errors
  <2>2. CASE Acquire(j)
    BY <1>1, <1>2, <1>3, <2>2 DEF Acquire, Errors
  <2> QED BY <1>4, <2>1, <2>2
<1>5. CASE ControlStop(j) \/ NoFileLeft(j)
  BY <1>1, <1>2, <1>3, <1>5 DEF ControlStop, NoFileLeft, Errors
<1>6. CASE NextFile(j)
  <2>1. /\ job'[j].pc = "receiver" /\ job'[j].listed = job[j].listed
        /\ job'[j].status = job[j].status /\ job'[j].remote = job[j].remote
        /\ job'[j].file \in job[j].left /\ job'[j].left = job[j].left \ {job'[j].file}
    BY <1>1, <1>6, Takes
  <2>2. remote' = remote /\ job[j].pc = "next" BY <1>6 DEF NextFile
  <2>3. job[j].status # "done" BY <2>2 DEF WorkIsKept, Working
  <2>4. /\ job[j].remote # 0 /\ job[j].remote \in 1..Len(remote)
        /\ remote[job[j].remote].of = j /\ remote[job[j].remote].status = "open"
        /\ remote[job[j].remote].files = job[j].listed \ job[j].left
    BY <1>1, <2>2 DEF Knows
  <2>5. remote[job[j].remote].files = (job'[j].listed \ job'[j].left) \ {job'[j].file}
    BY <2>1, <2>4
  <2> QED BY <2>1, <2>2, <2>3, <2>4, <2>5 DEF Knows
<1>7. CASE PostRemote(j)
  <2>1. CASE Leaves(j, "receiver") /\ remote' = remote BY <1>2, <2>1 DEF Errors
  <2>2. CASE Leaves(j, "receiver") /\ remote' = Opened(j)
    <3>1. /\ SameWork(j) /\ job'[j].pc = "rest" /\ job'[j].status # "done"
      BY <1>1, <2>2, Ends DEF Errors
    <3>2. job[j].remote = 0 BY <1>1, <1>7 DEF PostRemote, Knows
    <3> QED BY <3>1, <3>2 DEF Knows, SameWork
  <2>3. CASE /\ remote' = Opened(j)
             /\ Set(j, [job[j] EXCEPT !.pc = "next", !.remote = Len(remote) + 1,
                                      !.left = source, !.listed = source])
    <3>1. Len(remote) + 1 \in Nat BY <1>1
    <3>2. /\ job'[j].pc = "next" /\ job'[j].status = job[j].status
          /\ job'[j].remote = Len(remote) + 1
          /\ job'[j].left = source /\ job'[j].listed = source
      BY <1>1, <2>3, <3>1, Lists
    <3>3. /\ Len(remote') = Len(remote) + 1
          /\ remote'[Len(remote) + 1] = [of |-> j, status |-> "open", files |-> {}]
      BY <1>1, <2>3, Opens
    <3>4. job[j].status # "done" BY <1>7 DEF PostRemote, WorkIsKept, Working
    <3>5. Len(remote) \in Nat BY <1>1
    <3> QED BY <3>2, <3>3, <3>4, <3>5 DEF Knows
  <2> QED BY <1>7, <2>1, <2>2, <2>3 DEF PostRemote
<1>8. CASE Upload(j)
  <2>1. CASE To(j, "tell") /\ remote' = remote BY <1>3, <1>8, <2>1 DEF Upload
  <2>2. CASE /\ remote' = [remote EXCEPT ![Mine(j)].files = @ \cup {job[j].file}]
             /\ To(j, "next")
    <3>1. SameWork(j) /\ job'[j].pc = "next" /\ job'[j].status = job[j].status
      BY <1>1, <2>2, Goes
    <3>2. /\ job[j].pc = "receiver" /\ job[j].status # "done"
          /\ job[j].file \in job[j].listed \ job[j].left
      BY <1>8 DEF Upload, WorkIsKept, Working, InHand
    <3>3. /\ Mine(j) # 0 /\ Mine(j) \in 1..Len(remote) /\ remote[Mine(j)].of = j
          /\ remote[Mine(j)].status = "open"
          /\ remote[Mine(j)].files = (job[j].listed \ job[j].left) \ {job[j].file}
      BY <1>1, <3>2 DEF Knows
    <3>4. job[j].file \in Files BY <1>1, <3>2 DEF Row
    <3>5. /\ Len(remote') = Len(remote) /\ remote'[Mine(j)].of = j
          /\ remote'[Mine(j)].status = "open"
          /\ remote'[Mine(j)].files = remote[Mine(j)].files \cup {job[j].file}
      BY <1>1, <2>2, <3>3, <3>4, FileArrives
    <3>6. remote'[Mine(j)].files = job[j].listed \ job[j].left
      BY <3>2, <3>3, <3>5
    <3> QED BY <3>1, <3>2, <3>3, <3>5, <3>6 DEF Knows, SameWork
  <2> QED BY <1>8, <2>1, <2>2 DEF Upload
<1>9. CASE Complete(j)
  <2>1. CASE To(j, "tell") /\ remote' = remote BY <1>3, <1>9, <2>1 DEF Complete
  <2>2. CASE /\ remote' = [remote EXCEPT ![Mine(j)].status = "complete"]
             /\ To(j, "manifest") \/ To(j, "tell")
    <3>1. /\ SameWork(j) /\ job'[j].pc \in {"manifest", "tell"}
          /\ job'[j].status = job[j].status
      BY <1>1, <2>2, Goes
    <3>2. job[j].pc = "complete" /\ job[j].status # "done" /\ job[j].left = {}
      BY <1>9 DEF Complete, WorkIsKept, Working
    <3>3. /\ Mine(j) # 0 /\ Mine(j) \in 1..Len(remote) /\ remote[Mine(j)].of = j
          /\ remote[Mine(j)].files = job[j].listed \ job[j].left
      BY <1>1, <3>2 DEF Knows
    <3>4. /\ Len(remote') = Len(remote) /\ remote'[Mine(j)].of = j
          /\ remote'[Mine(j)].status = "complete"
          /\ remote'[Mine(j)].files = remote[Mine(j)].files
      BY <1>1, <2>2, <3>3, StatusArrives
    <3>5. remote'[Mine(j)].files = job[j].listed BY <3>2, <3>3, <3>4
    <3> QED BY <3>1, <3>2, <3>3, <3>4, <3>5 DEF Knows, SameWork
  <2> QED BY <1>9, <2>1, <2>2 DEF Complete, AfterError
<1>10. CASE TellFail(j)
  <2>1. CASE remote' = remote BY <1>2, <1>10, <2>1 DEF TellFail, Errors
  <2>2. CASE remote' = Told(j)
    <3>1. /\ SameWork(j) /\ job'[j].pc = "rest" /\ job'[j].status # "done"
      BY <1>1, <1>10, Ends DEF TellFail, Errors
    <3>2. Mine(j) # 0 /\ Mine(j) \in 1..Len(remote) /\ remote[Mine(j)].of = j
      BY <1>1, <1>10 DEF TellFail, Knows
    <3>3. Len(remote') = Len(remote) /\ remote'[Mine(j)].of = j
      BY <1>1, <2>2, <3>2, StatusArrives DEF Told
    <3> QED BY <3>1, <3>2, <3>3 DEF Knows, SameWork
  <2> QED BY <1>10, <2>1, <2>2 DEF TellFail
<1>11. CASE WriteManifest(j) BY <1>2, <1>11 DEF WriteManifest, Errors
<1>12. ~(\/ ListFiles(j) \/ LookAndOpen(j) \/ CopyFails(j) \/ Link(j) \/ LinkUnsupported(j)
         \/ Rename(j) \/ RcloneCopies(j) \/ RcloneExits(j))
  BY <1>1 DEF ListFiles, LookAndOpen, CopyFails, Link, LinkUnsupported, Rename, RcloneCopies,
              RcloneExits, PlaceFits
<1> QED
  BY <1>4, <1>5, <1>6, <1>7, <1>8, <1>9, <1>10, <1>11, <1>12 DEF ThreadStep

\* Only a receiver has jobs of its own.
LEMMA ThreadKnowsNothing ==
  ASSUME Inv, sc.kind # "receiver", NEW j \in Jobs, ThreadStep(j)
  PROVE  remote' = remote /\ job'[j].remote = 0
<1> USE AtPlace DEF At
<1>1. Typed /\ job[j].remote = 0 BY DEF Inv, ReceiverKnows
<1>2. remote' = remote BY RemoteOfThread DEF PlaceFits
<1>3. CASE \E pc \in PCs : To(j, pc) BY <1>1, <1>2, <1>3, Goes DEF SameWork
<1>4. CASE Leaves(j, "none") BY <1>1, <1>2, <1>4, Ends DEF SameWork, Errors
<1>5. CASE \E e \in AllErrors : Leaves(j, e)
  <2>1. AllErrors \subseteq Errors BY DEF AllErrors, Errors
  <2> QED BY <1>1, <1>2, <1>5, <2>1, Ends DEF SameWork
<1>6. CASE Set(j, [job[j] EXCEPT !.pc = "next", !.left = source, !.listed = source])
  <2>1. job' = [job EXCEPT ![j] = [job[j] EXCEPT !.pc = "next", !.left = source, !.listed = source]]
    BY <1>6 DEF Set
  <2>2. job'[j] = [job[j] EXCEPT !.pc = "next", !.left = source, !.listed = source]
    BY <1>1, <2>1 DEF Typed
  <2> QED BY <1>1, <1>2, <2>2 DEF Row
<1>7. CASE NextFile(j) BY <1>1, <1>2, <1>7, Takes
<1> QED BY <1>3, <1>4, <1>5, <1>6, <1>7, RowOfThread DEF PlaceFits

\* No step makes a job wrong about its receiver.
LEMMA ReceiverKnowsNext ==
  ASSUME Inv, Next, Typed', sc' = sc
  PROVE  ReceiverKnows'
<1> USE AtPlace
<1>1. Typed /\ remote \in Seq(Remote) /\ remote' \in Seq(Remote) BY DEF Inv, Typed
<1>2. ASSUME remote' = remote,
             \A j \in Jobs : /\ SameWork(j) /\ (job'[j].pc = "rest" \/ job'[j].pc = job[j].pc)
                             /\ job'[j].status = "done" => job[j].status = "done"
      PROVE  ReceiverKnows'
  <2>1. ASSUME NEW j \in Jobs, sc.kind = "receiver" PROVE Knows(job'[j], j, remote')
    <3>1. Knows(job[j], j, remote) BY <2>1
    <3>2. Len(remote) <= Len(remote') /\ remote'[job[j].remote] = remote[job[j].remote]
      BY <1>1, <1>2
    <3>3. /\ job'[j].remote = job[j].remote /\ job'[j].left = job[j].left
          /\ job'[j].listed = job[j].listed /\ job'[j].file = job[j].file
          /\ job'[j].pc = "rest" \/ job'[j].pc = job[j].pc
          /\ job'[j].status = "done" => job[j].status = "done"
      BY <1>2 DEF SameWork
    <3> QED BY <1>1, <3>1, <3>2, <3>3, KnowsStays
  <2>2. CASE sc.kind = "receiver" BY <2>1, <2>2 DEF ReceiverKnows
  <2>3. CASE sc.kind # "receiver"
    <3>1. remote = <<>> /\ \A j \in Jobs : job[j].remote = 0 BY <2>3 DEF Inv, ReceiverKnows
    <3> QED BY <1>2, <2>3, <3>1 DEF ReceiverKnows, SameWork
  <2> QED BY <2>2, <2>3
<1>3. CASE Crash BY <1>1, <1>2, <1>3, Stops, CrashTyped
<1>4. CASE \/ RequestArrives \/ CreateRowFails \/ DisableTarget
           \/ \E j \in Jobs : CreateRow(j) \/ EnqueueRow(j) \/ PauseOrCancel(j) \/ ResumeOrRetry(j)
           \/ \E f \in Files : SourceRemoved(f) \/ OwnerWrites(f)
  <2>1. remote' = remote /\ \A j \in Jobs : Undisturbed(j) BY <1>4, OtherSteps
  <2> QED BY <1>2, <2>1 DEF Undisturbed
<1>5. ASSUME NEW j \in Jobs, Start(j) PROVE ReceiverKnows'
  <2>1. /\ Others(j) /\ job'[j].pc = "begin" /\ job'[j].status = "running"
        /\ job'[j].remote = 0 /\ remote' = remote
    BY <1>1, <1>5, Starts, StartTyped
  <2>2. Knows(job'[j], j, remote') BY <2>1 DEF Knows
  <2> QED BY <2>1, <2>2 DEF Inv, ReceiverKnows, Others
<1>6. ASSUME NEW j \in Jobs, ThreadStep(j) PROVE ReceiverKnows'
  <2>1. Others(j) BY <1>6, ThreadTyped
  <2>2. CASE sc.kind # "receiver"
    BY <1>6, <2>1, <2>2, ThreadKnowsNothing DEF Inv, ReceiverKnows, Others
  <2>3. CASE sc.kind = "receiver"
    <3>1. Knows(job'[j], j, remote') BY <1>6, <2>3, ThreadKnows
    <3>2. ASSUME NEW k \in Jobs \ {j} PROVE Knows(job'[k], k, remote')
      <4>1. Knows(job[k], k, remote) /\ Knows(job[j], j, remote) /\ job'[k] = job[k]
        BY <2>1, <2>3 DEF Others
      <4>2. Len(remote) <= Len(remote') /\ (job[k].remote # 0 => remote'[job[k].remote] = remote[job[k].remote])
        <5>1. CASE remote' = remote BY <1>1, <5>1
        <5>2. CASE remote' = Opened(j)
          <6>1. /\ Len(remote') = Len(remote) + 1
                /\ \A l \in 1..Len(remote) : remote'[l] = remote[l]
            BY <1>1, <5>2, Opens
          <6>2. job[k].remote # 0 => job[k].remote \in 1..Len(remote) BY <4>1 DEF Knows
          <6> QED BY <1>1, <6>1, <6>2
        <5>3. CASE /\ Mine(j) \in 1..Len(remote) /\ Len(remote') = Len(remote)
                   /\ \A l \in 1..Len(remote) \ {Mine(j)} : remote'[l] = remote[l]
          BY <1>1, <4>1, <5>3 DEF Knows, Mine
        <5> QED BY <1>6, <5>1, <5>2, <5>3, RemoteOfThread
      <4> QED BY <1>1, <4>1, <4>2, KnowsStays
    <3> QED BY <2>3, <3>1, <3>2 DEF ReceiverKnows
  <2> QED BY <2>2, <2>3
<1> QED BY <1>3, <1>4, <1>5, <1>6 DEF Next

\* A job of the receiver that is open after a step of its job's thread.
LEMMA OpenOfThread ==
  ASSUME Inv, sc.kind = "receiver", sc.events \cap {"lost", "crash"} = {},
         NEW j \in Jobs, ThreadStep(j),
         NEW n \in 1..Len(remote'), remote'[n].of = j, remote'[n].status = "open"
  PROVE  job'[j].pc \notin {"rest", "begin", "wait"} /\ job'[j].remote = n
<1> USE AtPlace DEF PCs, At, Mine
<1>1. /\ Typed /\ job[j] \in Row /\ Knows(job[j], j, remote) /\ sc.kind = "receiver"
      /\ remote \in Seq(Remote) /\ remote' \in Seq(Remote) /\ ~MayLose
  BY RemoteOfThread DEF Inv, Typed, MayLose
<1>2. ASSUME n \in 1..Len(remote), remote'[n] = remote[n]
      PROVE  Holds(j) /\ Mine(j) = n
  BY <1>1, <1>2 DEF Inv, NoOpenRemote
<1>3. ASSUME NEW pc \in PCs, To(j, pc)
      PROVE  job'[j].pc = pc /\ job'[j].remote = Mine(j)
  BY <1>1, <1>3, Goes DEF SameWork
<1>4. CASE Begin(j) \/ Acquire(j)
  BY <1>2, <1>4 DEF Begin, Acquire, Holds
<1>5. CASE ControlStop(j) \/ NoFileLeft(j)
  BY <1>1, <1>2, <1>3, <1>5 DEF ControlStop, NoFileLeft
<1>6. CASE NextFile(j) BY <1>1, <1>2, <1>6, Takes DEF NextFile
<1>7. CASE PostRemote(j)
  <2>1. job[j].remote = 0 BY <1>1, <1>7 DEF PostRemote, Knows
  <2>2. remote' = Opened(j) /\ n = Len(remote) + 1
    <3>1. remote' # remote BY <1>2, <2>1
    <3>2. remote' = Opened(j) BY <1>7, <3>1 DEF PostRemote
    <3>3. /\ Len(remote') = Len(remote) + 1
          /\ \A l \in 1..Len(remote) : remote'[l] = remote[l]
      BY <1>1, <3>2, Opens
    <3>4. n \notin 1..Len(remote) \/ n = 0 BY <1>2, <2>1, <3>3
    <3> QED BY <1>1, <3>2, <3>3, <3>4
  <2>3. Set(j, [job[j] EXCEPT !.pc = "next", !.remote = Len(remote) + 1,
                              !.left = source, !.listed = source])
    <3>1. remote' # remote BY <1>1, <2>2
    <3> QED BY <1>1, <1>7, <3>1 DEF PostRemote
  <2>4. Len(remote) + 1 \in Nat BY <1>1
  <2>5. job'[j].pc = "next" /\ job'[j].remote = Len(remote) + 1
    BY <1>1, <2>3, <2>4, Lists
  <2> QED BY <2>2, <2>5
<1>8. CASE Upload(j) \/ Complete(j) \/ TellFail(j)
  <2>1. Mine(j) \in 1..Len(remote) /\ job[j].remote # 0
    BY <1>1, <1>8 DEF Upload, Complete, TellFail, Knows
  <2>2. /\ Len(remote') = Len(remote)
        /\ \A k \in 1..Len(remote) \ {Mine(j)} : remote'[k] = remote[k]
    BY <1>8, RemoteOfThread DEF Upload, Complete, TellFail
  <2>3. Mine(j) = n BY <1>2, <2>1, <2>2
  <2>4. CASE Upload(j) BY <1>3, <2>3, <2>4 DEF Upload
  <2>5. CASE Complete(j) BY <1>3, <2>3, <2>5 DEF Complete, AfterError
  <2>6. ~TellFail(j) BY <1>1, <2>1, <2>3, StatusArrives DEF TellFail, Told
  <2> QED BY <1>8, <2>4, <2>5, <2>6
<1>9. ~WriteManifest(j)
  BY <1>1, <1>2 DEF WriteManifest, Knows
<1>10. ~(\/ ListFiles(j) \/ LookAndOpen(j) \/ CopyFails(j) \/ Link(j) \/ LinkUnsupported(j)
         \/ Rename(j) \/ RcloneCopies(j) \/ RcloneExits(j))
  BY <1>1 DEF ListFiles, LookAndOpen, CopyFails, Link, LinkUnsupported, Rename, RcloneCopies,
              RcloneExits, PlaceFits
<1> QED BY <1>4, <1>5, <1>6, <1>7, <1>8, <1>9, <1>10 DEF ThreadStep

\* No step leaves a remote file open that no job knows.
LEMMA NoOpenRemoteNext ==
  ASSUME Inv, Next, Typed', sc' = sc, ReceiverKnows'
  PROVE  NoOpenRemote'
<1> USE AtPlace
<1>1. Typed /\ remote \in Seq(Remote) /\ remote' \in Seq(Remote) BY DEF Inv, Typed
<1>2. SUFFICES ASSUME sc.events \cap {"lost", "crash"} = {}, NEW n \in 1..Len(remote'),
                      remote'[n].status = "open"
               PROVE  /\ job'[remote'[n].of].pc \notin {"rest", "begin", "wait"}
                      /\ job'[remote'[n].of].remote = n
  BY <1>1 DEF NoOpenRemote, Holds, Mine
<1>3. PICK k \in Jobs : k = remote'[n].of
  <2>1. remote'[n] \in Remote BY <1>1
  <2> QED BY <2>1 DEF Remote
<1>4. ASSUME remote' = remote
      PROVE  job[k].pc \notin {"rest", "begin", "wait"} /\ job[k].remote = n
  BY <1>1, <1>2, <1>3, <1>4 DEF Inv, NoOpenRemote, Holds, Mine
<1>5. ~Crash BY <1>2 DEF Crash
<1>6. CASE \/ RequestArrives \/ CreateRowFails \/ DisableTarget
           \/ \E j \in Jobs : CreateRow(j) \/ EnqueueRow(j) \/ PauseOrCancel(j) \/ ResumeOrRetry(j)
           \/ \E f \in Files : SourceRemoved(f) \/ OwnerWrites(f)
  BY <1>3, <1>4, <1>6, OtherSteps DEF Undisturbed, SameWork
<1>7. ASSUME NEW j \in Jobs, Start(j)
      PROVE  job'[k].pc \notin {"rest", "begin", "wait"} /\ job'[k].remote = n
  <2>1. Others(j) /\ job[j].status = "queued" /\ remote' = remote
    BY <1>1, <1>7, Starts, StartTyped
  <2>2. job[j].pc = "rest" BY <2>1 DEF WorkIsKept, Working
  <2> QED BY <1>3, <1>4, <2>1, <2>2 DEF Others
<1>8. ASSUME NEW j \in Jobs, ThreadStep(j)
      PROVE  job'[k].pc \notin {"rest", "begin", "wait"} /\ job'[k].remote = n
  <2>1. Others(j) BY <1>8, ThreadTyped
  <2>2. sc.kind = "receiver"
    BY <1>1, <1>8, ThreadKnowsNothing DEF Inv, ReceiverKnows
  <2>3. CASE k = j BY <1>2, <1>3, <1>8, <2>2, <2>3, OpenOfThread
  <2>4. CASE k # j
    <3>1. n \in 1..Len(remote) /\ remote'[n] = remote[n]
      <4>1. CASE remote' = remote BY <4>1
      <4>2. CASE remote' = Opened(j)
        <5>1. /\ Len(remote') = Len(remote) + 1
              /\ \A l \in 1..Len(remote) : remote'[l] = remote[l]
              /\ remote'[Len(remote) + 1] = [of |-> j, status |-> "open", files |-> {}]
          BY <1>1, <4>2, Opens
        <5>2. remote'[Len(remote) + 1].of = j BY <5>1
        <5> QED BY <1>1, <1>3, <2>4, <5>1, <5>2
      <4>3. CASE /\ Mine(j) \in 1..Len(remote) /\ Len(remote') = Len(remote)
                 /\ remote'[Mine(j)].of = remote[Mine(j)].of
                 /\ \A l \in 1..Len(remote) \ {Mine(j)} : remote'[l] = remote[l]
        <5>1. Knows(job[j], j, remote) BY <2>2
        <5>2. remote[Mine(j)].of = j
          BY <1>1, <4>3, <5>1 DEF Knows, Mine
        <5> QED BY <1>3, <2>4, <4>3, <5>2
      <4> QED BY <1>8, <4>1, <4>2, <4>3, RemoteOfThread
    <3>2. job[k].pc \notin {"rest", "begin", "wait"} /\ job[k].remote = n
      BY <1>1, <1>2, <1>3, <3>1 DEF Inv, NoOpenRemote, Holds, Mine
    <3> QED BY <2>1, <2>4, <3>2 DEF Others
  <2> QED BY <2>3, <2>4
<1> QED BY <1>3, <1>5, <1>6, <1>7, <1>8 DEF Next

-----------------------------------------------------------------------------
(* The invariant.                                                          *)

\* Every step leaves the rows as their threads have them.
LEMMA RowsFitNext ==
  ASSUME Inv, Next, sc' = sc
  PROVE  RowsFit'
<1> USE AtPlace
<1>1. SUFFICES ASSUME NEW k \in Jobs PROVE WorkIsKept(job'[k]) /\ PlaceFits(job'[k], sc)
  BY DEF RowsFit
<1>2. WorkIsKept(job[k]) /\ PlaceFits(job[k], sc) /\ Typed BY DEF Inv
<1>3. CASE Crash
  <2>1. /\ SameWork(k) /\ job'[k].pc = "rest"
        /\ job'[k].status = "done" => job[k].status = "done"
    BY <1>2, <1>3, Stops
  <2> QED BY <1>2, <2>1 DEF SameWork, WorkIsKept, PlaceFits, InHand
<1>4. CASE \/ RequestArrives \/ CreateRowFails \/ DisableTarget
           \/ \E j \in Jobs : CreateRow(j) \/ EnqueueRow(j) \/ PauseOrCancel(j) \/ ResumeOrRetry(j)
           \/ \E f \in Files : SourceRemoved(f) \/ OwnerWrites(f)
  <2>1. Undisturbed(k) BY <1>4, OtherSteps
  <2> QED BY <1>2, <2>1 DEF Undisturbed, SameWork, WorkIsKept, PlaceFits
<1>5. ASSUME NEW j \in Jobs, Start(j) PROVE WorkIsKept(job'[k]) /\ PlaceFits(job'[k], sc)
  <2>1. /\ Others(j) /\ job'[j].pc = "begin" /\ job'[j].status = "running"
        /\ job'[j].run # 0 /\ job'[j].left = {} /\ job'[j].listed = {}
    BY <1>2, <1>5, Starts
  <2>2. CASE k = j BY <2>1, <2>2 DEF WorkIsKept, PlaceFits, Working, InHand
  <2>3. CASE k # j BY <1>2, <2>1, <2>3 DEF Others
  <2> QED BY <2>2, <2>3
<1>6. ASSUME NEW j \in Jobs, ThreadStep(j) PROVE WorkIsKept(job'[k]) /\ PlaceFits(job'[k], sc)
  BY <1>2, <1>6, ThreadTyped, ThreadFits DEF Others
<1> QED BY <1>3, <1>4, <1>5, <1>6 DEF Next

\* No step takes away what a job has copied.
LEMMA CopiedNext ==
  ASSUME Inv, Next, sc' = sc
  PROVE  CopiedIsThere'
<1> USE AtPlace
<1>1. SUFFICES ASSUME NEW k \in Jobs, sc.kind = "mount" PROVE Copied(job'[k], dest')
  BY DEF CopiedIsThere
<1>2. /\ Copied(job[k], dest) /\ Typed /\ job[k].listed \subseteq Files
      /\ job[k].status = "done" => job[k].pc = "rest"
  BY <1>1 DEF Inv, Row, WorkIsKept, Working
<1>3. ASSUME SameWork(k), job'[k].pc = "rest" \/ job'[k].pc = job[k].pc,
             job'[k].status = "done" => job[k].status = "done",
             \A f \in Files : Exists(f) => dest'[f] # "none"
      PROVE  Copied(job'[k], dest')
  BY <1>2, <1>3, CopiedStays DEF SameWork, Exists
<1>4. CASE Crash
  BY <1>2, <1>3, <1>4, Stops, CrashTyped DEF Exists
<1>5. CASE \/ RequestArrives \/ CreateRowFails \/ DisableTarget
           \/ \E j \in Jobs : CreateRow(j) \/ EnqueueRow(j) \/ PauseOrCancel(j) \/ ResumeOrRetry(j)
           \/ \E f \in Files : SourceRemoved(f) \/ OwnerWrites(f)
  BY <1>3, <1>5, OtherSteps DEF Undisturbed
<1>6. ASSUME NEW j \in Jobs, Start(j) PROVE Copied(job'[k], dest')
  <2>1. /\ Others(j) /\ job'[j].pc = "begin" /\ job'[j].status = "running" /\ dest' = dest
    BY <1>2, <1>6, Starts, StartTyped
  <2>2. CASE k = j BY <2>1, <2>2 DEF Copied
  <2>3. CASE k # j BY <1>2, <2>1, <2>3 DEF Others
  <2> QED BY <2>2, <2>3
<1>7. ASSUME NEW j \in Jobs, ThreadStep(j) PROVE Copied(job'[k], dest')
  <2>1. CASE k = j BY <1>1, <1>7, <2>1, ThreadCopied
  <2>2. CASE k # j
    <3>1. job'[k] = job[k] BY <1>7, <2>2, ThreadTyped DEF Others
    <3> QED BY <1>3, <1>7, <3>1, FolderOfThread DEF SameWork
  <2> QED BY <2>1, <2>2
<1> QED BY <1>4, <1>5, <1>6, <1>7 DEF Next

\* The invariant holds at first.
LEMMA InitInv == ASSUME Init PROVE Inv
<1>1. Typed
  <2>1. job \in [Jobs -> Row] BY NewJobTyped DEF Init
  <2> QED BY <2>1 DEF Init, Typed
<1>2. \A j \in Jobs : job[j] = NewJob BY DEF Init
<1>3. RowsFit BY <1>2 DEF RowsFit, WorkIsKept, PlaceFits, NewJob, InHand
<1>4. CopiedIsThere BY <1>2 DEF CopiedIsThere, Copied, NewJob
<1>5. ReceiverKnows BY <1>2 DEF ReceiverKnows, Knows, NewJob, Init
<1>6. NoOpenRemote BY DEF NoOpenRemote, Init
<1> QED BY <1>1, <1>3, <1>4, <1>5, <1>6 DEF Inv

\* Every step keeps the invariant.
LEMMA NextInv == ASSUME Inv, [Next]_vars PROVE Inv'
<1>1. CASE Next
  <2>1. Typed' /\ sc' = sc
    BY <1>1, OtherSteps, CrashTyped, StartTyped, ThreadTyped DEF Next
  <2> QED
    BY <1>1, <2>1, RowsFitNext, CopiedNext, ReceiverKnowsNext, NoOpenRemoteNext DEF Inv
<1>2. CASE UNCHANGED vars
  BY <1>2 DEF vars, Inv, Typed, RowsFit, CopiedIsThere, ReceiverKnows, NoOpenRemote, Holds, Mine
<1> QED BY <1>1, <1>2

\* The invariant always holds.
LEMMA InvAlways == Spec => []Inv
<1>1. Init => Inv BY InitInv
<1>2. Inv /\ [Next]_vars => Inv' BY NextInv
<1> QED BY <1>1, <1>2, PTL DEF Spec

(* A transfer is marked done only when every file it listed is at the      *)
(* mounted folder, or the receiver has completed this job's own job with   *)
(* exactly those files; and no receiver keeps a job open that rests here.  *)
THEOREM RowsAgree == Spec => []RowAgreesWithTarget
<1>1. Inv => RowAgreesWithTarget
  <2> SUFFICES ASSUME Inv, NEW j \in Jobs, job[j].status = "done"
               PROVE  /\ sc.kind = "mount" => \A f \in job[j].listed : Exists(f)
                      /\ sc.kind = "receiver" =>
                           remote[Mine(j)].status = "complete" /\ remote[Mine(j)].files = job[j].listed
    BY DEF Inv, RowAgreesWithTarget, DoneIsThere
  <2>1. job[j].left = {} /\ job[j].pc = "rest" BY AtPlace DEF WorkIsKept, Working
  <2>2. CASE sc.kind = "mount"
    <3>1. Copied(job[j], dest) BY <2>2, AtPlace
    <3> QED BY <2>1, <2>2, <3>1 DEF Copied, Exists
  <2>3. CASE sc.kind = "receiver"
    <3>1. Knows(job[j], j, remote) BY <2>3, AtPlace
    <3> QED BY <2>3, <3>1 DEF Knows, Mine
  <2> QED BY <2>2, <2>3
<1> QED BY <1>1, InvAlways, PTL

-----------------------------------------------------------------------------
(* The slots.                                                              *)

Waiting == {"rest", "begin", "wait"}

\* A step of one thread moves only that thread in or out of the holders.
LEMMA HoldersMove ==
  ASSUME NEW j \in Jobs, Others(j)
  PROVE  Holders' = IF job'[j].pc \in Waiting THEN Holders \ {j} ELSE Holders \cup {j}
<1>1. \A k \in Jobs \ {j} : Holds(k)' <=> Holds(k) BY DEF Others, Holds
<1>2. Holds(j)' <=> job'[j].pc \notin Waiting BY DEF Holds, Waiting
<1> QED BY <1>1, <1>2 DEF Holders

\* A thread that ends gives back the slot it holds.
LEMMA EndGivesBack ==
  ASSUME Inv, SlotsCount, NEW j \in Jobs, NEW e \in Errors, Leaves(j, e), sc' = sc
  PROVE  SlotsCount'
<1>1. Others(j) /\ job'[j].pc = "rest" BY Ends DEF Inv
<1>2. Holders' = Holders \ {j} BY <1>1, HoldersMove DEF Waiting
<1>3. Holds(j) <=> j \in Holders BY DEF Holders
<1>4. free' = IF j \in Holders THEN free + 1 ELSE free BY <1>3 DEF Leaves, Released
<1>5. /\ IsFiniteSet(Holders')
      /\ Cardinality(Holders') = IF j \in Holders THEN Cardinality(Holders) - 1 ELSE Cardinality(Holders)
  BY <1>2, FS_RemoveElement DEF SlotsCount
<1>6. Cardinality(Holders) \in Nat BY FS_CardinalityType DEF SlotsCount
<1>7. sc.slots \in Nat BY ScenarioAssumption DEF Inv, Typed
<1> QED BY <1>4, <1>5, <1>6, <1>7 DEF SlotsCount

\* A thread that stays on its side of the semaphore changes nothing.
LEMMA StayKeeps ==
  ASSUME SlotsCount, NEW j \in Jobs, Others(j), sc' = sc, free' = free,
         job'[j].pc \in Waiting <=> job[j].pc \in Waiting
  PROVE  SlotsCount'
<1>1. Holders' = Holders BY HoldersMove DEF Holders, Holds, Waiting
<1> QED BY <1>1 DEF SlotsCount

\* A thread takes or gives back its own slot and no other.
LEMMA ThreadSlots ==
  ASSUME Inv, SlotsCount, NEW j \in Jobs, ThreadStep(j)
  PROVE  SlotsCount'
<1> USE AtPlace DEF At, PCs
<1>1. Typed /\ Others(j) /\ sc' = sc BY ThreadTyped DEF Inv
<1>2. ASSUME NEW pc \in PCs, To(j, pc), free' = free, pc \in Waiting <=> job[j].pc \in Waiting
      PROVE  SlotsCount'
  BY <1>1, <1>2, Goes, StayKeeps
<1>3. CASE Acquire(j)
  <2>1. job'[j].pc \in {"post", "list"} BY <1>1, <1>3, Goes DEF Acquire
  <2>2. Holders' = Holders \cup {j} BY <1>1, <2>1, HoldersMove DEF Waiting
  <2>3. j \notin Holders BY <1>3 DEF Acquire, Holders, Holds
  <2>4. IsFiniteSet(Holders') /\ Cardinality(Holders') = Cardinality(Holders) + 1
    BY <2>2, <2>3, FS_AddElement DEF SlotsCount
  <2>5. Cardinality(Holders) \in Nat BY FS_CardinalityType DEF SlotsCount
  <2> QED BY <1>1, <1>3, <2>4, <2>5 DEF Acquire, SlotsCount
<1>4. CASE Begin(j)
  BY <1>1, <1>2, <1>4, EndGivesBack DEF Begin, Waiting, Errors
<1>5. CASE ListFiles(j)
  <2>1. CASE Leaves(j, "empty") BY <1>1, <2>1, EndGivesBack DEF Errors
  <2>2. CASE UNCHANGED free /\ Set(j, [job[j] EXCEPT !.pc = "next", !.left = source, !.listed = source])
    <3>1. job' = [job EXCEPT ![j] = [job[j] EXCEPT !.pc = "next", !.left = source, !.listed = source]]
      BY <2>2 DEF Set
    <3>2. job'[j] = [job[j] EXCEPT !.pc = "next", !.left = source, !.listed = source]
      BY <1>1, <3>1 DEF Typed
    <3>3. job'[j].pc = "next" BY <3>2 DEF Row
    <3> QED BY <1>1, <1>5, <2>2, <3>3, StayKeeps DEF ListFiles, Waiting
  <2> QED BY <1>5, <2>1, <2>2 DEF ListFiles
<1>6. CASE ControlStop(j) \/ NoFileLeft(j)
  BY <1>1, <1>2, <1>6, EndGivesBack DEF ControlStop, NoFileLeft, Waiting, Errors
<1>7. CASE NextFile(j)
  <2>1. job'[j].pc = sc.kind BY <1>1, <1>7, Takes
  <2> QED BY <1>1, <1>7, <2>1, StayKeeps DEF NextFile, Waiting
<1>8. CASE LookAndOpen(j) \/ CopyFails(j)
  BY <1>1, <1>2, <1>8, EndGivesBack DEF LookAndOpen, CopyFails, ExistingFile, Waiting, Errors
<1>9. CASE Link(j) \/ LinkUnsupported(j) \/ Rename(j)
  BY <1>1, <1>2, <1>9, EndGivesBack
  DEF Link, LinkUnsupported, Rename, ExistingFile, Waiting, Errors
<1>10. CASE RcloneCopies(j) \/ RcloneExits(j)
  BY <1>1, <1>2, <1>10, EndGivesBack DEF RcloneCopies, RcloneExits, Waiting, Errors
<1>11. CASE PostRemote(j)
  <2>1. CASE Leaves(j, "receiver") BY <1>1, <2>1, EndGivesBack DEF Errors
  <2>2. CASE UNCHANGED free /\ Set(j, [job[j] EXCEPT !.pc = "next", !.remote = Len(remote) + 1,
                                       !.left = source, !.listed = source])
    <3>1. Len(remote) + 1 \in Nat BY <1>1 DEF Typed
    <3>2. job'[j].pc = "next" BY <1>1, <2>2, <3>1, Lists
    <3> QED BY <1>1, <1>11, <2>2, <3>2, StayKeeps DEF PostRemote, Waiting
  <2> QED BY <1>11, <2>1, <2>2 DEF PostRemote
<1>12. CASE Upload(j) \/ Complete(j)
  BY <1>2, <1>12 DEF Upload, Complete, AfterError, Waiting
<1>13. CASE TellFail(j) \/ WriteManifest(j)
  BY <1>1, <1>13, EndGivesBack DEF TellFail, WriteManifest, Errors
<1> QED
  BY <1>3, <1>4, <1>5, <1>6, <1>7, <1>8, <1>9, <1>10, <1>11, <1>12, <1>13 DEF ThreadStep

\* Every step leaves each slot free or held.
LEMMA SlotsNext ==
  ASSUME Inv, SlotsCount, [Next]_vars
  PROVE  SlotsCount'
<1>1. Typed BY DEF Inv
<1>2. ASSUME UNCHANGED <<sc, free>>, \A j \in Jobs : job'[j].pc = job[j].pc
      PROVE  SlotsCount'
  <2>1. Holders' = Holders BY <1>2 DEF Holders, Holds
  <2> QED BY <1>2, <2>1 DEF SlotsCount
<1>3. CASE Crash
  <2>1. \A j \in Jobs : job'[j].pc = "rest" BY <1>1, <1>3, Stops
  <2>2. Holders' = {} BY <2>1 DEF Holders, Holds
  <2>3. sc.slots \in Nat BY ScenarioAssumption DEF Inv, Typed
  <2>4. IsFiniteSet(Holders') /\ Cardinality(Holders') = 0 BY <2>2, FS_EmptySet
  <2>5. free' = sc.slots /\ sc' = sc BY <1>3 DEF Crash
  <2> QED BY <2>3, <2>4, <2>5 DEF SlotsCount
<1>4. CASE \/ RequestArrives \/ CreateRowFails \/ DisableTarget
           \/ \E j \in Jobs : CreateRow(j) \/ EnqueueRow(j) \/ PauseOrCancel(j) \/ ResumeOrRetry(j)
           \/ \E f \in Files : SourceRemoved(f) \/ OwnerWrites(f)
  <2>1. UNCHANGED <<sc, free>>
    BY <1>4 DEF RequestArrives, CreateRowFails, DisableTarget, CreateRow, EnqueueRow,
                PauseOrCancel, ResumeOrRetry, SourceRemoved, OwnerWrites
  <2> QED BY <1>2, <1>4, <2>1, OtherSteps DEF Undisturbed
<1>5. ASSUME NEW j \in Jobs, Start(j) PROVE SlotsCount'
  <2>1. Others(j) /\ job[j].status = "queued" /\ job'[j].pc = "begin" BY <1>1, <1>5, Starts
  <2>2. job[j].pc = "rest" BY <2>1, AtPlace DEF WorkIsKept, Working
  <2> QED BY <1>5, <2>1, <2>2, StayKeeps DEF Start, Waiting
<1>6. ASSUME NEW j \in Jobs, ThreadStep(j) PROVE SlotsCount' BY <1>6, ThreadSlots
<1>7. CASE UNCHANGED vars BY <1>2, <1>7 DEF vars
<1> QED BY <1>3, <1>4, <1>5, <1>6, <1>7 DEF Next

(* The free slots of TRANSFER_COPY_SEMAPHORE and the threads that hold one *)
(* are always as many as there are, however a thread ends; a restart frees *)
(* them all.                                                               *)
THEOREM SlotsCounted == Spec => []SlotsCount
<1>1. Init => SlotsCount
  <2> SUFFICES ASSUME Init PROVE SlotsCount OBVIOUS
  <2>1. Holders = {} BY DEF Init, NewJob, Holders, Holds
  <2>2. sc.slots \in Nat BY ScenarioAssumption DEF Init
  <2> QED BY <2>1, <2>2, FS_EmptySet DEF Init, SlotsCount
<1>2. Inv /\ SlotsCount /\ [Next]_vars => SlotsCount' BY SlotsNext
<1> QED BY <1>1, <1>2, InvAlways, PTL DEF Spec

(* Every variable keeps its type and its bounds.                           *)
THEOREM Typing == Spec => []TypeOK
<1>1. Inv /\ SlotsCount => TypeOK
  <2> SUFFICES ASSUME Inv, SlotsCount PROVE TypeOK OBVIOUS
  <2>1. free \in 0..sc.slots
    <3>1. Cardinality(Holders) \in Nat BY FS_CardinalityType DEF SlotsCount
    <3>2. sc.slots \in Nat BY ScenarioAssumption DEF Inv, Typed
    <3> QED BY <3>1, <3>2 DEF SlotsCount
  <2>2. ASSUME NEW j \in Jobs
        PROVE  /\ job[j].run \in 0..MaxRuns /\ job[j].listed \subseteq Files
               /\ job[j].left \subseteq job[j].listed /\ job[j].remote \in 0..Len(remote)
    <3>1. job[j] \in Row /\ WorkIsKept(job[j]) BY AtPlace
    <3>2. Len(remote) \in Nat BY DEF Inv, Typed
    <3>3. job[j].remote \in 0..Len(remote)
      BY <3>1, <3>2 DEF Inv, ReceiverKnows, Knows, Row
    <3> QED BY <3>1, <3>3 DEF Row, WorkIsKept
  <2> QED BY <2>1, <2>2 DEF Inv, Typed, TypeOK
<1> QED BY <1>1, InvAlways, SlotsCounted, PTL

-----------------------------------------------------------------------------
(* No file is replaced.                                                    *)

\* With one slot there is one holder.
LEMMA OneHolder ==
  ASSUME SlotsCount, sc.slots = 1, NEW j \in Holders, NEW k \in Holders
  PROVE  j = k
<1>1. SUFFICES ASSUME j # k PROVE FALSE OBVIOUS
<1>2. IsFiniteSet({j}) /\ Cardinality({j}) = 1 BY FS_Singleton
<1>3. Cardinality({j} \cup {k}) = 2 BY <1>1, <1>2, FS_AddElement
<1>4. Cardinality({j} \cup {k}) <= Cardinality(Holders) BY FS_Subset DEF SlotsCount
<1>5. PICK n : n = Cardinality(Holders) OBVIOUS
<1>6. 2 <= n BY <1>3, <1>4, <1>5
<1>7. n \in Nat BY <1>5, FS_CardinalityType DEF SlotsCount
<1>8. free \in Nat /\ free + n = 1 BY <1>5 DEF SlotsCount
<1> QED BY <1>6, <1>7, <1>8

\* What a step writes to a mounted folder.
LEMMA Writes ==
  ASSUME Inv, sc.kind = "mount", [Next]_vars, dest' # dest
  PROVE  \/ \E j \in Jobs : Link(j) \/ Rename(j)
         \/ \E f \in Files : OwnerWrites(f)
<1>1. ASSUME NEW j \in Jobs PROVE ~RcloneCopies(j)
  BY <1>1, AtPlace DEF RcloneCopies, At, PlaceFits
<1>2. ASSUME NEW j \in Jobs, ThreadStep(j) PROVE Link(j) \/ Rename(j)
  BY <1>1, <1>2
  DEF ThreadStep, Begin, Acquire, ListFiles, ControlStop, NextFile, NoFileLeft, LookAndOpen,
      CopyFails, LinkUnsupported, RcloneExits, PostRemote, Upload, Complete, TellFail,
      WriteManifest
<1> QED
  BY <1>2 DEF Next, vars, RequestArrives, CreateRowFails, DisableTarget, Crash, CreateRow,
              EnqueueRow, Start, PauseOrCancel, ResumeOrRetry, SourceRemoved

\* Only a look at the name leads to the rename.
LEMMA RenameIsReached ==
  ASSUME Inv, [Next]_vars, NEW j \in Jobs, job'[j].pc = "rename"
  PROVE  \/ LinkUnsupported(j) /\ SameWork(j) /\ ~Exists(job[j].file)
         \/ At(j, "rename") /\ job'[j].file = job[j].file
<1>1. Typed BY DEF Inv
<1>2. ASSUME SameWork(j), job'[j].pc = job[j].pc
      PROVE  At(j, "rename") /\ job'[j].file = job[j].file
  BY <1>2 DEF SameWork, At
<1>3. ~Crash BY <1>1, Stops
<1>4. CASE \/ RequestArrives \/ CreateRowFails \/ DisableTarget
           \/ \E k \in Jobs : CreateRow(k) \/ EnqueueRow(k) \/ PauseOrCancel(k) \/ ResumeOrRetry(k)
           \/ \E f \in Files : SourceRemoved(f) \/ OwnerWrites(f)
  BY <1>2, <1>4, OtherSteps DEF Undisturbed
<1>5. ASSUME NEW k \in Jobs, Start(k) PROVE At(j, "rename") /\ job'[j].file = job[j].file
  BY <1>1, <1>2, <1>5, Starts DEF Others, SameWork
<1>6. ASSUME NEW k \in Jobs \ {j}, ThreadStep(k)
      PROVE  At(j, "rename") /\ job'[j].file = job[j].file
  BY <1>2, <1>6, ThreadTyped DEF Others, SameWork
<1>7. ASSUME ThreadStep(j)
      PROVE  LinkUnsupported(j) /\ SameWork(j) /\ ~Exists(job[j].file)
  <2>1. CASE \E pc \in PCs : To(j, pc) /\ (pc = "rename" => LinkUnsupported(j))
    <3>1. PICK pc \in PCs : To(j, pc) /\ (pc = "rename" => LinkUnsupported(j)) BY <2>1
    <3>2. SameWork(j) /\ job'[j].pc = pc BY <1>1, <3>1, Goes
    <3>3. LinkUnsupported(j) BY <3>1, <3>2
    <3>4. ASSUME Exists(job[j].file) PROVE FALSE
      <4>1. To(j, "next") \/ Leaves(j, "exists")
        BY <3>3, <3>4 DEF LinkUnsupported, ExistingFile
      <4>2. "next" \in PCs /\ "exists" \in Errors BY DEF PCs, Errors
      <4>3. job'[j].pc \in {"next", "rest"} BY <1>1, <4>1, <4>2, Goes, Ends
      <4> QED BY <4>3
    <3> QED BY <3>2, <3>3, <3>4
  <2>2. ~Leaves(j, "none") BY <1>1, Ends DEF Errors
  <2>3. ASSUME NEW e \in AllErrors PROVE ~Leaves(j, e)
    <3>1. e \in Errors BY DEF AllErrors, Errors
    <3> QED BY <1>1, <3>1, Ends
  <2>4. ASSUME Set(j, [job[j] EXCEPT !.pc = "next", !.left = source, !.listed = source])
        PROVE  FALSE
    <3>1. job' = [job EXCEPT ![j] = [job[j] EXCEPT !.pc = "next", !.left = source, !.listed = source]]
      BY <2>4 DEF Set
    <3>2. job'[j] = [job[j] EXCEPT !.pc = "next", !.left = source, !.listed = source]
      BY <1>1, <3>1 DEF Typed
    <3> QED BY <3>2, AtPlace DEF Row
  <2>5. ASSUME Set(j, [job[j] EXCEPT !.pc = "next", !.remote = Len(remote) + 1,
                                     !.left = source, !.listed = source])
        PROVE  FALSE
    <3>1. Len(remote) + 1 \in Nat BY <1>1 DEF Typed
    <3> QED BY <1>1, <2>5, <3>1, Lists
  <2>6. ~NextFile(j) BY <1>1, Takes, AtPlace
  <2> QED BY <1>7, <2>1, <2>2, <2>3, <2>4, <2>5, <2>6, RowOfThread
<1>8. CASE UNCHANGED vars BY <1>2, <1>8 DEF vars, SameWork
<1> QED BY <1>3, <1>4, <1>5, <1>6, <1>7, <1>8 DEF Next

\* Between the look at a name and the rename onto it nobody else writes.
LEMMA RenameIsClearNext ==
  ASSUME WritersApart, Inv, SlotsCount, RenameIsClear, [Next]_vars
  PROVE  RenameIsClear'
<1>1. SUFFICES ASSUME NEW j \in Jobs, job'[j].pc = "rename" PROVE dest'[job'[j].file] = "none"
  BY DEF RenameIsClear, At, Exists
<1>2. CASE LinkUnsupported(j) /\ SameWork(j) /\ ~Exists(job[j].file)
  BY <1>2 DEF LinkUnsupported, SameWork, Exists
<1>3. CASE At(j, "rename") /\ job'[j].file = job[j].file
  <2>1. /\ job[j].pc = "rename" /\ dest[job[j].file] = "none" /\ sc.kind = "mount" /\ ~sc.links
    BY <1>3, AtPlace DEF RenameIsClear, At, Exists, PlaceFits
  <2>2. sc.slots = 1 /\ "owner" \notin sc.events BY <2>1 DEF WritersApart, Inv, Typed
  <2>3. ASSUME dest' # dest PROVE FALSE
    <3>1. PICK k \in Jobs : Rename(k)
      BY <2>1, <2>2, <2>3, Writes DEF Link, OwnerWrites
    <3>2. j \in Holders /\ k \in Holders
      BY <2>1, <3>1 DEF Holders, Holds, Rename, At
    <3>3. j = k BY <2>2, <3>2, OneHolder
    <3>4. job'[k].pc = "next" BY <3>1, Goes DEF Rename, Inv, PCs
    <3> QED BY <1>1, <3>3, <3>4
  <2> QED BY <1>3, <2>1, <2>3
<1> QED BY <1>1, <1>2, <1>3, RenameIsReached

(* A copy to a mounted folder never replaces a file, neither one the owner *)
(* wrote nor one of a concurrent job, if names are taken by hard links or  *)
(* there is one slot and no other writer.                                  *)
THEOREM NothingIsReplaced == ASSUME WritersApart PROVE Spec => NeverReplaced
<1>1. Init => RenameIsClear BY DEF Init, NewJob, RenameIsClear, At
<1>2. Inv /\ SlotsCount /\ RenameIsClear /\ [Next]_vars => RenameIsClear'
  BY RenameIsClearNext
<1>3. Inv /\ RenameIsClear /\ [Next]_vars =>
        (sc.kind = "mount" => \A f \in Files : Exists(f) => dest'[f] = dest[f])
  <2> SUFFICES ASSUME Inv, RenameIsClear, [Next]_vars, sc.kind = "mount",
                      NEW f \in Files, Exists(f)
               PROVE  dest'[f] = dest[f]
    OBVIOUS
  <2>1. dest \in [Files -> Jobs \cup {"none", "owner"}] BY DEF Inv, Typed
  <2>2. ASSUME NEW j \in Jobs, Link(j) PROVE dest'[f] = dest[f]
    BY <2>1, <2>2 DEF Link, Absent
  <2>3. ASSUME NEW j \in Jobs, Rename(j) PROVE dest'[f] = dest[f]
    BY <2>1, <2>3 DEF Rename, RenameIsClear
  <2>4. ASSUME NEW g \in Files, OwnerWrites(g) PROVE dest'[f] = dest[f]
    BY <2>1, <2>4 DEF OwnerWrites
  <2> QED BY <2>2, <2>3, <2>4, Writes
<1>4. Spec => []RenameIsClear BY <1>1, <1>2, InvAlways, SlotsCounted, PTL DEF Spec
<1> QED BY <1>3, <1>4, InvAlways, PTL DEF Spec, NeverReplaced

-----------------------------------------------------------------------------
(* Loops.                                                                  *)

\* A set that has 0 and goes on from each number has them all.
LEMMA ReachesAll ==
  ASSUME NEW n \in Nat, NEW T, 0 \in T, \A i \in 1..n : i - 1 \in T => i \in T
  PROVE  \A i \in 0..n : i \in T
<1> DEFINE B == {i \in 0..n : i \notin T}
<1> SUFFICES ASSUME B # {} PROVE FALSE
  OBVIOUS
<1>1. IsWellFoundedOn(OpToRel(<, Nat), Nat)
  BY NatLessThanWellFounded
<1>2. B \subseteq Nat
  OBVIOUS
<1>3. PICK x \in B : \A y \in B : ~(<<y, x>> \in OpToRel(<, Nat))
  <2> HIDE DEF B
  <2> QED BY <1>1, <1>2, WFMin
<1>4. \A y \in B : ~(y < x)
  BY <1>2, <1>3 DEF OpToRel
<1>5. x \in 1..n /\ x - 1 \in 0..n /\ x - 1 < x
  OBVIOUS
<1>6. x - 1 \in T
  BY <1>4, <1>5
<1> QED BY <1>5, <1>6

\* A path but its last name, and with that name again.
LEMMA FrontIs ==
  ASSUME NEW S, NEW p \in Seq(S), p # <<>>
  PROVE  /\ Len(p) \in Nat \ {0}
         /\ Front(p) \in Seq(S) /\ Len(Front(p)) = Len(p) - 1
         /\ \A i \in 1..(Len(p) - 1) : Front(p)[i] = p[i]
         /\ Last(p) \in S /\ Append(Front(p), Last(p)) = p
<1> DEFINE n == Len(p)
           q == SubSeq(p, 1, n - 1)
<1>1. n \in Nat \ {0} /\ \A i \in 1..n : p[i] \in S
  OBVIOUS
<1>2. \A i \in 1..(n - 1) : p[i] \in S
  BY <1>1
<1>3. q \in Seq(S) /\ Len(q) = n - 1 /\ \A i \in 1..(n - 1) : q[i] = p[i]
  <2> DEFINE k == n - 1
  <2>1. k \in Int /\ 1 \in Int /\ \A i \in 1..k : p[i] \in S
    BY <1>1, <1>2
  <2>2. /\ SubSeq(p, 1, k) \in Seq(S)
        /\ Len(SubSeq(p, 1, k)) = IF 1 <= k THEN k - 1 + 1 ELSE 0
        /\ \A i \in 1..(k - 1 + 1) : SubSeq(p, 1, k)[i] = p[1 + i - 1]
    <3> HIDE DEF k, n
    <3> QED BY <2>1, SubSeqProperties
  <2>3. k \in Nat
    BY <1>1
  <2>4. Len(SubSeq(p, 1, k)) = k /\ \A i \in 1..k : SubSeq(p, 1, k)[i] = p[i]
    <3>1. \A i \in 1..k : i \in 1..(k - 1 + 1) /\ 1 + i - 1 = i
      BY <2>3
    <3> HIDE DEF k
    <3> QED BY <2>2, <2>3, <3>1
  <2> QED BY <2>2, <2>4
<1>4. p[n] \in S
  BY <1>1
<1>5. Append(q, p[n]) = p
  <2> HIDE DEF q, n
  <2>1. Append(q, p[n]) \in Seq(S) /\ Len(Append(q, p[n])) = n
    BY <1>1, <1>3, <1>4
  <2>2. \A i \in 1..n : Append(q, p[n])[i] = p[i]
    BY <1>1, <1>3, <1>4
  <2> QED BY <2>1, <2>2, SeqEqual DEF n
<1> QED BY <1>1, <1>3, <1>4, <1>5 DEF Front, Last

\* Where the prefixes of a path lead.
IsTrail(f, tr, p) ==
  f = [i \in 0..Len(p) |-> IF i = 0 THEN <<>> ELSE Followed(tr, Append(f[i - 1], p[i]))]

\* Such a walk exists for every path.
LEMMA TrailExists == ASSUME NEW tr, NEW p, Len(p) \in Nat PROVE \E f : IsTrail(f, tr, p)
<1> DEFINE n == Len(p)
           T == {m \in 0..n : \E f : f = [i \in 0..m |-> IF i = 0 THEN <<>> ELSE Followed(tr, Append(f[i - 1], p[i]))]}
<1>1. 0 \in T
  <2> DEFINE f == [i \in 0..0 |-> <<>>]
  <2>1. f = [i \in 0..0 |-> IF i = 0 THEN <<>> ELSE Followed(tr, Append(f[i - 1], p[i]))]
    OBVIOUS
  <2> HIDE DEF f
  <2>2. 0 \in 0..n
    OBVIOUS
  <2> QED BY <2>1, <2>2
<1>2. ASSUME NEW m \in 1..n, m - 1 \in T PROVE m \in T
  <2>1. PICK f : f = [i \in 0..(m - 1) |-> IF i = 0 THEN <<>> ELSE Followed(tr, Append(f[i - 1], p[i]))]
    BY <1>2
  <2> DEFINE g == [i \in 0..m |-> IF i < m THEN f[i] ELSE Followed(tr, Append(f[m - 1], p[m]))]
             h == [i \in 0..m |-> IF i = 0 THEN <<>> ELSE Followed(tr, Append(g[i - 1], p[i]))]
  <2>2. ASSUME NEW i \in 0..m PROVE g[i] = h[i]
    <3>1. CASE i < m
      <4>1. f[i] = IF i = 0 THEN <<>> ELSE Followed(tr, Append(f[i - 1], p[i]))
        BY <2>1, <3>1
      <4>2. i # 0 => g[i - 1] = f[i - 1]
        OBVIOUS
      <4> QED BY <4>1, <4>2, <3>1
    <3>2. CASE i = m
      BY <3>2
    <3> QED BY <3>1, <3>2
  <2>3. g = [i \in 0..m |-> IF i = 0 THEN <<>> ELSE Followed(tr, Append(g[i - 1], p[i]))]
    <3>1. g = h
      BY <2>2
    <3> QED BY <3>1
  <2>4. m \in 0..n
    OBVIOUS
  <2> HIDE DEF g
  <2> QED BY <2>3, <2>4
<1>3. n \in T
  <2> HIDE DEF T
  <2>1. n \in Nat /\ \A m \in 1..n : m - 1 \in T => m \in T
    BY <1>2
  <2>2. \A m \in 0..n : m \in T
    <3> HIDE DEF n
    <3> QED BY <1>1, <2>1, ReachesAll
  <2> QED BY <2>1, <2>2
<1> QED BY <1>3 DEF IsTrail

\* A path resolves to the end of its walk.
LEMMA ResolvedByTrail ==
  ASSUME NEW tr, NEW p, Len(p) \in Nat
  PROVE  \E f : IsTrail(f, tr, p) /\ Resolved(tr, p) = f[Len(p)]
<1> DEFINE at[i \in 0..Len(p)] == IF i = 0 THEN <<>> ELSE Followed(tr, Append(at[i - 1], p[i]))
<1>1. IsTrail(at, tr, p)
  BY TrailExists DEF IsTrail
<1>2. Resolved(tr, p) = at[Len(p)]
  BY DEF Resolved
<1> QED BY <1>1, <1>2

\* A path is followed name by name, to where what is before it leads.
LEMMA ResolvedStep ==
  ASSUME NEW tr, NEW S, NEW p \in Seq(S)
  PROVE  /\ p = <<>> => Resolved(tr, p) = <<>>
         /\ p # <<>> => Resolved(tr, p) = Followed(tr, Append(Resolved(tr, Front(p)), Last(p)))
<1>1. PICK f : IsTrail(f, tr, p) /\ Resolved(tr, p) = f[Len(p)]
  BY ResolvedByTrail
<1>2. ASSUME p = <<>> PROVE Resolved(tr, p) = <<>>
  BY <1>1, <1>2 DEF IsTrail
<1>3. ASSUME p # <<>> PROVE Resolved(tr, p) = Followed(tr, Append(Resolved(tr, Front(p)), Last(p)))
  <2> DEFINE n == Len(p)
  <2>1. n \in Nat \ {0} /\ Front(p) \in Seq(S) /\ Len(Front(p)) = n - 1 /\ \A i \in 1..(n - 1) : Front(p)[i] = p[i]
    BY <1>3, FrontIs
  <2>2. PICK g : IsTrail(g, tr, Front(p)) /\ Resolved(tr, Front(p)) = g[n - 1]
    BY <2>1, ResolvedByTrail
  <2>3. \A i \in 0..n : f[i] = IF i = 0 THEN <<>> ELSE Followed(tr, Append(f[i - 1], p[i]))
    BY <1>1 DEF IsTrail
  <2>4. \A i \in 0..(n - 1) : g[i] = IF i = 0 THEN <<>> ELSE Followed(tr, Append(g[i - 1], p[i]))
    BY <2>1, <2>2 DEF IsTrail
  <2> DEFINE T == {i \in 0..(n - 1) : f[i] = g[i]}
  <2>5. 0 \in T
    BY <2>1, <2>3, <2>4
  <2>6. ASSUME NEW i \in 1..(n - 1), i - 1 \in T PROVE i \in T
    BY <2>1, <2>3, <2>4, <2>6
  <2>7. n - 1 \in T
    <3> HIDE DEF T
    <3>1. \A i \in 1..(n - 1) : i - 1 \in T => i \in T
      BY <2>6
    <3>2. \A i \in 0..(n - 1) : i \in T
      <4> HIDE DEF n
      <4>1. n - 1 \in Nat
        BY <2>1
      <4> QED BY <4>1, <2>5, <3>1, ReachesAll
    <3> QED BY <2>1, <3>2
  <2> QED BY <1>1, <2>1, <2>2, <2>3, <2>7 DEF Last
<1> QED BY <1>2, <1>3

-----------------------------------------------------------------------------
(* Rows.                                                                   *)

\* A sequence is one over any set that has all its elements.
LEMMA SeqOver ==
  ASSUME NEW A, NEW B, NEW s \in Seq(A), \A i \in 1..Len(s) : s[i] \in B
  PROVE  s \in Seq(B)
BY IsASeq

\* What is kept of the first segments of a path.
IsKept(f, segs, n) ==
  f = [i \in 0..n |-> IF i = 0 THEN <<>> ELSE WithSegment(f[i - 1], segs[i])]

\* What is kept can be followed through every number of segments.
LEMMA KeptExists == ASSUME NEW segs, NEW n \in Nat PROVE \E f : IsKept(f, segs, n)
<1> DEFINE T == {m \in 0..n : \E f : IsKept(f, segs, m)}
<1>1. 0 \in T
  <2> DEFINE f == [i \in 0..0 |-> <<>>]
  <2>1. IsKept(f, segs, 0)
    BY DEF IsKept
  <2> HIDE DEF f
  <2> QED BY <2>1
<1>2. ASSUME NEW m \in 1..n, m - 1 \in T PROVE m \in T
  <2>1. PICK f : IsKept(f, segs, m - 1)
    BY <1>2
  <2> DEFINE g == [i \in 0..m |-> IF i < m THEN f[i] ELSE WithSegment(f[m - 1], segs[m])]
             h == [i \in 0..m |-> IF i = 0 THEN <<>> ELSE WithSegment(g[i - 1], segs[i])]
  <2>2. ASSUME NEW i \in 0..m PROVE g[i] = h[i]
    <3>1. CASE i < m
      <4>1. f[i] = IF i = 0 THEN <<>> ELSE WithSegment(f[i - 1], segs[i])
        BY <2>1, <3>1 DEF IsKept
      <4>2. i # 0 => g[i - 1] = f[i - 1]
        OBVIOUS
      <4> QED BY <4>1, <4>2, <3>1
    <3>2. CASE i = m
      BY <3>2
    <3> QED BY <3>1, <3>2
  <2>3. IsKept(g, segs, m)
    <3>1. g = h
      BY <2>2
    <3> QED BY <3>1 DEF IsKept
  <2> HIDE DEF g
  <2> QED BY <2>3
<1> HIDE DEF T
<1>3. \A m \in 0..n : m \in T
  BY <1>1, <1>2, ReachesAll
<1> QED BY <1>3 DEF T

\* A cleaned path is what is kept of all its segments.
LEMMA CleanByKept ==
  ASSUME NEW segs, Len(segs) \in Nat
  PROVE  \E f : IsKept(f, segs, Len(segs)) /\ Clean(segs) = f[Len(segs)]
<1> DEFINE kept[i \in 0..Len(segs)] == IF i = 0 THEN <<>> ELSE WithSegment(kept[i - 1], segs[i])
<1>1. \E f : IsKept(f, segs, Len(segs))
  BY KeptExists
<1>2. IsKept(kept, segs, Len(segs))
  BY <1>1 DEF IsKept
<1>3. Clean(segs) = kept[Len(segs)]
  BY DEF Clean
<1> QED BY <1>2, <1>3

\* What is left of the segments of a path are segments, none of them empty.
LEMMA CleanTyped ==
  ASSUME NEW S, NEW segs \in Seq(S), NEW R, \A x \in S : ~Skipped(x) => x \in R
  PROVE  Clean(segs) \in Seq(R)
<1> DEFINE n == Len(segs)
<1>0. n \in Nat /\ \A i \in 1..n : segs[i] \in S
  OBVIOUS
<1>1. PICK f : IsKept(f, segs, n) /\ Clean(segs) = f[n]
  BY <1>0, CleanByKept
<1>2. \A i \in 0..n : f[i] = IF i = 0 THEN <<>> ELSE WithSegment(f[i - 1], segs[i])
  BY <1>1 DEF IsKept
<1>3. ASSUME NEW p \in Seq(R), NEW seg \in S PROVE WithSegment(p, seg) \in Seq(R)
  <2>1. CASE Skipped(seg)
    BY <2>1 DEF WithSegment
  <2>2. CASE ~Skipped(seg)
    <3>1. seg \in R
      BY <2>2
    <3>2. Append(p, seg) \in Seq(R)
      BY <3>1
    <3> QED BY <2>2, <3>2 DEF WithSegment
  <2> QED BY <2>1, <2>2
<1> DEFINE U == {i \in 0..n : f[i] \in Seq(R)}
<1> HIDE DEF n
<1>5. 0 \in U
  <2>1. f[0] = <<>> /\ 0 \in 0..n
    BY <1>0, <1>2
  <2>2. <<>> \in Seq(R)
    OBVIOUS
  <2> QED BY <2>1, <2>2
<1>6. ASSUME NEW i \in 1..n, i - 1 \in U PROVE i \in U
  <2>1. f[i] = WithSegment(f[i - 1], segs[i]) /\ i \in 0..n
    BY <1>0, <1>2
  <2>2. f[i - 1] \in Seq(R) /\ segs[i] \in S
    BY <1>0, <1>6
  <2>3. f[i] \in Seq(R)
    BY <1>3, <2>1, <2>2
  <2> QED BY <2>1, <2>3
<1> HIDE DEF U
<1>7. \A i \in 0..n : i \in U
  BY <1>0, <1>5, <1>6, ReachesAll
<1>8. f[n] \in Seq(R)
  BY <1>0, <1>7 DEF U
<1> QED BY <1>1, <1>8

\* The segments of a path that is not refused are names once it is clean.
LEMMA SafeIsNames ==
  ASSUME NEW segs \in Seq(Segments), ~Unsafe(segs)
  PROVE  Clean(segs) \in Seq(Names)
<1> DEFINE S == Names \cup {"", "."}
<1>1. Len(segs) \in Nat /\ \A i \in 1..Len(segs) : segs[i] \in Segments
  OBVIOUS
<1>2. \A x \in Segments : x \notin {Outside, "bad"} => x \in S
  BY DEF Segments
<1>3. \A i \in 1..Len(segs) : segs[i] \in S
  BY <1>1, <1>2 DEF Unsafe
<1>4. \A x \in S : ~Skipped(x) => x \in Names
  BY DEF Skipped
<1> HIDE DEF S
<1>5. segs \in Seq(S)
  BY <1>3, SeqOver
<1> QED BY <1>4, <1>5, CleanTyped

\* An accepted path is made of names.
LEMMA PathTyped ==
  ASSUME NEW raw, RawTyped(raw)
  PROVE  /\ RemotePath(raw).path \in Seq(Names)
         /\ MountPath(raw).path \in Seq(Names)
         /\ DestinationSubpath(raw).path \in Seq(Names)
<1>1. <<>> \in Seq(Names)
  OBVIOUS
<1>2. ~Unsafe(raw.segs) => Clean(raw.segs) \in Seq(Names)
  BY SafeIsNames DEF RawTyped
<1> QED BY <1>1, <1>2 DEF RemotePath, MountPath, DestinationSubpath, Accept, Refuse

\* What a payload sets is of the right type.
FieldsTyped(fields) ==
  /\ "kind" \in DOMAIN fields => fields["kind"] \in Kinds
  /\ "remote_path" \in DOMAIN fields => fields["remote_path"] \in Seq(Names)
  /\ "policy" \in DOMAIN fields => PolicyTyped(fields["policy"])

\* What a payload sends, or is taken to send, is of the right type.
LEMMA SentTyped ==
  ASSUME SettingTyped(setting), NEW payload \in setting.payloads
  PROVE  RawTyped(Sent(payload, "remote_path")) /\ PolicyTyped(Sent(payload, "policy"))
<1>0. PayloadTyped(payload)
  BY DEF SettingTyped
<1>1. RawTyped(Sent(payload, "remote_path"))
  <2>1. CASE "remote_path" \in DOMAIN payload
    <3>1. RawTyped(payload["remote_path"])
      BY <2>1, <1>0 DEF PayloadTyped
    <3>2. Sent(payload, "remote_path") = payload["remote_path"]
      BY <2>1 DEF Sent
    <3> QED BY <3>1, <3>2
  <2>2. CASE "remote_path" \notin DOMAIN payload
    <3>1. Sent(payload, "remote_path") = [segs |-> <<>>, back |-> FALSE, rooted |-> FALSE]
      BY <2>2 DEF Sent, LeftOut
    <3>2. Sent(payload, "remote_path").segs = <<>>
      BY <3>1
    <3>3. <<>> \in Seq(Segments)
      OBVIOUS
    <3> QED BY <3>2, <3>3 DEF RawTyped
  <2> QED BY <2>1, <2>2
<1>2. PolicyTyped(Sent(payload, "policy"))
  <2>1. CASE "policy" \in DOMAIN payload
    <3>1. PolicyTyped(payload["policy"])
      BY <2>1, <1>0 DEF PayloadTyped
    <3>2. Sent(payload, "policy") = payload["policy"]
      BY <2>1 DEF Sent
    <3> QED BY <3>1, <3>2
  <2>2. CASE "policy" \notin DOMAIN payload
    <3>1. Sent(payload, "policy") = [allowed |-> {}, routes |-> <<>>, preserve |-> TRUE]
      BY <2>2 DEF Sent, LeftOut
    <3> QED BY <3>1 DEF PolicyTyped
  <2> QED BY <2>1, <2>2
<1> QED BY <1>1, <1>2

\* An accepted payload sets fields of the right type.
LEMMA FieldsOfPayload ==
  ASSUME SettingTyped(setting), NEW payload \in setting.payloads, NEW partial \in BOOLEAN, NEW current,
         PayloadValid(payload, partial, current)
  PROVE  FieldsTyped(FieldsFrom(payload, partial, current))
<1> DEFINE fields == FieldsFrom(payload, partial, current)
           kind == KindSent(payload, partial, current)
<1>1. ASSUME "kind" \in DOMAIN fields PROVE fields["kind"] \in Kinds
  <2>1. Asked(payload, partial, "kind") /\ fields["kind"] = Sent(payload, "kind")
    BY <1>1 DEF FieldsFrom
  <2> QED BY <2>1 DEF PayloadValid, KindSent
<1>2. ASSUME "remote_path" \in DOMAIN fields PROVE fields["remote_path"] \in Seq(Names)
  <2>1. fields["remote_path"] = PathFor(kind, Sent(payload, "remote_path")).path
    BY <1>2 DEF FieldsFrom
  <2> QED BY <2>1, SentTyped, PathTyped DEF PathFor
<1>3. ASSUME "policy" \in DOMAIN fields PROVE PolicyTyped(fields["policy"])
  <2>1. fields["policy"] = Sent(payload, "policy")
    BY <1>3 DEF FieldsFrom
  <2> QED BY <2>1, SentTyped
<1> QED BY <1>1, <1>2, <1>3 DEF FieldsTyped

\* A row with some fields written over is a row.
LEMMA OverTyped ==
  ASSUME NEW fields, NEW r, FieldsTyped(fields), RowTyped(r)
  PROVE  RowTyped(Over(fields, r)) /\ RowTyped(Stored(Over(fields, r)))
<1> DEFINE o == Over(fields, r)
<1>1. /\ DOMAIN o = Fields
      /\ o.kind = IF "kind" \in DOMAIN fields THEN fields["kind"] ELSE r.kind
      /\ o.remote_path = IF "remote_path" \in DOMAIN fields THEN fields["remote_path"] ELSE r.remote_path
      /\ o.policy = IF "policy" \in DOMAIN fields THEN fields["policy"] ELSE r.policy
  BY DEF Over, Fields
<1>2. RowTyped(o)
  BY <1>1 DEF RowTyped, FieldsTyped
<1>3. /\ DOMAIN Stored(o) = Fields /\ Stored(o).kind = o.kind
      /\ Stored(o).remote_path = o.remote_path /\ Stored(o).policy = o.policy
  BY <1>1 DEF Stored
<1> QED BY <1>2, <1>3 DEF RowTyped

\* What is stored keeps what its kind needs, and nothing of a receiver's.
LEMMA StoredKeeps ==
  ASSUME NEW r, RowTyped(r), FitsKind(r)
  PROVE  KeepsOwnFields(Stored(r))
<1>1. /\ "remote_name" \in DOMAIN r /\ "receiver_url" \in DOMAIN r /\ "receiver_token" \in DOMAIN r
      /\ "kind" \in DOMAIN r /\ "remote_path" \in DOMAIN r
  BY DEF RowTyped, Fields
<1>2. CASE r.kind = "receiver"
  <2>1. Stored(r).kind = "receiver" /\ Stored(r).receiver_url = r.receiver_url
    BY <1>1, <1>2 DEF Stored
  <2> QED BY <1>2, <2>1 DEF FitsKind, KeepsOwnFields
<1>3. CASE r.kind # "receiver"
  <2>1. /\ Stored(r).kind = r.kind /\ Stored(r).remote_name = r.remote_name
        /\ Stored(r).remote_path = r.remote_path
        /\ Stored(r).receiver_url = "" /\ Stored(r).receiver_token = ""
    BY <1>1, <1>3 DEF Stored
  <2> QED BY <1>3, <2>1 DEF FitsKind, KeepsOwnFields
<1> QED BY <1>2, <1>3

\* The row, with the settings of the run.
RowInv == SettingTyped(setting) /\ RowTyped(row) /\ RowFitsKind

\* A target that is gone has the type of a row.
LEMMA GoneTyped == RowTyped(Gone)
<1>1. DOMAIN Gone = Fields
  BY DEF Gone, Fields
<1>2. Gone.kind = "none" /\ Gone.remote_path = <<>> /\ Gone.policy.routes = <<>>
  BY DEF Gone
<1> QED BY <1>1, <1>2 DEF RowTyped, PolicyTyped

\* A row that is created has what its kind needs.
LEMMA RowCreated == ASSUME RowInv, CreateTarget PROVE RowInv'
<1>1. PICK payload \in setting.payloads :
        /\ PayloadValid(payload, FALSE, Gone)
        /\ FitsKind(Over(FieldsFrom(payload, FALSE, Gone), Gone))
        /\ row' = Stored(Over(FieldsFrom(payload, FALSE, Gone), Gone))
  BY DEF CreateTarget
<1> DEFINE r == Over(FieldsFrom(payload, FALSE, Gone), Gone)
<1>2. RowTyped(r) /\ RowTyped(Stored(r))
  BY <1>1, FieldsOfPayload, OverTyped, GoneTyped DEF RowInv
<1>3. KeepsOwnFields(Stored(r))
  BY <1>1, <1>2, StoredKeeps
<1>4. SettingTyped(setting')
  <2>1. /\ setting'.payloads = setting.payloads /\ setting'.subpaths = setting.subpaths
        /\ setting'.sources = setting.sources
    BY DEF CreateTarget
  <2> QED BY <2>1 DEF RowInv, SettingTyped
<1> QED BY <1>1, <1>2, <1>3, <1>4 DEF RowInv, RowFitsKind

\* A PATCH writes what fits the row as it is when it writes.
LEMMA RowPatched == ASSUME RowInv, NEW c \in Clients, PatchApplies(c) PROVE RowInv'
<1>1. setting' = setting
  BY DEF PatchApplies
<1>2. PICK payload \in setting.payloads :
        LET current == patch[c].current
            fields == FieldsFrom(payload, TRUE, current)
        IN  row' = IF /\ row.kind # "none"
                      /\ PayloadValid(payload, TRUE, current)
                      /\ FitsKind(Over(fields, current))
                      /\ UpdateFits(fields, row)
                   THEN Merged(fields, row) ELSE row
  BY DEF PatchApplies
<1> DEFINE current == patch[c].current
           fields == FieldsFrom(payload, TRUE, current)
<1>3. CASE row' = row
  BY <1>1, <1>3 DEF RowInv, RowFitsKind
<1>4. CASE /\ row.kind # "none" /\ PayloadValid(payload, TRUE, current) /\ UpdateFits(fields, row)
           /\ row' = Merged(fields, row)
  <2>1. FieldsTyped(fields)
    BY <1>4, FieldsOfPayload DEF RowInv
  <2> HIDE DEF fields
  <2>2. RowTyped(Over(fields, row)) /\ RowTyped(Stored(Over(fields, row)))
    BY <2>1, OverTyped DEF RowInv
  <2>3. CASE DOMAIN fields \cap TransferFields = {}
    <3>1. row' = Over(fields, row)
      BY <1>4, <2>3 DEF Merged
    <3>2. /\ row'.kind = row.kind /\ row'.remote_name = row.remote_name /\ row'.remote_path = row.remote_path
          /\ row'.receiver_url = row.receiver_url /\ row'.receiver_token = row.receiver_token
      BY <2>3, <3>1 DEF Over, Fields, TransferFields
    <3>3. KeepsOwnFields(row)
      BY <1>4 DEF RowInv, RowFitsKind
    <3>4. KeepsOwnFields(row')
      BY <3>2, <3>3 DEF KeepsOwnFields, FitsKind
    <3> QED BY <1>1, <2>2, <3>1, <3>4 DEF RowInv, RowFitsKind
  <2>4. CASE DOMAIN fields \cap TransferFields # {}
    <3>1. row' = Stored(Over(fields, row)) /\ FitsKind(Over(fields, row))
      BY <1>4, <2>4 DEF Merged, UpdateFits
    <3>2. KeepsOwnFields(row')
      BY <2>2, <3>1, StoredKeeps
    <3> QED BY <1>1, <2>2, <3>1, <3>2 DEF RowInv, RowFitsKind
  <2> QED BY <2>3, <2>4
<1> QED BY <1>2, <1>3, <1>4

\* The invariant of the row holds at the start and through every step.
LEMMA RowStart == ASSUME TargetInit PROVE RowInv
BY TargetAssumption DEF TargetInit, RowInv, RowFitsKind

\* No step breaks the invariant of the row.
LEMMA RowStep == ASSUME RowInv, [TargetNext]_targetVars PROVE RowInv'
<1>1. CASE CreateTarget
  BY <1>1, RowCreated
<1>2. CASE DeleteTarget
  <2>1. row' = Gone /\ setting' = setting
    BY <1>2 DEF DeleteTarget
  <2> QED BY <2>1, GoneTyped DEF RowInv, RowFitsKind, Gone
<1>3. CASE \E c \in Clients : PatchApplies(c)
  BY <1>3, RowPatched
<1>4. CASE UNCHANGED <<setting, row>>
  BY <1>4 DEF RowInv, RowFitsKind
<1>5. [TargetNext]_targetVars =>
        CreateTarget \/ DeleteTarget \/ (\E c \in Clients : PatchApplies(c)) \/ UNCHANGED <<setting, row>>
  BY DEF TargetNext, targetVars, OwnerChanges, BrowsePage, BrowseRefused, PatchArrives, RequestFile,
         RequestResource, RequestCopy, RunJob
<1> QED BY <1>1, <1>2, <1>3, <1>4, <1>5

\* The invariant of the row holds in every run.
LEMMA RowHolds == TargetSpec => []RowInv
BY RowStart, RowStep, PTL DEF TargetSpec

\* A stored target has what its kind needs, and only a receiver keeps a URL
\* and a token, whatever PATCHes overlap.  update_transfer_target
THEOREM RowsFitTheirKind == TargetSpec => []RowFitsKind
<1>1. RowInv => RowFitsKind
  BY DEF RowInv
<1> QED BY <1>1, RowHolds, PTL

-----------------------------------------------------------------------------
(* Where a copy goes.                                                      *)

\* The first names of a path.
LEMMA PrefixIs ==
  ASSUME NEW S, NEW p \in Seq(S), NEW k \in 0..Len(p)
  PROVE  /\ SubSeq(p, 1, k) \in Seq(S) /\ Len(SubSeq(p, 1, k)) = k
         /\ \A i \in 1..k : SubSeq(p, 1, k)[i] = p[i]
<1>1. k \in Nat /\ 1 \in Int /\ \A i \in 1..k : p[i] \in S
  OBVIOUS
<1>2. /\ SubSeq(p, 1, k) \in Seq(S)
      /\ Len(SubSeq(p, 1, k)) = IF 1 <= k THEN k - 1 + 1 ELSE 0
      /\ \A i \in 1..(k - 1 + 1) : SubSeq(p, 1, k)[i] = p[1 + i - 1]
  BY <1>1, SubSeqProperties
<1>3. \A i \in 1..k : i \in 1..(k - 1 + 1) /\ 1 + i - 1 = i
  OBVIOUS
<1> QED BY <1>1, <1>2, <1>3

\* A part of a path, from its m-th name.
LEMMA PartIs ==
  ASSUME NEW S, NEW p \in Seq(S), NEW m \in 1..(Len(p) + 1)
  PROVE  /\ SubSeq(p, m, Len(p)) \in Seq(S) /\ Len(SubSeq(p, m, Len(p))) = Len(p) - m + 1
         /\ \A i \in 1..(Len(p) - m + 1) : SubSeq(p, m, Len(p))[i] = p[m + i - 1]
<1> DEFINE n == Len(p)
<1>1. n \in Nat /\ m \in Nat \ {0} /\ m <= n + 1 /\ \A i \in m..n : p[i] \in S
  OBVIOUS
<1> HIDE DEF n
<1>2. /\ SubSeq(p, m, n) \in Seq(S)
      /\ Len(SubSeq(p, m, n)) = IF m <= n THEN n - m + 1 ELSE 0
      /\ \A i \in 1..(n - m + 1) : SubSeq(p, m, n)[i] = p[m + i - 1]
  BY <1>1, SubSeqProperties
<1>3. m > n => n - m + 1 = 0
  BY <1>1
<1>4. Len(SubSeq(p, m, n)) = n - m + 1
  BY <1>1, <1>2, <1>3
<1> QED BY <1>2, <1>4 DEF n

\* Numbers with a bound have a largest one.
LEMMA HasLargest ==
  ASSUME NEW m \in Nat, NEW N, N \subseteq 0..m, N # {}
  PROVE  \E k \in N : \A o \in N : k >= o
<1> DEFINE B == {i \in 0..m : m - i \in N}
<1>1. B \subseteq Nat /\ B # {}
  <2>1. PICK o \in N : TRUE
    OBVIOUS
  <2>2. m - o \in B
    OBVIOUS
  <2> QED BY <2>2
<1>2. IsWellFoundedOn(OpToRel(<, Nat), Nat)
  BY NatLessThanWellFounded
<1>3. PICK x \in B : \A y \in B : ~(<<y, x>> \in OpToRel(<, Nat))
  <2> HIDE DEF B
  <2> QED BY <1>1, <1>2, WFMin
<1>4. \A y \in B : ~(y < x)
  BY <1>1, <1>3 DEF OpToRel
<1>5. \A o \in N : m - x >= o
  <2> SUFFICES ASSUME NEW o \in N PROVE m - x >= o
    OBVIOUS
  <2>1. m - o \in B
    OBVIOUS
  <2>2. ~(m - o < x)
    BY <1>4, <2>1
  <2> QED BY <2>2
<1> QED BY <1>5

\* What of the context the subpath ends with already.
LEMMA OverlapIs ==
  ASSUME NEW S, NEW sub \in Seq(S), NEW context \in Seq(S)
  PROVE  \E n \in 0..Len(context) :
           /\ WithContext(sub, context) = sub \o SubSeq(context, n + 1, Len(context))
           /\ n <= Len(sub)
           /\ \A i \in 1..n : sub[Len(sub) - n + i] = context[i]
           /\ \A o \in Overlaps(sub, context) : n >= o
<1> DEFINE O == Overlaps(sub, context)
           n == IF O = {} THEN 0 ELSE CHOOSE k \in O : \A o \in O : k >= o
<1>1. Len(context) \in Nat /\ Len(sub) \in Nat /\ O \subseteq 1..Len(context)
  BY DEF Overlaps
<1>2. WithContext(sub, context) = sub \o SubSeq(context, n + 1, Len(context))
  BY DEF WithContext
<1>3. CASE O = {}
  <2>1. n = 0
    BY <1>3
  <2> HIDE DEF n
  <2>2. WithContext(sub, context) = sub \o SubSeq(context, 0 + 1, Len(context))
    BY <1>2, <2>1
  <2> QED BY <1>1, <1>3, <2>2, SMTT(60)
<1>4. CASE O # {}
  <2>1. \E k \in O : \A o \in O : k >= o
    <3>1. O \subseteq 0..Len(context)
      BY <1>1
    <3> HIDE DEF O
    <3> QED BY <1>1, <1>4, <3>1, HasLargest
  <2>2. n \in O /\ \A o \in O : n >= o
    <3> HIDE DEF O
    <3> QED BY <1>4, <2>1
  <2> HIDE DEF n
  <2>3. /\ n \in 1..Len(context) /\ n <= Len(sub)
        /\ SubSeq(sub, Len(sub) - n + 1, Len(sub)) = SubSeq(context, 1, n)
    BY <2>2 DEF Overlaps
  <2>4. ASSUME NEW i \in 1..n PROVE sub[Len(sub) - n + i] = context[i]
    <3>1. SubSeq(context, 1, n)[i] = context[i]
      BY <1>1, <2>3, PrefixIs
    <3> DEFINE m == Len(sub) - n + 1
    <3>2. m \in 1..(Len(sub) + 1) /\ i \in 1..(Len(sub) - m + 1) /\ m + i - 1 = Len(sub) - n + i
      BY <1>1, <2>3
    <3>3. SubSeq(sub, m, Len(sub))[i] = sub[m + i - 1]
      <4> HIDE DEF m
      <4> QED BY <3>2, PartIs
    <3> QED BY <2>3, <3>1, <3>2, <3>3
  <2>5. n \in 0..Len(context) /\ n <= Len(sub) /\ \A o \in Overlaps(sub, context) : n >= o
    BY <1>1, <2>2, <2>3
  <2>6. \A i \in 1..n : sub[Len(sub) - n + i] = context[i]
    BY <2>4
  <2> QED BY <1>2, <2>5, <2>6
<1> QED BY <1>3, <1>4

\* The context once more adds nothing.
LEMMA ContextOnce ==
  ASSUME NEW S, NEW sub \in Seq(S), NEW context \in Seq(S)
  PROVE  /\ WithContext(sub, context) \in Seq(S)
         /\ WithContext(WithContext(sub, context), context) = WithContext(sub, context)
<1>1. PICK n \in 0..Len(context) :
        /\ WithContext(sub, context) = sub \o SubSeq(context, n + 1, Len(context))
        /\ n <= Len(sub)
        /\ \A i \in 1..n : sub[Len(sub) - n + i] = context[i]
        /\ \A o \in Overlaps(sub, context) : n >= o
  BY OverlapIs
<1> DEFINE l == Len(context)
           t == WithContext(sub, context)
           rest == SubSeq(context, n + 1, l)
<1>2. l \in Nat /\ Len(sub) \in Nat /\ n + 1 \in 1..(l + 1) /\ n \in Nat /\ n <= l /\ n <= Len(sub)
  BY <1>1
<1>3. rest \in Seq(S) /\ Len(rest) = l - n /\ \A i \in 1..(l - n) : rest[i] = context[n + i]
  <2>1. /\ rest \in Seq(S) /\ Len(rest) = l - (n + 1) + 1
        /\ \A i \in 1..(l - (n + 1) + 1) : rest[i] = context[n + 1 + i - 1]
    BY <1>2, PartIs
  <2>2. l - (n + 1) + 1 = l - n /\ \A i \in 1..(l - n) : n + 1 + i - 1 = n + i
    BY <1>2
  <2> HIDE DEF rest
  <2> QED BY <2>1, <2>2
<1> HIDE DEF rest, l
<1>4. /\ t \in Seq(S) /\ Len(t) = Len(sub) + l - n
      /\ \A i \in 1..Len(t) : t[i] = IF i <= Len(sub) THEN sub[i] ELSE rest[i - Len(sub)]
  <2>1. /\ sub \o rest \in Seq(S) /\ Len(sub \o rest) = Len(sub) + Len(rest)
        /\ \A i \in 1..(Len(sub) + Len(rest)) :
             (sub \o rest)[i] = IF i <= Len(sub) THEN sub[i] ELSE rest[i - Len(sub)]
    BY <1>3, ConcatProperties
  <2>2. t = sub \o rest
    BY <1>1 DEF rest, l
  <2> HIDE DEF t
  <2> QED BY <1>2, <1>3, <2>1, <2>2
<1> HIDE DEF t
<1>5. PICK k \in 0..l : /\ WithContext(t, context) = t \o SubSeq(context, k + 1, l)
                        /\ \A o \in Overlaps(t, context) : k >= o
  BY <1>4, OverlapIs DEF l
<1>6. k = l
  <2>1. CASE l = 0
    BY <2>1
  <2>2. CASE l # 0
    <3>1. l \in 1..l /\ l <= Len(t)
      BY <1>2, <1>4, <2>2
    <3> DEFINE m == Len(t) - l + 1
    <3>2. m \in 1..(Len(t) + 1) /\ Len(t) - m + 1 = l /\ m = Len(sub) - n + 1
      <4> DEFINE e == Len(t)
      <4>1. e = Len(sub) + l - n
        BY <1>4
      <4> HIDE DEF e
      <4>2. e - l + 1 \in 1..(e + 1) /\ e - (e - l + 1) + 1 = l /\ e - l + 1 = Len(sub) - n + 1
        BY <1>2, <4>1
      <4> QED BY <4>2 DEF e
    <3>3. /\ SubSeq(t, m, Len(t)) \in Seq(S) /\ Len(SubSeq(t, m, Len(t))) = l
          /\ \A i \in 1..l : SubSeq(t, m, Len(t))[i] = t[m + i - 1]
      <4> HIDE DEF m
      <4> QED BY <1>4, <3>2, PartIs
    <3>4. ASSUME NEW i \in 1..l PROVE t[m + i - 1] = context[i]
      <4> DEFINE p == Len(sub) - n + i
      <4>1. m + i - 1 = p /\ p \in 1..Len(t)
        <5>1. m + i - 1 = p /\ p \in 1..(Len(sub) + l - n)
          <6> HIDE DEF m
          <6> QED BY <1>2, <3>2
        <5> HIDE DEF m, p
        <5> QED BY <1>4, <5>1
      <4>2. CASE i <= n
        <5>1. p <= Len(sub)
          BY <1>2, <4>2
        <5>2. sub[p] = context[i]
          BY <1>1, <4>2
        <5> HIDE DEF p
        <5> QED BY <1>4, <4>1, <5>1, <5>2
      <4>3. CASE i > n
        <5>1. ~(p <= Len(sub)) /\ p - Len(sub) = i - n /\ i - n \in 1..(l - n) /\ n + (i - n) = i
          BY <1>2, <4>3
        <5>2. t[p] = rest[p - Len(sub)]
          <6> HIDE DEF p
          <6> QED BY <1>4, <4>1, <5>1
        <5>3. rest[i - n] = context[n + (i - n)]
          BY <1>3, <5>1
        <5> QED BY <4>1, <5>1, <5>2, <5>3
      <4> QED BY <1>2, <4>2, <4>3
    <3>5. /\ SubSeq(context, 1, l) \in Seq(S) /\ Len(SubSeq(context, 1, l)) = l
          /\ \A i \in 1..l : SubSeq(context, 1, l)[i] = context[i]
      <4>1. l \in 0..Len(context)
        BY <1>2 DEF l
      <4> QED BY <4>1, PrefixIs
    <3>6. SubSeq(t, m, Len(t)) = SubSeq(context, 1, l)
      <4> HIDE DEF m
      <4>1. \A i \in 1..l : SubSeq(t, m, Len(t))[i] = SubSeq(context, 1, l)[i]
        BY <3>3, <3>4, <3>5
      <4> QED BY <3>3, <3>5, <4>1, SeqEqual
    <3>7. l \in Overlaps(t, context)
      BY <3>1, <3>6 DEF Overlaps, l
    <3> QED BY <1>2, <1>5, <3>7
  <2> QED BY <2>1, <2>2
<1>7. SubSeq(context, k + 1, l) = <<>>
  <2>1. k + 1 \in Int /\ l \in Int /\ l < k + 1
    BY <1>2, <1>6
  <2> QED BY <2>1, SubSeqEmpty
<1>8. WithContext(t, context) = t
  BY <1>4, <1>5, <1>7, ConcatEmptySeq
<1> QED BY <1>4, <1>8 DEF t

\* Where a prefix is configured, the longest one is.
LEMMA BestIs ==
  ASSUME NEW prefixes, NEW path \in Seq(Names), \A q \in prefixes : q \in Seq(Names)
  PROVE  BestPrefix(prefixes, path) = <<>> \/ BestPrefix(prefixes, path) \in prefixes
<1> DEFINE fitting == {q \in prefixes : IsPrefix(q, path)}
           N == {Len(q) : q \in fitting}
<1>1. CASE fitting = {}
  BY <1>1 DEF BestPrefix
<1>2. CASE fitting # {}
  <2>1. N \subseteq 0..Len(path) /\ N # {} /\ Len(path) \in Nat
    <3>1. ASSUME NEW q \in fitting PROVE Len(q) \in 0..Len(path)
      <4>1. q \in Seq(Names) /\ Len(q) <= Len(path)
        BY DEF IsPrefix
      <4>2. Len(q) \in Nat /\ Len(path) \in Nat
        BY <4>1
      <4> QED BY <4>1, <4>2
    <3>2. Len(path) \in Nat
      OBVIOUS
    <3>3. PICK q \in fitting : TRUE
      BY <1>2
    <3> HIDE DEF fitting
    <3>4. N \subseteq 0..Len(path) /\ Len(q) \in N
      BY <3>1
    <3> QED BY <3>2, <3>4
  <2>2. PICK k \in N : \A o \in N : k >= o
    <3> HIDE DEF N
    <3> QED BY <2>1, HasLargest
  <2>3. PICK q \in fitting : Len(q) = k
    OBVIOUS
  <2>4. \A r \in fitting : Len(r) <= Len(q)
    <3> SUFFICES ASSUME NEW r \in fitting PROVE Len(r) <= Len(q)
      OBVIOUS
    <3>1. Len(r) \in N
      OBVIOUS
    <3> QED BY <2>1, <2>2, <2>3, <3>1
  <2>5. (CHOOSE s \in fitting : \A r \in fitting : Len(r) <= Len(s)) \in fitting
    <3> HIDE DEF fitting
    <3> QED BY <2>3, <2>4
  <2> QED BY <1>2, <2>5 DEF BestPrefix
<1> QED BY <1>1, <1>2

\* Routes and contexts are paths.
LEMMA RouteTyped ==
  ASSUME NEW r, RowTyped(r), NEW src, SourceTyped(src)
  PROVE  Routed(r, src) \in Seq(Names) /\ ResourceRouted(r, src) \in Seq(Names)
<1>1. src.path \in Seq(Names) /\ <<>> \in Seq(Names)
  BY DEF SourceTyped
<1>2. Routed(r, src) \in Seq(Names)
  <2> DEFINE best == BestPrefix(DOMAIN r.policy.routes, src.path)
  <2>1. \A q \in DOMAIN r.policy.routes : q \in Seq(Names) /\ r.policy.routes[q] \in Seq(Names)
    BY DEF RowTyped, PolicyTyped
  <2>2. best = <<>> \/ best \in DOMAIN r.policy.routes
    BY <1>1, <2>1, BestIs
  <2> QED BY <1>1, <2>1, <2>2 DEF Routed, RouteOf
<1>3. ResourceRouted(r, src) \in Seq(Names)
  <2> DEFINE best == BestPrefix(DOMAIN RouteMap, src.path)
  <2>1. \A q \in DOMAIN RouteMap : q \in Seq(Names) /\ RouteMap[q] \in Names
    BY NamesAssumption
  <2>2. best = <<>> \/ best \in DOMAIN RouteMap
    BY <1>1, <2>1, BestIs
  <2>3. best # <<>> => <<RouteMap[best]>> \in Seq(Names)
    BY <2>1, <2>2
  <2> QED BY <1>1, <1>2, <2>3 DEF ResourceRouted
<1> QED BY <1>2, <1>3

\* The context of a source is a path.
LEMMA ContextTyped == ASSUME NEW src, SourceTyped(src) PROVE Context(src) \in Seq(Names)
<1> DEFINE a == src.archive
           prefix == BestPrefix(DOMAIN RouteMap, a)
           rest == SubSeq(a, Len(prefix) + 1, Len(a))
           n == Len(rest) - (IF src.path = a THEN 1 ELSE 0)
<1>1. a \in Seq(Names) /\ Len(a) \in Nat /\ \A q \in DOMAIN RouteMap : q \in Seq(Names)
  BY NamesAssumption DEF SourceTyped
<1>2. prefix \in Seq(Names)
  <2>1. prefix = <<>> \/ prefix \in DOMAIN RouteMap
    BY <1>1, BestIs
  <2>2. <<>> \in Seq(Names)
    OBVIOUS
  <2> HIDE DEF prefix
  <2> QED BY <1>1, <2>1, <2>2
<1>3. rest \in Seq(Names)
  <2> DEFINE k == Len(prefix) + 1
             e == Len(a)
  <2>1. k \in Nat \ {0} /\ e \in Nat /\ \A i \in k..e : a[i] \in Names
    BY <1>1, <1>2
  <2> HIDE DEF k, e
  <2>2. SubSeq(a, k, e) \in Seq(Names)
    BY <2>1, SubSeqProperties
  <2> QED BY <2>2 DEF k, e
<1> HIDE DEF rest
<1>4. Len(rest) \in Nat /\ \A i \in 1..Len(rest) : rest[i] \in Names
  BY <1>3
<1>5. Len(rest) >= 2 => SubSeq(rest, Len(rest) - 1, n) \in Seq(Names)
  <2> SUFFICES ASSUME Len(rest) >= 2 PROVE SubSeq(rest, Len(rest) - 1, n) \in Seq(Names)
    OBVIOUS
  <2> DEFINE k == Len(rest) - 1
  <2>1. k \in Int /\ n \in Int /\ \A i \in k..n : rest[i] \in Names
    BY <1>4
  <2> HIDE DEF k, n
  <2>2. SubSeq(rest, k, n) \in Seq(Names)
    BY <2>1, SubSeqProperties
  <2> QED BY <2>2 DEF k
<1>6. Context(src) = IF prefix = <<>> \/ Len(rest) < 2 THEN <<>> ELSE SubSeq(rest, Len(rest) - 1, n)
  BY DEF Context, rest
<1>7. <<>> \in Seq(Names)
  OBVIOUS
<1> QED BY <1>4, <1>5, <1>6, <1>7

\* A path through which no link leads ends where it says.
LEMMA LeadsToItself ==
  ASSUME NEW tr, NEW S, NEW p \in Seq(S),
         \A k \in 1..Len(p) : Resolved(tr, SubSeq(p, 1, k - 1)) = SubSeq(p, 1, k - 1)
                                => NodeAt(tr, SubSeq(p, 1, k)).kind # "link"
  PROVE  Resolved(tr, p) = p
<1> DEFINE n == Len(p)
           pre(k) == SubSeq(p, 1, k)
           T == {k \in 0..n : Resolved(tr, pre(k)) = pre(k)}
<1>1. n \in Nat
  OBVIOUS
<1>2. 0 \in T
  <2>1. pre(0) = <<>> /\ pre(0) \in Seq(S)
    BY SubSeqEmpty, EmptySeq
  <2>2. Resolved(tr, pre(0)) = pre(0)
    BY <2>1, ResolvedStep
  <2> QED BY <1>1, <2>2
<1>3. ASSUME NEW k \in 1..n, k - 1 \in T PROVE k \in T
  <2>1. k \in 0..n /\ k - 1 \in 0..n /\ k # 0
    BY <1>1
  <2>2. pre(k) \in Seq(S) /\ Len(pre(k)) = k /\ \A i \in 1..k : pre(k)[i] = p[i]
    <3> HIDE DEF pre
    <3> QED BY <2>1, PrefixIs DEF pre
  <2>3. pre(k) # <<>>
    BY <2>1, <2>2
  <2>4. Front(pre(k)) = pre(k - 1) /\ Append(Front(pre(k)), Last(pre(k))) = pre(k)
    <3>1. /\ Front(pre(k)) \in Seq(S) /\ Len(Front(pre(k))) = k - 1
          /\ \A i \in 1..(k - 1) : Front(pre(k))[i] = pre(k)[i]
          /\ Append(Front(pre(k)), Last(pre(k))) = pre(k)
      <4> HIDE DEF pre
      <4> QED BY <2>2, <2>3, FrontIs
    <3>2. pre(k - 1) \in Seq(S) /\ Len(pre(k - 1)) = k - 1 /\ \A i \in 1..(k - 1) : pre(k - 1)[i] = p[i]
      <4> DEFINE m == k - 1
      <4>1. m \in 0..Len(p)
        BY <2>1
      <4> HIDE DEF m
      <4> QED BY <4>1, PrefixIs DEF m
    <3>3. \A i \in 1..(k - 1) : i \in 1..k
      BY <2>1
    <3> HIDE DEF pre
    <3>4. \A i \in 1..Len(Front(pre(k))) : Front(pre(k))[i] = pre(k - 1)[i]
      BY <2>2, <3>1, <3>2, <3>3
    <3> QED BY <3>1, <3>2, <3>4, SeqEqual
  <2>5. Resolved(tr, pre(k - 1)) = pre(k - 1)
    BY <1>3
  <2>6. NodeAt(tr, pre(k)).kind # "link"
    BY <1>1, <2>5
  <2>7. Resolved(tr, pre(k)) = Followed(tr, pre(k))
    <3> HIDE DEF pre
    <3> QED BY <2>2, <2>3, <2>4, <2>5, ResolvedStep
  <2>8. Resolved(tr, pre(k)) = pre(k)
    <3> HIDE DEF pre
    <3> QED BY <2>6, <2>7 DEF Followed
  <2> QED BY <2>1, <2>8
<1> HIDE DEF T
<1>4. \A k \in 0..n : k \in T
  <2> HIDE DEF n
  <2> QED BY <1>1, <1>2, <1>3, ReachesAll
<1>5. n \in T
  BY <1>1, <1>4
<1>6. Resolved(tr, SubSeq(p, 1, Len(p))) = SubSeq(p, 1, Len(p))
  BY <1>5 DEF T
<1> QED BY <1>6, SubSeqFull

\* A link is seen at the end of a path that leads to itself before it.
LEMMA LinkIsSeen ==
  ASSUME NEW tr, NEW S, NEW p \in Seq(S), NEW k \in 1..Len(p),
         Resolved(tr, SubSeq(p, 1, k - 1)) = SubSeq(p, 1, k - 1),
         NodeAt(tr, SubSeq(p, 1, k)).kind = "link"
  PROVE  IsLink(tr, SubSeq(p, 1, k))
<1> DEFINE q == SubSeq(p, 1, k)
           f == SubSeq(p, 1, k - 1)
<1>1. k \in 0..Len(p) /\ k - 1 \in 0..Len(p) /\ k \in Nat \ {0}
  OBVIOUS
<1>2. q \in Seq(S) /\ Len(q) = k /\ \A i \in 1..k : q[i] = p[i]
  BY <1>1, PrefixIs
<1>3. f \in Seq(S) /\ Len(f) = k - 1 /\ \A i \in 1..(k - 1) : f[i] = p[i]
  <2> DEFINE m == k - 1
  <2>1. m \in 0..Len(p)
    BY <1>1
  <2> HIDE DEF m
  <2> QED BY <2>1, PrefixIs DEF m
<1>4. q # <<>>
  BY <1>1, <1>2
<1> HIDE DEF q, f
<1>5. /\ Front(q) \in Seq(S) /\ Len(Front(q)) = k - 1 /\ \A i \in 1..(k - 1) : Front(q)[i] = q[i]
      /\ Append(Front(q), Last(q)) = q
  BY <1>2, <1>4, FrontIs
<1>6. \A i \in 1..(k - 1) : i \in 1..k
  BY <1>1
<1>7. Front(q) = f
  <2>1. \A i \in 1..Len(Front(q)) : Front(q)[i] = f[i]
    BY <1>2, <1>3, <1>5, <1>6
  <2> QED BY <1>3, <1>5, <2>1, SeqEqual
<1>8. Append(Resolved(tr, Front(q)), Last(q)) = q
  BY <1>5, <1>7 DEF f
<1> QED BY <1>4, <1>8 DEF IsLink, q

\* Paths that begin alike have the same prefixes.
LEMMA SamePrefix ==
  ASSUME NEW S, NEW p \in Seq(S), NEW r \in Seq(S), NEW k \in 0..Len(p), k \in 0..Len(r),
         \A i \in 1..k : p[i] = r[i]
  PROVE  SubSeq(p, 1, k) = SubSeq(r, 1, k)
<1>1. SubSeq(p, 1, k) \in Seq(S) /\ Len(SubSeq(p, 1, k)) = k /\ \A i \in 1..k : SubSeq(p, 1, k)[i] = p[i]
  BY PrefixIs
<1>2. SubSeq(r, 1, k) \in Seq(S) /\ Len(SubSeq(r, 1, k)) = k /\ \A i \in 1..k : SubSeq(r, 1, k)[i] = r[i]
  BY PrefixIs
<1>3. \A i \in 1..k : SubSeq(p, 1, k)[i] = SubSeq(r, 1, k)[i]
  BY <1>1, <1>2
<1> QED BY <1>1, <1>2, <1>3, SeqEqual

\* A path made longer begins with the path it was.
LEMMA LongerBegins ==
  ASSUME NEW S, NEW p \in Seq(S), NEW r \in Seq(S)
  PROVE  IsPrefix(p, p \o r)
<1> DEFINE t == p \o r
           n == Len(p)
<1>1. t \in Seq(S) /\ Len(t) = n + Len(r) /\ \A i \in 1..(n + Len(r)) : t[i] = IF i <= n THEN p[i] ELSE r[i - n]
  BY ConcatProperties
<1>2. n \in Nat /\ Len(r) \in Nat
  OBVIOUS
<1> HIDE DEF t
<1>3. n <= Len(t) /\ n \in 0..Len(p) /\ n \in 0..Len(t)
  BY <1>1, <1>2
<1>4. \A i \in 1..n : p[i] = t[i]
  BY <1>1, <1>2
<1>5. SubSeq(p, 1, n) = SubSeq(t, 1, n)
  <2> HIDE DEF n
  <2> QED BY <1>1, <1>3, <1>4, SamePrefix
<1> QED BY <1>3, <1>5 DEF IsPrefix, t

\* A file that may be written lies in the folder it names: no link leads to it.
LEMMA NoWayOut ==
  ASSUME NEW tr, NEW S, NEW base \in Seq(S), NEW file \in Seq(S), file # <<>>,
         IsPrefix(base, Front(file)),
         ~CrossesLink(tr, base, <<>>), ~CrossesLink(tr, Front(file), base),
         \A q \in Above(file) : IsLink(tr, q) \/ IsThere(tr, q) => IsDir(tr, q)
  PROVE  Resolved(tr, Front(file)) = Front(file)
<1> DEFINE p == Front(file)
<1>1. /\ Len(file) \in Nat \ {0} /\ p \in Seq(S) /\ Len(p) = Len(file) - 1
      /\ \A i \in 1..(Len(file) - 1) : p[i] = file[i]
  BY FrontIs
<1> HIDE DEF p
<1>2. ASSUME NEW k \in 1..Len(p), Resolved(tr, SubSeq(p, 1, k - 1)) = SubSeq(p, 1, k - 1),
             NodeAt(tr, SubSeq(p, 1, k)).kind = "link"
      PROVE  FALSE
  <2> DEFINE q == SubSeq(p, 1, k)
  <2>1. IsLink(tr, q)
    BY <1>1, <1>2, LinkIsSeen
  <2>2. k \in Nat /\ k \in 0..Len(p) /\ k \in 0..Len(file) /\ k \in 1..(Len(file) - 1)
    BY <1>1
  <2>3. q = SubSeq(file, 1, k)
    BY <1>1, <2>2, SamePrefix
  <2>4. q \in Above(file)
    BY <2>2, <2>3 DEF Above
  <2> HIDE DEF q
  <2>5. IsDir(tr, q)
    BY <2>1, <2>4
  <2>6. IsThere(tr, q)
    BY <2>5 DEF IsDir, IsThere
  <2>7. Len(base) \in Nat /\ Len(base) <= Len(p) /\ SubSeq(base, 1, Len(base)) = SubSeq(p, 1, Len(base))
    BY DEF IsPrefix, p
  <2>8. CASE k <= Len(base)
    <3> DEFINE n == Len(base)
    <3>1. n \in 0..n /\ n \in 0..Len(p) /\ k \in 1..n /\ k \in 0..n
      BY <2>2, <2>7, <2>8
    <3>2. \A i \in 1..n : SubSeq(base, 1, n)[i] = base[i]
      BY <3>1, PrefixIs
    <3>3. \A i \in 1..n : SubSeq(p, 1, n)[i] = p[i]
      <4> HIDE DEF n
      <4> QED BY <1>1, <3>1, PrefixIs
    <3>4. \A i \in 1..k : p[i] = base[i]
      <4>1. \A i \in 1..k : i \in 1..n
        BY <2>7, <2>8
      <4> QED BY <2>7, <3>2, <3>3, <4>1
    <3>5. q = SubSeq(base, 1, k)
      BY <1>1, <2>2, <3>1, <3>4, SamePrefix DEF q
    <3>6. k \in (Len(<<>>) + 1)..Len(base)
      BY <3>1
    <3> QED BY <2>1, <2>6, <3>5, <3>6 DEF CrossesLink
  <2>9. CASE k > Len(base)
    <3>1. k \in (Len(base) + 1)..Len(p)
      BY <2>2, <2>7, <2>9
    <3> QED BY <2>1, <2>6, <3>1 DEF CrossesLink, p, q
  <2> QED BY <2>2, <2>7, <2>8, <2>9
<1>3. Resolved(tr, p) = p
  BY <1>1, <1>2, LeadsToItself
<1> QED BY <1>3 DEF p

-----------------------------------------------------------------------------
(* What a copy was promised, and what it does.                             *)

\* A job as its request left it: the context is in its subpath already.
Promised(k) ==
  /\ SourceTyped(k.src) /\ k.sub \in Seq(Names) /\ Subpath(k.src, k.sub) = k.sub
  /\ k.shown = k.sub /\ k.at = Destination(k.row, k.src, k.sub)

\* A job that has copied.
WentWherePreviewed(k) ==
  /\ {k.was.sub, k.was.shown, k.reported} = {k.sub}
  /\ k.row.remote_path = k.was.row.remote_path /\ k.row.policy = k.was.row.policy => k.at = k.was.at
StayedInside(k) ==
  k.row.kind = "local_mount" => k.reached = k.folder /\ IsPrefix(k.row.remote_path, k.folder)

CopyInv ==
  /\ copy = [j \in Copies |-> copy[j]]
  /\ \A j \in Copies : /\ copy[j].pc = "queued" => Promised(copy[j])
                       /\ copy[j].pc = "done" => WentWherePreviewed(copy[j]) /\ StayedInside(copy[j])

\* The destination of a copy is below the subpath.
LEMMA DestinationIs ==
  ASSUME NEW r, RowTyped(r), NEW src, SourceTyped(src), NEW sub \in Seq(Names)
  PROVE  \E end \in Seq(Names) : /\ Destination(r, src, sub) = r.remote_path \o sub \o end
                                 /\ src.isFile => Len(end) = 1
<1>1. Last(src.path) \in Names
  BY FrontIs DEF SourceTyped
<1>2. <<Last(src.path)>> \in Seq(Names) /\ <<>> \in Seq(Names) /\ Len(<<Last(src.path)>>) = 1
  BY <1>1
<1> QED BY <1>2 DEF Destination

\* The request stores the subpath that its preview shows.
LEMMA CopyPromised ==
  ASSUME RowInv, CopyInv, NEW j \in Copies, NEW src, SourceTyped(src), NEW sub \in Seq(Names),
         RequestCopy(j, src, sub)
  PROVE  CopyInv'
<1> DEFINE chosen == Subpath(src, sub)
           shown == Subpath(src, chosen)
           new == [pc |-> "queued", src |-> src, sub |-> chosen, row |-> row,
                   shown |-> shown, at |-> Destination(row, src, shown)]
<1>1. copy' = [copy EXCEPT ![j] = new]
  BY DEF RequestCopy
<1>2. chosen \in Seq(Names) /\ shown = chosen
  BY ContextTyped, ContextOnce DEF Subpath
<1>3. Promised(new)
  <2> HIDE DEF chosen
  <2>1. new.src = src /\ new.sub = chosen /\ new.row = row /\ new.shown = shown /\ new.at = Destination(row, src, shown)
    OBVIOUS
  <2> HIDE DEF new
  <2> QED BY <1>2, <2>1 DEF Promised
<1>4. new.pc = "queued"
  OBVIOUS
<1> HIDE DEF new
<1>5. copy' = [i \in Copies |-> IF i = j THEN new ELSE copy[i]]
  BY <1>1 DEF CopyInv
<1>6. ASSUME NEW i \in Copies
      PROVE  /\ copy'[i].pc = "queued" => Promised(copy'[i])
             /\ copy'[i].pc = "done" => WentWherePreviewed(copy'[i]) /\ StayedInside(copy'[i])
  <2>1. copy'[i] = IF i = j THEN new ELSE copy[i]
    BY <1>5
  <2> QED BY <1>3, <1>4, <2>1 DEF CopyInv
<1>7. copy' = [i \in Copies |-> copy'[i]]
  BY <1>5
<1> QED BY <1>6, <1>7 DEF CopyInv, Promised, WentWherePreviewed, StayedInside

\* A path with a name more.
LEMMA AppendIs ==
  ASSUME NEW S, NEW p \in Seq(S), NEW x \in S
  PROVE  /\ Append(p, x) = p \o <<x>> /\ <<x>> \in Seq(S) /\ Append(p, x) \in Seq(S)
         /\ Front(Append(p, x)) = p /\ Append(p, x) # <<>>
<1>1. Append(p, x) = p \o <<x>> /\ <<x>> \in Seq(S) /\ Append(p, x) \in Seq(S)
  OBVIOUS
<1>2. Len(Append(p, x)) = Len(p) + 1 /\ Len(p) \in Nat /\ \A i \in 1..Len(p) : Append(p, x)[i] = p[i]
  OBVIOUS
<1>3. Append(p, x) # <<>>
  BY <1>2, EmptySeq
<1> DEFINE t == Append(p, x)
<1> HIDE DEF t
<1>4. Front(t) \in Seq(S) /\ Len(Front(t)) = Len(t) - 1 /\ \A i \in 1..(Len(t) - 1) : Front(t)[i] = t[i]
  BY <1>1, <1>3, FrontIs DEF t
<1>5. Len(t) - 1 = Len(p) /\ \A i \in 1..Len(p) : t[i] = p[i]
  BY <1>2 DEF t
<1>6. \A i \in 1..Len(p) : Front(t)[i] = p[i]
  BY <1>4, <1>5
<1>7. Front(t) = p
  BY <1>4, <1>5, <1>6, SeqEqual
<1> QED BY <1>1, <1>3, <1>7 DEF t

\* Where a job copies: into a folder below the base, with or without the file.
LEMMA FolderIs ==
  ASSUME NEW r, RowTyped(r), NEW src, SourceTyped(src), NEW sub \in Seq(Names), NEW file,
         file = IF src.isFile THEN Destination(r, src, sub) ELSE Append(Destination(r, src, sub), Leaf)
  PROVE  /\ file \in Seq(Names \cup {Leaf}) /\ file # <<>>
         /\ IsPrefix(r.remote_path, Front(file))
<1> DEFINE S == Names \cup {Leaf}
           base == r.remote_path
<1>1. base \in Seq(S) /\ sub \in Seq(S)
  <2>1. base \in Seq(Names) /\ Names \subseteq S
    BY DEF RowTyped
  <2> HIDE DEF S, base
  <2> QED BY <2>1, SeqMonotonic
<1>2. PICK end \in Seq(Names) : /\ Destination(r, src, sub) = base \o sub \o end
                                /\ src.isFile => Len(end) = 1
  BY DestinationIs
<1>3. end \in Seq(S)
  <2>1. Names \subseteq S
    OBVIOUS
  <2> HIDE DEF S
  <2> QED BY <2>1, SeqMonotonic
<1> DEFINE at == Destination(r, src, sub)
           last == IF src.isFile THEN end ELSE Append(end, Leaf)
<1>4. last \in Seq(S) /\ last # <<>>
  <2>1. CASE src.isFile
    <3>1. Len(end) = 1 => end # <<>>
      <4> HIDE DEF S, base
      <4>1. Len(<<>>) = 0
        OBVIOUS
      <4> QED BY <4>1
    <3> QED BY <1>2, <1>3, <2>1, <3>1
  <2>2. CASE ~src.isFile
    <3>1. Append(end, Leaf) \in Seq(S) /\ Len(Append(end, Leaf)) = Len(end) + 1 /\ Len(end) \in Nat
      BY <1>3
    <3>2. Append(end, Leaf) # <<>>
      BY <3>1, EmptySeq
    <3> QED BY <2>2, <3>1, <3>2
  <2> QED BY <2>1, <2>2
<1> DEFINE whole == base \o sub
<1>5. file = whole \o last
  <2>1. CASE src.isFile
    BY <1>2, <2>1
  <2>2. CASE ~src.isFile
    <3>1. base \o sub \in Seq(S)
      BY <1>1
    <3>2. Append(whole \o end, Leaf) = whole \o Append(end, Leaf)
      <4>1. Leaf \in S
        OBVIOUS
      <4> HIDE DEF S, whole
      <4>2. whole \in Seq(S)
        BY <3>1 DEF whole
      <4>3. /\ Append(whole \o end, Leaf) = (whole \o end) \o <<Leaf>>
            /\ Append(end, Leaf) = end \o <<Leaf>> /\ <<Leaf>> \in Seq(S)
        BY <1>3, <4>1, <4>2, AppendIs
      <4> QED BY <1>3, <4>2, <4>3, ConcatAssociative
    <3> QED BY <1>2, <2>2, <3>2
  <2> QED BY <2>1, <2>2
<1> HIDE DEF S, last, at
<1>6. whole \in Seq(S)
  BY <1>1, ConcatProperties
<1>7. PICK f \in Seq(S), x \in S : last = Append(f, x)
  BY <1>4, SequenceEmptyOrAppend
<1> HIDE DEF whole
<1>8. last = f \o <<x>> /\ <<x>> \in Seq(S)
  BY <1>7, AppendIs
<1>9. whole \o f \in Seq(S) /\ whole \o (f \o <<x>>) = (whole \o f) \o <<x>>
  BY <1>6, <1>8, ConcatProperties, ConcatAssociative
<1>10. file = Append(whole \o f, x)
  BY <1>5, <1>8, <1>9, AppendIs
<1>11. Front(file) = whole \o f /\ file # <<>> /\ file \in Seq(S)
  <2> DEFINE w == whole \o f
           v == Append(w, x)
  <2>1. w \in Seq(S) /\ file = v
    BY <1>9, <1>10
  <2> HIDE DEF w
  <2>2. v \in Seq(S) /\ Front(v) = w /\ v # <<>>
    BY <2>1, AppendIs
  <2> HIDE DEF v
  <2>3. Front(file) = w /\ file # <<>> /\ file \in Seq(S)
    BY <2>1, <2>2
  <2> QED BY <2>3 DEF w
<1>12. sub \o f \in Seq(S) /\ whole \o f = base \o (sub \o f)
  <2> HIDE DEF base
  <2>1. base \in Seq(S) /\ sub \in Seq(S) /\ f \in Seq(S)
    BY <1>1
  <2>2. (base \o sub) \o f = base \o (sub \o f)
    BY <2>1, ConcatAssociative, SMTT(60)
  <2>3. sub \o f \in Seq(S)
    BY <2>1, ConcatProperties
  <2> QED BY <2>2, <2>3 DEF whole
<1>13. IsPrefix(base, base \o (sub \o f))
  <2> HIDE DEF base
  <2> QED BY <1>1, <1>12, LongerBegins
<1> QED BY <1>11, <1>12, <1>13 DEF S

\* Two rows with one path and one policy have one destination.
LEMMA SameDestination ==
  ASSUME NEW r, NEW q, NEW src, NEW sub, r.remote_path = q.remote_path, r.policy = q.policy
  PROVE  Destination(r, src, sub) = Destination(q, src, sub)
BY DEF Destination

\* A job that runs adds nothing to its subpath, and writes where it says.
LEMMA CopyRuns == ASSUME RowInv, CopyInv, NEW j \in Copies, RunJob(j) PROVE CopyInv'
<1> DEFINE src == copy[j].src
           sub == RunSubpath(row, src, copy[j].sub)
           at == Destination(row, src, sub)
           reported == Subpath(src, sub)
           file == IF src.isFile THEN at ELSE Append(at, Leaf)
           ended(s) == [pc |-> s, was |-> copy[j], sub |-> sub, reported |-> reported, at |-> at,
                        row |-> row, folder |-> Front(file), reached |-> Resolved(tree, Front(file))]
<1>1. Promised(copy[j])
  BY DEF RunJob, CopyInv
<1>2. /\ SourceTyped(src) /\ copy[j].sub \in Seq(Names) /\ Subpath(src, copy[j].sub) = copy[j].sub
      /\ copy[j].shown = copy[j].sub /\ copy[j].at = Destination(copy[j].row, src, copy[j].sub)
  BY <1>1 DEF Promised
<1>3. sub = copy[j].sub /\ reported = sub
  BY <1>2 DEF RunSubpath
<1>4. PICK s \in {"done", "failed"} :
        /\ copy' = [copy EXCEPT ![j] = ended(s)]
        /\ s = "done" => Admitted(row, src, reported) /\ (row.kind = "local_mount" => MayWrite(row, file))
  BY DEF RunJob
<1> DEFINE k == ended(s)
<1>5. /\ k.pc = s /\ k.was = copy[j] /\ k.sub = sub /\ k.reported = reported /\ k.at = at /\ k.row = row
      /\ k.folder = Front(file) /\ k.reached = Resolved(tree, Front(file))
  <2> HIDE DEF src, sub, at, reported, file
  <2> QED OBVIOUS
<1> HIDE DEF k
<1>6. WentWherePreviewed(k)
  <2>1. {k.was.sub, k.was.shown, k.reported} = {k.sub}
    BY <1>2, <1>3, <1>5
  <2>2. ASSUME k.row.remote_path = k.was.row.remote_path, k.row.policy = k.was.row.policy
        PROVE  k.at = k.was.at
    <3>1. k.at = Destination(row, src, sub) /\ k.was.at = Destination(copy[j].row, src, sub)
      BY <1>2, <1>3, <1>5
    <3>2. row.remote_path = copy[j].row.remote_path /\ row.policy = copy[j].row.policy
      BY <1>5, <2>2
    <3> HIDE DEF src, sub
    <3> QED BY <3>1, <3>2, SameDestination
  <2> QED BY <2>1, <2>2 DEF WentWherePreviewed
<1>7. ASSUME s = "done" PROVE StayedInside(k)
  <2> SUFFICES ASSUME row.kind = "local_mount"
               PROVE  Resolved(tree, Front(file)) = Front(file) /\ IsPrefix(row.remote_path, Front(file))
    BY <1>5 DEF StayedInside
  <2>1. sub \in Seq(Names) /\ RowTyped(row)
    BY <1>2, <1>3 DEF RowInv
  <2> HIDE DEF sub
  <2>2. /\ file \in Seq(Names \cup {Leaf}) /\ file # <<>>
        /\ IsPrefix(row.remote_path, Front(file))
    BY <1>2, <2>1, FolderIs
  <2>3. row.remote_path \in Seq(Names \cup {Leaf})
    <3>1. row.remote_path \in Seq(Names) /\ Names \subseteq Names \cup {Leaf}
      BY <2>1 DEF RowTyped
    <3> QED BY <3>1, SeqMonotonic
  <2> HIDE DEF src, at, file, reported
  <2>4. BaseAccepted(tree, row.remote_path) /\ MayWrite(row, file)
    BY <1>4, <1>7 DEF Admitted, Preflight
  <2>5. /\ ~CrossesLink(tree, row.remote_path, <<>>) /\ ~CrossesLink(tree, Front(file), row.remote_path)
        /\ \A q \in Above(file) : IsLink(tree, q) \/ IsThere(tree, q) => IsDir(tree, q)
    BY <2>4 DEF BaseAccepted, MayWrite, Within
  <2> QED BY <2>2, <2>3, <2>5, NoWayOut
<1>8. copy' = [i \in Copies |-> IF i = j THEN k ELSE copy[i]]
  BY <1>4 DEF CopyInv, k
<1>9. ASSUME NEW i \in Copies
      PROVE  /\ copy'[i].pc = "queued" => Promised(copy'[i])
             /\ copy'[i].pc = "done" => WentWherePreviewed(copy'[i]) /\ StayedInside(copy'[i])
  <2>1. copy'[i] = IF i = j THEN k ELSE copy[i]
    BY <1>8
  <2>2. k.pc # "queued" /\ (k.pc = "done" => s = "done")
    BY <1>4, <1>5
  <2> QED BY <1>6, <1>7, <2>1, <2>2 DEF CopyInv
<1>10. copy' = [i \in Copies |-> copy'[i]]
  BY <1>8
<1> QED BY <1>9, <1>10 DEF CopyInv, Promised, WentWherePreviewed, StayedInside

\* The invariant of the copies holds at the start and through every step.
LEMMA CopyStart == ASSUME TargetInit PROVE CopyInv
<1>1. copy = [j \in Copies |-> NoJob]
  BY DEF TargetInit
<1>2. copy = [j \in Copies |-> copy[j]] /\ \A j \in Copies : copy[j].pc = "none"
  BY <1>1 DEF NoJob
<1> QED BY <1>2 DEF CopyInv

\* No step breaks the invariant of the copies.
LEMMA CopyStep == ASSUME RowInv, CopyInv, [TargetNext]_targetVars PROVE CopyInv'
<1>1. ASSUME NEW j \in Copies, RequestFile(j) PROVE CopyInv'
  <2>1. PICK src \in setting.sources, raw \in setting.subpaths :
          /\ DestinationSubpath(raw).ok
          /\ RequestCopy(j, src, IF DestinationSubpath(raw).path = <<>> THEN Routed(row, src)
                                                                         ELSE DestinationSubpath(raw).path)
    BY <1>1 DEF RequestFile
  <2>2. SourceTyped(src) /\ RawTyped(raw) /\ RowTyped(row)
    BY DEF RowInv, SettingTyped
  <2>3. Routed(row, src) \in Seq(Names) /\ DestinationSubpath(raw).path \in Seq(Names)
    BY <2>2, RouteTyped, PathTyped
  <2>4. PICK sub \in Seq(Names) : RequestCopy(j, src, sub)
    BY <2>1, <2>3
  <2> QED BY <2>2, <2>4, CopyPromised
<1>2. ASSUME NEW j \in Copies, RequestResource(j) PROVE CopyInv'
  <2>1. PICK src \in setting.sources : RequestCopy(j, src, ResourceRouted(row, src))
    BY <1>2 DEF RequestResource
  <2>2. SourceTyped(src) /\ RowTyped(row)
    BY DEF RowInv, SettingTyped
  <2>3. ResourceRouted(row, src) \in Seq(Names)
    BY <2>2, RouteTyped
  <2> QED BY <2>1, <2>2, <2>3, CopyPromised
<1>3. ASSUME NEW j \in Copies, RunJob(j) PROVE CopyInv'
  BY <1>3, CopyRuns
<1>4. CASE UNCHANGED copy
  BY <1>4 DEF CopyInv, Promised, WentWherePreviewed, StayedInside
<1>5. [TargetNext]_targetVars =>
        (\E j \in Copies : RequestFile(j) \/ RequestResource(j) \/ RunJob(j)) \/ UNCHANGED copy
  BY DEF TargetNext, targetVars, CreateTarget, DeleteTarget, OwnerChanges, BrowsePage, BrowseRefused,
         PatchArrives, PatchApplies
<1> QED BY <1>1, <1>2, <1>3, <1>4, <1>5

\* A copy lands where its preview said, below the subpath its request stored
\* and inside the mounted folder, whatever happens to the policy and to the
\* folder in between.  run_transfer_copy_job, _copy_source_file_to_local_mount
THEOREM CopiesLandAsPreviewed == TargetSpec => []CopyLandsAsPreviewed
<1>1. TargetInit => CopyInv
  BY CopyStart
<1>2. RowInv /\ CopyInv /\ [TargetNext]_targetVars => CopyInv'
  BY CopyStep
<1>3. CopyInv => CopyLandsAsPreviewed
  BY DEF CopyInv, CopyLandsAsPreviewed, CopyGoesWherePreviewed, WritesInside, WentWherePreviewed, StayedInside
<1> QED BY <1>1, <1>2, <1>3, RowHolds, PTL DEF TargetSpec

-----------------------------------------------------------------------------
(* The pages of a folder.                                                  *)

\* Sequences of folders in the order of their names.
Ascending(s) == \A i, j \in 1..Len(s) : i < j => Rank[s[i]] < Rank[s[j]]

\* A folder with fewer before it comes first, and every place is taken.
LEMMA PlacesFill ==
  ASSUME NEW D \in SUBSET Names, NEW place \in [D -> Nat],
         \A n \in D : place[n] = Cardinality({m \in D : Rank[m] < Rank[n]})
  PROVE  /\ Cardinality(D) \in Nat
         /\ \A n \in D : place[n] \in 0..(Cardinality(D) - 1)
         /\ \A m, n \in D : Rank[m] < Rank[n] => place[m] < place[n]
         /\ \A i \in 0..(Cardinality(D) - 1) : \E n \in D : place[n] = i
<1> DEFINE before(n) == {m \in D : Rank[m] < Rank[n]}
           c == Cardinality(D)
<1>1. IsFiniteSet(D) /\ c \in Nat
  BY NamesAssumption, FS_Subset, FS_CardinalityType
<1>2. \A n \in D : Rank[n] \in Nat
  BY NamesAssumption
<1>3. \A n \in D : before(n) \subseteq D /\ IsFiniteSet(before(n)) /\ Cardinality(before(n)) \in Nat
  <2> TAKE n \in D
  <2>1. before(n) \in SUBSET D
    OBVIOUS
  <2>2. IsFiniteSet(before(n))
    BY <1>1, <2>1, FS_Subset
  <2> QED BY <2>1, <2>2, FS_CardinalityType
<1>4. ASSUME NEW A, NEW B, IsFiniteSet(B), A \subseteq B, NEW x \in B, x \notin A
      PROVE  Cardinality(A) < Cardinality(B)
  <2>1. /\ IsFiniteSet(A) /\ Cardinality(A) <= Cardinality(B) /\ (Cardinality(A) = Cardinality(B) => A = B)
    BY <1>4, FS_Subset
  <2>2. Cardinality(A) \in Nat /\ Cardinality(B) \in Nat
    BY <1>4, <2>1, FS_CardinalityType
  <2> QED BY <1>4, <2>1, <2>2
<1>5. ASSUME NEW n \in D PROVE place[n] \in 0..(c - 1)
  <2>1. n \in D /\ n \notin before(n) /\ before(n) \subseteq D
    BY <1>2
  <2>2. Cardinality(before(n)) < c
    <3> HIDE DEF before
    <3> QED BY <1>1, <1>4, <2>1
  <2> HIDE DEF c
  <2> QED BY <1>1, <1>3, <2>2
<1>6. ASSUME NEW m \in D, NEW n \in D, Rank[m] < Rank[n] PROVE place[m] < place[n]
  <2>1. before(m) \subseteq before(n)
    BY <1>2, <1>6
  <2>2. m \in before(n) /\ m \notin before(m)
    BY <1>2, <1>6
  <2>3. Cardinality(before(m)) < Cardinality(before(n))
    <3> HIDE DEF before
    <3> QED BY <1>3, <1>4, <2>1, <2>2
  <2> QED BY <2>3
<1>7. \A i \in 0..(c - 1) : \E n \in D : place[n] = i
  <2> DEFINE T == 0..(c - 1)
  <2>1. IsFiniteSet(T) /\ Cardinality(T) = c
    <3>1. 0 \in Int /\ c - 1 \in Int /\ (0 > c - 1 => c = 0) /\ c - 1 - 0 + 1 = c
      BY <1>1
    <3> HIDE DEF c
    <3> QED BY <3>1, FS_Interval
  <2>2. place \in Injection(D, T)
    <3>1. place \in [D -> T]
      BY <1>5
    <3>2. \A m, n \in D : place[m] = place[n] => m = n
      <4> SUFFICES ASSUME NEW m \in D, NEW n \in D, place[m] = place[n], Rank[m] # Rank[n] PROVE FALSE
        BY RankAssumption
      <4>1. Rank[m] < Rank[n] \/ Rank[n] < Rank[m]
        BY <1>2
      <4> QED BY <1>6, <4>1
    <3> HIDE DEF T
    <3> QED BY <3>1, <3>2 DEF Injection, IsInjective
  <2>3. place \in Surjection(D, T)
    <3> HIDE DEF T, c
    <3>1. Cardinality(D) = Cardinality(T)
      BY <2>1 DEF c
    <3> QED BY <2>1, <2>2, <3>1, FS_Injection
  <2> HIDE DEF T
  <2>4. \A i \in T : \E n \in D : place[n] = i
    BY <2>3 DEF Surjection
  <2> QED BY <2>4 DEF T
<1> QED BY <1>1, <1>5, <1>6, <1>7

\* A folder's listing has its folders, each once, in the order of their names.
LEMMA ListedIs ==
  ASSUME NEW tr, NEW p
  PROVE  /\ Listed(tr, p) \in Seq(ChildDirs(tr, p))
         /\ \A n \in ChildDirs(tr, p) : \E i \in 1..Len(Listed(tr, p)) : Listed(tr, p)[i] = n
         /\ Ascending(Listed(tr, p))
<1> DEFINE D == ChildDirs(tr, p)
           L == Listed(tr, p)
           c == Cardinality(D)
           place == [n \in D |-> Cardinality({m \in D : Rank[m] < Rank[n]})]
<1>1. D \in SUBSET Names
  BY DEF ChildDirs
<1>2. L = [i \in 1..c |-> CHOOSE n \in D : Cardinality({m \in D : Rank[m] < Rank[n]}) = i - 1]
  BY DEF Listed
<1> HIDE DEF D, L
<1>3. place \in [D -> Nat]
  <2> SUFFICES ASSUME NEW n \in D PROVE Cardinality({m \in D : Rank[m] < Rank[n]}) \in Nat
    OBVIOUS
  <2>1. {m \in D : Rank[m] < Rank[n]} \in SUBSET D /\ IsFiniteSet(D)
    BY <1>1, NamesAssumption, FS_Subset
  <2> QED BY <2>1, FS_Subset, FS_CardinalityType
<1>4. \A n \in D : place[n] = Cardinality({m \in D : Rank[m] < Rank[n]})
  OBVIOUS
<1> HIDE DEF place
<1>5. /\ c \in Nat
      /\ \A n \in D : place[n] \in 0..(c - 1)
      /\ \A m, n \in D : Rank[m] < Rank[n] => place[m] < place[n]
      /\ \A i \in 0..(c - 1) : \E n \in D : place[n] = i
  BY <1>1, <1>3, <1>4, PlacesFill
<1> HIDE DEF c
<1>6. \A n \in D : Rank[n] \in Nat /\ place[n] \in Nat
  BY <1>1, <1>3, NamesAssumption
<1>7. \A m, n \in D : place[m] = place[n] => m = n
  <2> SUFFICES ASSUME NEW m \in D, NEW n \in D, place[m] = place[n], Rank[m] # Rank[n] PROVE FALSE
    BY <1>1, RankAssumption
  <2>1. Rank[m] < Rank[n] \/ Rank[n] < Rank[m]
    BY <1>6
  <2> QED BY <1>5, <1>6, <2>1
<1>8. ASSUME NEW i \in 1..c PROVE L[i] \in D /\ place[L[i]] = i - 1
  <2>1. \E n \in D : Cardinality({m \in D : Rank[m] < Rank[n]}) = i - 1
    <3>1. i - 1 \in 0..(c - 1)
      BY <1>5
    <3> QED BY <1>4, <1>5, <3>1
  <2>2. L[i] = CHOOSE n \in D : Cardinality({m \in D : Rank[m] < Rank[n]}) = i - 1
    BY <1>2
  <2>3. L[i] \in D /\ Cardinality({m \in D : Rank[m] < Rank[L[i]]}) = i - 1
    BY <2>1, <2>2
  <2> QED BY <1>4, <2>3
<1>9. L \in Seq(D) /\ Len(L) = c
  <2>1. L \in [1..c -> D]
    BY <1>2, <1>8
  <2> QED BY <1>5, <2>1
<1>10. ASSUME NEW n \in D PROVE \E i \in 1..Len(L) : L[i] = n
  <2> DEFINE i == place[n] + 1
  <2>1. i \in 1..c /\ i - 1 = place[n]
    BY <1>5
  <2> HIDE DEF i
  <2>2. L[i] = n
    BY <1>7, <1>8, <2>1
  <2> QED BY <1>9, <2>1, <2>2
<1>11. Ascending(L)
  <2> SUFFICES ASSUME NEW i \in 1..c, NEW j \in 1..c, i < j PROVE Rank[L[i]] < Rank[L[j]]
    BY <1>9 DEF Ascending
  <2>1. L[i] \in D /\ L[j] \in D /\ place[L[i]] = i - 1 /\ place[L[j]] = j - 1
    BY <1>8
  <2>2. place[L[i]] < place[L[j]]
    BY <2>1
  <2>3. Rank[L[j]] < Rank[L[i]] => FALSE
    BY <1>5, <1>6, <2>1, <2>2
  <2>4. Rank[L[j]] = Rank[L[i]] => FALSE
    <3>1. Rank[L[j]] = Rank[L[i]] => L[j] = L[i]
      BY <1>1, <2>1, RankAssumption
    <3> QED BY <1>6, <2>1, <2>2, <3>1
  <2> QED BY <1>6, <2>1, <2>3, <2>4
<1> QED BY <1>9, <1>10, <1>11 DEF D, L

\* One page has the folders after the cursor up to its last one, or all of
\* them when it is the last page.
LEMMA PageIs ==
  ASSUME NEW tr, NEW p, NEW cursor, Page(tr, p, cursor).ok
  PROVE  LET page == Page(tr, p, cursor)
         IN  /\ page.items \in Seq(Names) /\ Ascending(page.items)
             /\ cursor # NoCursor =>
                  cursor \in Names /\ \A i \in 1..Len(page.items) : Rank[cursor] < Rank[page.items[i]]
             /\ page.next # NoCursor =>
                  /\ page.items # <<>> /\ page.next = Last(page.items)
             /\ \A n \in ChildDirs(tr, p) :
                  /\ cursor # NoCursor => Rank[cursor] < Rank[n]
                  /\ page.next # NoCursor => Rank[n] <= Rank[page.next]
                  => \E i \in 1..Len(page.items) : page.items[i] = n
<1> DEFINE page == Page(tr, p, cursor)
           L == Listed(tr, p)
           D == ChildDirs(tr, p)
           from == PageFrom(L, cursor)
           e == Min({Len(L), from + PageLimit - 1})
           items == SubSeq(L, from, e)
<1>1. cursor # NoCursor => cursor \in ToSet(L)
  BY DEF Page, PageRefused
<1>2. page = [ok |-> TRUE, items |-> items, next |-> IF from + PageLimit <= Len(L) THEN Last(items) ELSE NoCursor]
  <2> HIDE DEF L, from, e, items
  <2> QED BY <1>1 DEF Page, L, from, e, items
<1>3. page.items = items /\ page.next = IF from + PageLimit <= Len(L) THEN Last(items) ELSE NoCursor
  <2> HIDE DEF items, from, L
  <2> QED BY <1>2
<1> HIDE DEF page
<1>4. /\ L \in Seq(D) /\ Ascending(L) /\ (\A n \in D : \E i \in 1..Len(L) : L[i] = n)
      /\ D \subseteq Names /\ Len(L) \in Nat /\ DOMAIN L = 1..Len(L) /\ \A i \in 1..Len(L) : L[i] \in D
  <2>1. L \in Seq(D) /\ Ascending(L) /\ (\A n \in D : \E i \in 1..Len(L) : L[i] = n)
    BY ListedIs
  <2>2. D \subseteq Names
    BY DEF ChildDirs
  <2> HIDE DEF L, D
  <2> QED BY <2>1, <2>2
<1> HIDE DEF L, D
<1>5. \A n \in D : n \in Names /\ Rank[n] \in Nat
  BY <1>4, NamesAssumption
<1>6. /\ from \in 1..(Len(L) + 1)
      /\ cursor = NoCursor => from = 1
      /\ cursor # NoCursor => from > 1 /\ L[from - 1] = cursor /\ from - 1 \in 1..Len(L)
  <2>1. CASE cursor = NoCursor
    BY <1>4, <2>1 DEF PageFrom
  <2>2. CASE cursor # NoCursor
    <3> DEFINE i == CHOOSE i \in 1..Len(L) : L[i] = cursor
    <3>1. \E k \in 1..Len(L) : L[k] = cursor
      BY <1>1, <1>4, <2>2 DEF ToSet
    <3>2. i \in 1..Len(L) /\ L[i] = cursor
      BY <3>1
    <3>3. from = 1 + i
      BY <2>2 DEF PageFrom
    <3> HIDE DEF i, from
    <3> QED BY <1>4, <2>2, <3>2, <3>3
  <2> QED BY <2>1, <2>2
<1> HIDE DEF from
<1>7. PageLimit \in Nat \ {0}
  BY NamesAssumption
<1>8. e = IF from + PageLimit <= Len(L) THEN from + PageLimit - 1 ELSE Len(L)
  <2> DEFINE N == {Len(L), from + PageLimit - 1}
             x == IF from + PageLimit <= Len(L) THEN from + PageLimit - 1 ELSE Len(L)
  <2>1. x \in N /\ \A y \in N : x <= y
    BY <1>4, <1>6, <1>7
  <2>2. \A y \in N : y \in Int
    BY <1>4, <1>6, <1>7
  <2>3. x \in N /\ x \in Int
    BY <2>1, <2>2
  <2> HIDE DEF N, x
  <2>4. \A y \in N : (\A z \in N : y <= z) => y = x
    BY <2>1, <2>2, <2>3
  <2>5. (CHOOSE y \in N : \A z \in N : y <= z) = x
    BY <2>1, <2>3, <2>4
  <2>6. Min(N) = x
    BY <2>5 DEF Min
  <2> QED BY <2>6 DEF N, x
<1> HIDE DEF e
<1>9. e \in Nat /\ e <= Len(L) /\ from - 1 <= e
  <2> DEFINE l == Len(L)
  <2>1. l \in Nat /\ from \in 1..(l + 1)
    BY <1>4, <1>6
  <2> HIDE DEF l
  <2>2. e = IF from + PageLimit <= l THEN from + PageLimit - 1 ELSE l
    BY <1>8 DEF l
  <2>3. e \in Nat /\ e <= l /\ from - 1 <= e
    <3>1. CASE from + PageLimit <= l
      BY <1>7, <2>1, <2>2, <3>1
    <3>2. CASE ~(from + PageLimit <= l)
      BY <1>7, <2>1, <2>2, <3>2
    <3> QED BY <3>1, <3>2
  <2> QED BY <2>3 DEF l
<1>10. /\ items \in Seq(D) /\ Len(items) = e - from + 1
       /\ \A i \in 1..(e - from + 1) : items[i] = L[from + i - 1] /\ from + i - 1 \in 1..Len(L)
  <2>1. from \in Int /\ e \in Int /\ \A i \in from..e : L[i] \in D
    BY <1>4, <1>6, <1>9
  <2>2. /\ items \in Seq(D) /\ Len(items) = IF from <= e THEN e - from + 1 ELSE 0
        /\ \A i \in 1..(e - from + 1) : items[i] = L[from + i - 1]
    BY <2>1, SubSeqProperties
  <2> HIDE DEF items
  <2>3. from > e => e - from + 1 = 0
    BY <1>6, <1>9
  <2>4. \A i \in 1..(e - from + 1) : from + i - 1 \in 1..Len(L)
    BY <1>4, <1>6, <1>9
  <2>5. Len(items) = e - from + 1
    BY <2>1, <2>2, <2>3
  <2> QED BY <2>2, <2>4, <2>5
<1> HIDE DEF items
<1>11. items \in Seq(Names)
  BY <1>4, <1>10, SeqMonotonic
<1> DEFINE c == e - from + 1
<1>12. c \in Nat
  BY <1>4, <1>6, <1>9
<1>13. Ascending(items)
  <2> SUFFICES ASSUME NEW i \in 1..c, NEW j \in 1..c, i < j PROVE Rank[items[i]] < Rank[items[j]]
    BY <1>10 DEF Ascending
  <2>1. from + i - 1 < from + j - 1
    BY <1>6, <1>12
  <2>2. /\ items[i] = L[from + i - 1] /\ from + i - 1 \in 1..Len(L)
        /\ items[j] = L[from + j - 1] /\ from + j - 1 \in 1..Len(L)
    BY <1>10
  <2> QED BY <1>4, <2>1, <2>2 DEF Ascending
<1>14. ASSUME cursor # NoCursor
       PROVE  cursor \in Names /\ \A i \in 1..c : Rank[cursor] < Rank[items[i]]
  <2>1. cursor \in Names
    BY <1>4, <1>6, <1>14
  <2>2. ASSUME NEW i \in 1..c PROVE Rank[cursor] < Rank[items[i]]
    <3>1. from - 1 < from + i - 1
      BY <1>6, <1>12
    <3>2. items[i] = L[from + i - 1] /\ from + i - 1 \in 1..Len(L)
      BY <1>10
    <3> QED BY <1>4, <1>6, <1>14, <3>1, <3>2 DEF Ascending
  <2> QED BY <2>1, <2>2
<1>15. ASSUME page.next # NoCursor
       PROVE  items # <<>> /\ page.next = Last(items) /\ page.next = L[e] /\ e \in 1..Len(L)
  <2>1. from + PageLimit <= Len(L) /\ page.next = Last(items)
    BY <1>3, <1>15
  <2>2. e = from + PageLimit - 1 /\ c = PageLimit
    BY <1>6, <1>7, <1>8, <2>1
  <2>3. c \in 1..c /\ from + c - 1 = e /\ e \in 1..Len(L)
    BY <1>4, <1>6, <1>7, <2>1, <2>2
  <2>4. Len(items) = c /\ c # 0
    BY <1>7, <1>10, <2>2
  <2>5. items # <<>>
    BY <1>10, <2>4, EmptySeq
  <2>6. Last(items) = L[e]
    BY <1>10, <2>3, <2>4 DEF Last
  <2> QED BY <2>1, <2>3, <2>5, <2>6
<1>16. ASSUME NEW n \in D, cursor # NoCursor => Rank[cursor] < Rank[n],
              page.next # NoCursor => Rank[n] <= Rank[page.next]
       PROVE  \E i \in 1..c : items[i] = n
  <2>1. PICK k \in 1..Len(L) : L[k] = n
    BY <1>4
  <2>2. k >= from
    <3>1. CASE cursor = NoCursor
      BY <1>6, <2>1, <3>1
    <3>2. CASE cursor # NoCursor
      <4> SUFFICES ASSUME k <= from - 1 PROVE FALSE
        BY <1>4, <1>6, <2>1
      <4>1. from - 1 \in 1..Len(L) /\ L[from - 1] = cursor
        BY <1>6, <3>2
      <4>2. CASE k = from - 1
        BY <1>5, <1>16, <2>1, <3>2, <4>1, <4>2
      <4>3. CASE k < from - 1
        <5>1. Rank[n] < Rank[cursor]
          BY <1>4, <2>1, <4>1, <4>3 DEF Ascending
        <5>2. Rank[n] \in Nat /\ Rank[cursor] \in Nat /\ Rank[cursor] < Rank[n]
          BY <1>4, <1>5, <1>16, <3>2, <4>1
        <5> QED BY <5>1, <5>2
      <4> QED BY <1>6, <2>1, <4>2, <4>3
    <3> QED BY <3>1, <3>2
  <2>3. k <= e
    <3>1. CASE page.next = NoCursor
      <4>1. ~(from + PageLimit <= Len(L))
        <5> SUFFICES ASSUME from + PageLimit <= Len(L) PROVE FALSE
          OBVIOUS
        <5>1. page.next = Last(items) /\ e = from + PageLimit - 1 /\ Len(items) = e - from + 1
          BY <1>3, <1>8, <1>10
        <5>2. Len(items) \in 1..Len(items)
          BY <1>6, <1>7, <5>1
        <5>3. Last(items) \in Names
          BY <1>11, <5>2 DEF Last
        <5> QED BY <3>1, <5>1, <5>3, NamesAssumption
      <4> QED BY <1>4, <1>8, <2>1, <4>1
    <3>2. CASE page.next # NoCursor
      <4>1. page.next = L[e] /\ e \in 1..Len(L)
        BY <1>15, <3>2
      <4> SUFFICES ASSUME e < k PROVE FALSE
        BY <1>9, <2>1
      <4>2. Rank[page.next] < Rank[n]
        BY <1>4, <2>1, <4>1 DEF Ascending
      <4>3. Rank[n] \in Nat /\ Rank[page.next] \in Nat /\ Rank[n] <= Rank[page.next]
        BY <1>4, <1>5, <1>16, <3>2, <4>1
      <4> QED BY <4>2, <4>3
    <3> QED BY <3>1, <3>2
  <2> DEFINE i == k - from + 1
  <2>4. i \in 1..c /\ from + i - 1 = k
    BY <1>6, <1>9, <2>1, <2>2, <2>3
  <2>5. items[i] = L[from + i - 1]
    BY <1>10, <2>4
  <2> QED BY <2>1, <2>4, <2>5
<1>17. page.items = items /\ Len(items) = c
  BY <1>3, <1>10
<1> QED BY <1>11, <1>13, <1>14, <1>15, <1>16, <1>17 DEF page, D

\* Folders in the order of their names, followed by later ones.
LEMMA StillAscending ==
  ASSUME NEW s \in Seq(Names), Ascending(s), NEW t \in Seq(Names), Ascending(t),
         s # <<>>, \A i \in 1..Len(t) : Rank[Last(s)] < Rank[t[i]]
  PROVE  Ascending(s \o t)
<1> DEFINE u == s \o t
           a == Len(s)
           b == Len(t)
<1>1. a \in Nat \ {0} /\ b \in Nat
  BY EmptySeq
<1>2. Len(u) = a + b /\ \A i \in 1..(a + b) : u[i] = IF i <= a THEN s[i] ELSE t[i - a]
  BY ConcatProperties
<1>3. (\A i \in 1..a : s[i] \in Names) /\ (\A i \in 1..b : t[i] \in Names)
  OBVIOUS
<1>4. (\A i \in 1..a : Rank[s[i]] \in Nat) /\ (\A i \in 1..b : Rank[t[i]] \in Nat)
  BY <1>3, NamesAssumption
<1>5. \A i, j \in 1..a : i < j => Rank[s[i]] < Rank[s[j]]
  BY DEF Ascending
<1>6. \A i, j \in 1..b : i < j => Rank[t[i]] < Rank[t[j]]
  BY DEF Ascending
<1>7. \A i \in 1..b : Rank[s[a]] < Rank[t[i]]
  BY DEF Last
<1> HIDE DEF u, a, b
<1>8. ASSUME NEW i \in 1..(a + b), NEW j \in 1..(a + b), i < j PROVE Rank[u[i]] < Rank[u[j]]
  <2>1. CASE j <= a
    <3>1. i \in 1..a /\ j \in 1..a
      BY <1>1, <1>8, <2>1
    <3> QED BY <1>2, <1>5, <1>8, <2>1, <3>1
  <2>2. CASE i > a
    <3>1. i - a \in 1..b /\ j - a \in 1..b /\ i - a < j - a /\ ~(i <= a) /\ ~(j <= a)
      BY <1>1, <1>8, <2>2
    <3>2. u[i] = t[i - a] /\ u[j] = t[j - a]
      BY <1>2, <3>1
    <3> QED BY <1>6, <3>1, <3>2
  <2>3. CASE i <= a /\ j > a
    <3>1. i \in 1..a /\ j - a \in 1..b /\ ~(j <= a) /\ a \in 1..a
      BY <1>1, <2>3
    <3>2. u[i] = s[i] /\ u[j] = t[j - a]
      BY <1>2, <2>3, <3>1
    <3>3. Rank[s[a]] < Rank[t[j - a]]
      BY <1>7, <3>1
    <3>4. Rank[s[i]] <= Rank[s[a]]
      <4>1. i = a \/ i < a
        BY <3>1
      <4> QED BY <1>4, <1>5, <3>1, <4>1
    <3>5. Rank[s[i]] \in Nat /\ Rank[s[a]] \in Nat /\ Rank[t[j - a]] \in Nat
      BY <1>4, <3>1
    <3> QED BY <3>2, <3>3, <3>4, <3>5
  <2> QED BY <1>1, <2>1, <2>2, <2>3
<1> QED BY <1>2, <1>8 DEF Ascending, u

\* A name in one of two sequences is in both together.
LEMMA InEither ==
  ASSUME NEW s \in Seq(Names), NEW t \in Seq(Names), NEW n
  PROVE  n \in ToSet(s \o t) <=> n \in ToSet(s) \/ n \in ToSet(t)
<1> DEFINE u == s \o t
           a == Len(s)
           b == Len(t)
<1>1. a \in Nat /\ b \in Nat
  OBVIOUS
<1>2. /\ u \in Seq(Names) /\ Len(u) = a + b
      /\ \A i \in 1..(a + b) : u[i] = IF i <= a THEN s[i] ELSE t[i - a]
  BY ConcatProperties
<1>3. DOMAIN s = 1..a /\ DOMAIN t = 1..b /\ DOMAIN u = 1..(a + b)
  <2> HIDE DEF u
  <2> QED BY <1>2
<1> HIDE DEF u, a, b
<1>4. ASSUME NEW i \in 1..a PROVE s[i] \in ToSet(u)
  <2>1. i \in 1..(a + b) /\ i <= a
    BY <1>1
  <2> QED BY <1>2, <1>3, <2>1 DEF ToSet
<1>5. ASSUME NEW i \in 1..b PROVE t[i] \in ToSet(u)
  <2>1. i + a \in 1..(a + b) /\ ~(i + a <= a) /\ (i + a) - a = i
    BY <1>1
  <2>2. u[i + a] = t[i]
    BY <1>2, <2>1
  <2> QED BY <1>3, <2>1, <2>2 DEF ToSet
<1>6. ASSUME NEW i \in 1..(a + b) PROVE u[i] \in ToSet(s) \/ u[i] \in ToSet(t)
  <2>1. CASE i <= a
    <3>1. i \in 1..a
      BY <1>1, <2>1
    <3> QED BY <1>2, <1>3, <2>1, <3>1 DEF ToSet
  <2>2. CASE ~(i <= a)
    <3>1. i - a \in 1..b
      BY <1>1, <2>2
    <3> QED BY <1>2, <1>3, <2>2, <3>1 DEF ToSet
  <2> QED BY <2>1, <2>2
<1> QED BY <1>3, <1>4, <1>5, <1>6 DEF ToSet, u

\* What a reader has seen is in the order of the names, and has every folder
\* up to its cursor that was there on each page; no more once it is done.
ReaderInv ==
  /\ reader.pc \in {"rest", "more", "done"}
  /\ reader.pc # "rest" => reader.seen \in Seq(Names) /\ Ascending(reader.seen) /\ reader.stayed \subseteq Names
  /\ reader.pc = "more" =>
       /\ reader.seen # <<>> /\ reader.cursor = Last(reader.seen) /\ reader.cursor # NoCursor
       /\ \A n \in reader.stayed : Rank[n] <= Rank[reader.cursor] => n \in ToSet(reader.seen)
  /\ reader.pc = "done" => reader.stayed \subseteq ToSet(reader.seen)

\* A page extends what the reader has seen up to its new cursor.
LEMMA PageSeen == ASSUME ReaderInv, BrowsePage PROVE ReaderInv'
<1> DEFINE base == row.remote_path
           first == reader.pc = "rest"
           cursor == IF first THEN NoCursor ELSE reader.cursor
           page == Page(tree, base, cursor)
           there == ChildDirs(tree, base)
           seen == IF first THEN page.items ELSE reader.seen \o page.items
           stayed == IF first THEN there ELSE reader.stayed \cap there
           new == [pc |-> IF page.next = NoCursor THEN "done" ELSE "more",
                   cursor |-> page.next, seen |-> seen, stayed |-> stayed]
<1>1. reader' = new /\ page.ok /\ reader.pc \in {"rest", "more"}
  BY DEF BrowsePage
<1>2. /\ page.items \in Seq(Names) /\ Ascending(page.items)
      /\ cursor # NoCursor =>
           cursor \in Names /\ \A i \in 1..Len(page.items) : Rank[cursor] < Rank[page.items[i]]
      /\ page.next # NoCursor => page.items # <<>> /\ page.next = Last(page.items)
      /\ \A n \in there : /\ cursor # NoCursor => Rank[cursor] < Rank[n]
                          /\ page.next # NoCursor => Rank[n] <= Rank[page.next]
                          => \E i \in 1..Len(page.items) : page.items[i] = n
  <2> HIDE DEF cursor, base
  <2> QED BY <1>1, PageIs
<1>3. there \subseteq Names
  BY DEF ChildDirs
<1>4. /\ reader'.pc = IF page.next = NoCursor THEN "done" ELSE "more"
      /\ reader'.cursor = page.next /\ reader'.seen = seen /\ reader'.stayed = stayed
  <2> HIDE DEF seen, stayed, page
  <2> QED BY <1>1
<1> HIDE DEF page, there, new
<1>5. \A n \in there : /\ cursor # NoCursor => Rank[cursor] < Rank[n]
                       /\ page.next # NoCursor => Rank[n] <= Rank[page.next]
                       => n \in ToSet(page.items)
  <2>1. DOMAIN page.items = 1..Len(page.items)
    BY <1>2
  <2> QED BY <1>2, <2>1 DEF ToSet
<1>6. /\ seen \in Seq(Names) /\ Ascending(seen)
      /\ page.next # NoCursor => seen # <<>> /\ page.next = Last(seen)
      /\ \A n \in stayed : (page.next # NoCursor => Rank[n] <= Rank[page.next]) => n \in ToSet(seen)
  <2>1. CASE first
    <3>1. cursor = NoCursor /\ seen = page.items /\ stayed = there
      BY <2>1
    <3> QED BY <1>2, <1>5, <3>1
  <2>2. CASE ~first
    <3>1. /\ cursor = reader.cursor /\ seen = reader.seen \o page.items /\ stayed = reader.stayed \cap there
          /\ reader.pc = "more"
      BY <1>1, <2>2
    <3> HIDE DEF seen, stayed, cursor
    <3>2. /\ reader.seen \in Seq(Names) /\ Ascending(reader.seen) /\ reader.seen # <<>>
          /\ cursor = Last(reader.seen) /\ cursor # NoCursor /\ cursor \in Names
          /\ \A n \in reader.stayed : Rank[n] <= Rank[cursor] => n \in ToSet(reader.seen)
      BY <1>2, <3>1 DEF ReaderInv
    <3>3. seen \in Seq(Names) /\ Ascending(seen)
      BY <1>2, <3>1, <3>2, StillAscending, ConcatProperties
    <3>4. ASSUME page.next # NoCursor PROVE seen # <<>> /\ page.next = Last(seen)
      <4> DEFINE a == Len(reader.seen)
                 b == Len(page.items)
      <4>1. b \in Nat \ {0} /\ a \in Nat
        BY <1>2, <3>2, <3>4, EmptySeq
      <4>2. Len(seen) = a + b /\ \A i \in 1..(a + b) : seen[i] = IF i <= a THEN reader.seen[i] ELSE page.items[i - a]
        <5> DEFINE s == reader.seen
                   t == page.items
        <5>1. s \in Seq(Names) /\ t \in Seq(Names) /\ seen = s \o t
          BY <1>2, <3>1, <3>2
        <5> HIDE DEF s, t
        <5>2. /\ Len(s \o t) = Len(s) + Len(t)
              /\ \A i \in 1..(Len(s) + Len(t)) : (s \o t)[i] = IF i <= Len(s) THEN s[i] ELSE t[i - Len(s)]
          BY <5>1, ConcatProperties
        <5> QED BY <5>1, <5>2 DEF s, t
      <4> HIDE DEF a, b
      <4>3. a + b \in 1..(a + b) /\ ~(a + b <= a) /\ (a + b) - a = b
        BY <4>1
      <4>4. seen[a + b] = page.items[b]
        BY <4>2, <4>3
      <4>5. Last(seen) = Last(page.items)
        BY <4>2, <4>4 DEF Last, b
      <4>6. seen # <<>>
        <5>1. Len(seen) # 0
          BY <4>1, <4>2
        <5> QED BY <3>3, <5>1, EmptySeq
      <4> QED BY <1>2, <3>4, <4>5, <4>6
    <3>5. ASSUME NEW n \in stayed, page.next # NoCursor => Rank[n] <= Rank[page.next]
          PROVE  n \in ToSet(seen)
      <4>1. n \in reader.stayed /\ n \in there /\ n \in Names
        BY <1>3, <3>1
      <4>2. Rank[n] \in Nat /\ Rank[cursor] \in Nat
        BY <3>2, <4>1, NamesAssumption
      <4>3. Rank[n] <= Rank[cursor] \/ Rank[cursor] < Rank[n]
        BY <4>2
      <4>4. n \in ToSet(reader.seen) \/ n \in ToSet(page.items)
        BY <1>5, <3>2, <3>5, <4>1, <4>3
      <4> QED BY <1>2, <3>1, <3>2, <4>4, InEither
    <3> QED BY <3>3, <3>4, <3>5
  <2> QED BY <2>1, <2>2
<1>7. stayed \subseteq Names
  BY <1>3
<1> HIDE DEF seen, stayed
<1>8. /\ reader'.pc # "rest"
      /\ reader'.pc = "more" => page.next # NoCursor
      /\ reader'.pc = "done" => page.next = NoCursor
      /\ reader'.pc \in {"rest", "more", "done"}
  BY <1>4
<1> QED BY <1>4, <1>6, <1>7, <1>8 DEF ReaderInv

\* Names that ascend are each there once.
LEMMA AscendingOnce == ASSUME NEW s \in Seq(Names), Ascending(s) PROVE IsInjective(s)
<1> SUFFICES ASSUME NEW i \in 1..Len(s), NEW j \in 1..Len(s), s[i] = s[j], i # j PROVE FALSE
  BY DEF IsInjective
<1>1. Rank[s[i]] \in Nat
  BY NamesAssumption
<1>2. i < j \/ j < i
  OBVIOUS
<1> QED BY <1>1, <1>2 DEF Ascending

\* A client that gets to the last page has seen every folder that was there
\* all the time, and none twice.  api_transfer_local_mount_tree
THEOREM PagesCoverTheFolder == TargetSpec => []PagesCoverFolder
<1>1. TargetInit => ReaderInv
  BY DEF TargetInit, ReaderInv, Resting
<1>2. ReaderInv /\ [TargetNext]_targetVars => ReaderInv'
  <2> SUFFICES ASSUME ReaderInv, [TargetNext]_targetVars PROVE ReaderInv'
    OBVIOUS
  <2>1. CASE BrowsePage
    BY <2>1, PageSeen
  <2>2. CASE reader' = Resting
    BY <2>2 DEF ReaderInv, Resting
  <2>3. CASE UNCHANGED reader
    BY <2>3 DEF ReaderInv
  <2>4. [TargetNext]_targetVars => BrowsePage \/ reader' = Resting \/ UNCHANGED reader
    BY DEF TargetNext, targetVars, CreateTarget, DeleteTarget, OwnerChanges, BrowseRefused,
           PatchArrives, PatchApplies, RequestFile, RequestResource, RequestCopy, RunJob
  <2> QED BY <2>1, <2>2, <2>3, <2>4
<1>3. ReaderInv => PagesCoverFolder
  BY AscendingOnce DEF ReaderInv, PagesCoverFolder
<1> QED BY <1>1, <1>2, <1>3, PTL DEF TargetSpec

-----------------------------------------------------------------------------
(* What the ComfyUI check says.                                            *)

\* A folder that is there takes files, and what is there but is no folder
\* takes none.
LEMMA RestsWhereItEnds ==
  ASSUME NEW tr, NEW S, NEW p \in Seq(S), p # <<>>, IsThere(tr, p)
  PROVE  RestsOnFolder(tr, p) <=> IsDir(tr, p)
<1> DEFINE n == Len(p)
<1>1. n \in Nat \ {0} /\ SubSeq(p, 1, n) = p
  BY EmptySeq, SubSeqFull
<1> HIDE DEF n
<1>2. ASSUME IsDir(tr, p), NEW i \in 1..n, \A k \in (i + 1)..n : ~IsThere(tr, SubSeq(p, 1, k))
      PROVE  IsDir(tr, SubSeq(p, 1, i))
  <2>1. CASE i = n
    BY <1>1, <1>2, <2>1
  <2>2. CASE i # n
    <3>1. n \in (i + 1)..n
      BY <1>1, <2>2
    <3> QED BY <1>1, <1>2, <3>1
  <2> QED BY <2>1, <2>2
<1>3. ASSUME RestsOnFolder(tr, p) PROVE IsDir(tr, p)
  <2>1. n \in 1..n /\ (n + 1)..n = {}
    BY <1>1
  <2> QED BY <1>1, <1>3, <2>1 DEF RestsOnFolder, n
<1>4. IsDir(tr, p) => RestsOnFolder(tr, p)
  BY <1>2 DEF RestsOnFolder, n
<1> QED BY <1>3, <1>4

\* The status of a mapping tells whether a file can be copied there.
LEMMA StatusForetells ==
  ASSUME RowInv, BaseAccepted(tree, row.remote_path), NEW q \in DOMAIN row.policy.routes
  PROVE  LET sub == row.policy.routes[q]
             status == MappingStatus(tree, row.remote_path, sub)
             file == row.remote_path \o sub \o <<Leaf>>
         IN  /\ status = "present" => ParentAccepted(tree, row.remote_path, file, TRUE)
             /\ status \in {"invalid", "not_directory"} => ~ParentAccepted(tree, row.remote_path, file, TRUE)
<1> DEFINE base == row.remote_path
           sub == row.policy.routes[q]
           p == base \o sub
           file == p \o <<Leaf>>
           S == Names \cup {Leaf}
<1>1. base \in Seq(Names) /\ sub \in Seq(Names)
  BY DEF RowInv, RowTyped, PolicyTyped
<1> HIDE DEF sub
<1>2. p \in Seq(Names)
  BY <1>1, ConcatProperties
<1>3. base # <<>>
  BY <1>1, ResolvedStep DEF BaseAccepted
<1>4. p # <<>>
  BY <1>1, <1>3, ConcatEqualIffEmpty
<1> HIDE DEF p
<1>5. Front(file) = p
  <2>1. Leaf \in S /\ Names \subseteq S
    OBVIOUS
  <2> HIDE DEF S
  <2>2. p \in Seq(S)
    BY <1>2, <2>1, SeqMonotonic
  <2>3. Append(p, Leaf) = p \o <<Leaf>> /\ Front(Append(p, Leaf)) = p
    BY <2>1, <2>2, AppendIs
  <2> QED BY <2>3
<1>6. ParentAccepted(tree, base, file, TRUE) <=> Within(tree, p, base) /\ RestsOnFolder(tree, p)
  BY <1>5 DEF ParentAccepted
<1>7. DestinationAccepted(tree, base, sub, FALSE) <=> Within(tree, p, base)
  BY DEF DestinationAccepted, p
<1>8. IsThere(tree, p) => (RestsOnFolder(tree, p) <=> IsDir(tree, p))
  BY <1>2, <1>4, RestsWhereItEnds
<1> DEFINE status == MappingStatus(tree, base, sub)
<1>9. /\ status = "present" => Within(tree, p, base) /\ IsThere(tree, p) /\ IsDir(tree, p)
      /\ status = "invalid" => ~Within(tree, p, base)
      /\ status = "not_directory" => IsThere(tree, p) /\ ~IsDir(tree, p)
  BY <1>7 DEF MappingStatus, p
<1> QED BY <1>6, <1>8, <1>9 DEF p, sub

\* The best folder for a canonical name among the first ones of a listing.
IsBest(f, children, c, n) ==
  f = [i \in 0..n |-> IF i = 0 THEN NotFound
                      ELSE IF ~Serves(children[i], c) THEN f[i - 1]
                      ELSE IF f[i - 1] = NotFound THEN children[i] ELSE Preferred(f[i - 1], children[i])]
Better(best, n, c) ==
  IF ~Serves(n, c) THEN best ELSE IF best = NotFound THEN n ELSE Preferred(best, n)

\* The search can be followed through every number of folders.
LEMMA BestExists == ASSUME NEW children, NEW c, NEW n \in Nat PROVE \E f : IsBest(f, children, c, n)
<1> DEFINE T == {m \in 0..n : \E f : IsBest(f, children, c, m)}
<1>1. 0 \in T
  <2> DEFINE f == [i \in 0..0 |-> NotFound]
  <2>1. IsBest(f, children, c, 0)
    BY DEF IsBest
  <2> HIDE DEF f
  <2> QED BY <2>1
<1>2. ASSUME NEW m \in 1..n, m - 1 \in T PROVE m \in T
  <2>1. PICK f : IsBest(f, children, c, m - 1)
    BY <1>2
  <2> DEFINE g == [i \in 0..m |-> IF i < m THEN f[i] ELSE Better(f[m - 1], children[m], c)]
             h == [i \in 0..m |-> IF i = 0 THEN NotFound ELSE Better(g[i - 1], children[i], c)]
  <2>2. ASSUME NEW i \in 0..m PROVE g[i] = h[i]
    <3>1. CASE i < m
      <4>1. f[i] = IF i = 0 THEN NotFound ELSE Better(f[i - 1], children[i], c)
        BY <2>1, <3>1 DEF IsBest, Better
      <4>2. i # 0 => g[i - 1] = f[i - 1]
        OBVIOUS
      <4> QED BY <4>1, <4>2, <3>1
    <3>2. CASE i = m
      BY <3>2
    <3> QED BY <3>1, <3>2
  <2>3. IsBest(g, children, c, m)
    <3>1. g = h
      BY <2>2
    <3> QED BY <3>1 DEF IsBest, Better
  <2> HIDE DEF g
  <2> QED BY <2>3
<1> HIDE DEF T
<1>3. \A m \in 0..n : m \in T
  BY <1>1, <1>2, ReachesAll
<1> QED BY <1>3 DEF T

\* The folder that is found is the best of the whole listing.
LEMMA FoundByBest ==
  ASSUME NEW children, Len(children) \in Nat, NEW c
  PROVE  \E f : IsBest(f, children, c, Len(children)) /\ FoundFor(children, c) = f[Len(children)]
<1> DEFINE best[i \in 0..Len(children)] ==
             IF i = 0 THEN NotFound
             ELSE IF ~Serves(children[i], c) THEN best[i - 1]
             ELSE IF best[i - 1] = NotFound THEN children[i] ELSE Preferred(best[i - 1], children[i])
<1>1. \E f : IsBest(f, children, c, Len(children))
  BY BestExists
<1>2. IsBest(best, children, c, Len(children))
  BY <1>1 DEF IsBest
<1>3. FoundFor(children, c) = best[Len(children)]
  BY DEF FoundFor
<1> QED BY <1>2, <1>3

\* The folder that is found has the name asked for, and is an alias only if
\* all that have it are.
LEMMA FoundIs ==
  ASSUME NEW children \in Seq(Names), NEW c, NEW m \in 1..Len(children), Serves(children[m], c)
  PROVE  LET b == FoundFor(children, c)
         IN  /\ \E k \in 1..Len(children) : children[k] = b /\ Serves(b, c)
             /\ IsAlias(b) => \A k \in 1..Len(children) : Serves(children[k], c) => IsAlias(children[k])
<1> DEFINE n == Len(children)
<1>1. n \in Nat /\ \A i \in 1..n : children[i] \in Names
  OBVIOUS
<1>2. PICK f : IsBest(f, children, c, n) /\ FoundFor(children, c) = f[n]
  BY <1>1, FoundByBest
<1>3. \A i \in 0..n : f[i] = IF i = 0 THEN NotFound ELSE Better(f[i - 1], children[i], c)
  BY <1>2 DEF IsBest, Better
<1> DEFINE None(i) == f[i] = NotFound /\ \A k \in 1..i : ~Serves(children[k], c)
           Some(i) == /\ \E k \in 1..i : children[k] = f[i] /\ Serves(f[i], c)
                      /\ IsAlias(f[i]) => \A k \in 1..i : Serves(children[k], c) => IsAlias(children[k])
           T == {i \in 0..n : None(i) \/ Some(i)}
<1> HIDE DEF n
<1>4. 0 \in T
  BY <1>1, <1>3
<1>5. ASSUME NEW i \in 1..n, i - 1 \in T PROVE i \in T
  <2> DEFINE a == f[i - 1]
             x == children[i]
  <2>1. f[i] = Better(a, x, c) /\ i \in 0..n /\ x \in Names /\ i \in 1..i
    BY <1>1, <1>3
  <2>2. (\A k \in 1..i : k = i \/ k \in 1..(i - 1)) /\ (\A k \in 1..(i - 1) : k \in 1..i)
    BY <1>1
  <2>3. None(i - 1) \/ Some(i - 1)
    BY <1>5
  <2>4. CASE ~Serves(x, c)
    <3>1. f[i] = a
      BY <2>1, <2>4 DEF Better
    <3>2. None(i - 1) => None(i)
      BY <2>2, <2>4, <3>1
    <3>3. Some(i - 1) => Some(i)
      BY <2>2, <2>4, <3>1
    <3> QED BY <2>1, <2>3, <3>2, <3>3
  <2>5. CASE Serves(x, c) /\ None(i - 1)
    <3>1. f[i] = x
      BY <2>1, <2>5 DEF Better
    <3>2. Some(i)
      BY <2>1, <2>2, <2>5, <3>1
    <3> QED BY <2>1, <3>2
  <2>6. CASE Serves(x, c) /\ Some(i - 1)
    <3>1. a # NotFound
      BY <1>1, <2>2, <2>6, NamesAssumption
    <3>2. f[i] = Preferred(a, x)
      BY <2>1, <2>6, <3>1 DEF Better
    <3>3. CASE IsAlias(a) /\ ~IsAlias(x)
      <4>1. f[i] = x
        BY <3>2, <3>3 DEF Preferred
      <4>2. Some(i)
        BY <2>1, <2>2, <2>6, <3>3, <4>1
      <4> QED BY <2>1, <4>2
    <3>4. CASE ~(IsAlias(a) /\ ~IsAlias(x))
      <4>1. f[i] = a
        BY <3>2, <3>4 DEF Preferred
      <4>2. Some(i)
        BY <2>1, <2>2, <2>6, <3>4, <4>1
      <4> QED BY <2>1, <4>2
    <3> QED BY <3>3, <3>4
  <2> QED BY <2>3, <2>4, <2>5, <2>6
<1>6. n \in T
  <2> HIDE DEF T
  <2>1. \A i \in 0..n : i \in T
    BY <1>1, <1>4, <1>5, ReachesAll
  <2> QED BY <1>1, <2>1
<1>7. m \in 1..n /\ Serves(children[m], c)
  BY DEF n
<1>8. Some(n)
  BY <1>6, <1>7
<1> QED BY <1>2, <1>8 DEF n

\* A folder found for each name that some folder has.
LEMMA FoundFoldersAre ==
  ASSUME NEW p, NEW c \in Canonical
  PROVE  LET found == FoundFolders(tree, p)
             folders == ChildDirs(tree, p)
         IN  /\ c \in DOMAIN found <=> \E n \in folders : Serves(n, c)
             /\ c \in DOMAIN found => (~IsAlias(found[c]) <=> \E n \in folders : Lower[n] = c)
<1> DEFINE found == FoundFolders(tree, p)
           folders == ChildDirs(tree, p)
           L == Listed(tree, p)
<1>1. c \in DOMAIN found <=> \E n \in folders : Serves(n, c)
  BY DEF FoundFolders
<1>2. c \in DOMAIN found => found[c] = FoundFor(L, c)
  BY DEF FoundFolders
<1>3. folders \subseteq Names
  BY DEF ChildDirs
<1>4. L \in Seq(folders) /\ \A n \in folders : \E i \in 1..Len(L) : L[i] = n
  BY ListedIs
<1> HIDE DEF found, folders, L
<1>5. L \in Seq(Names) /\ \A i \in 1..Len(L) : L[i] \in folders
  BY <1>3, <1>4, SeqMonotonic
<1>6. \A n \in Names : Serves(n, c) /\ ~IsAlias(n) <=> Lower[n] = c
  BY NamesAssumption DEF Serves, IsModelFolder, CanonicalName, IsAlias
<1>7. ASSUME c \in DOMAIN found
      PROVE  ~IsAlias(found[c]) <=> \E n \in folders : Lower[n] = c
  <2>1. PICK m \in 1..Len(L) : Serves(L[m], c)
    BY <1>1, <1>4, <1>7
  <2> DEFINE b == FoundFor(L, c)
  <2>2. /\ \E k \in 1..Len(L) : L[k] = b /\ Serves(b, c)
        /\ IsAlias(b) => \A k \in 1..Len(L) : Serves(L[k], c) => IsAlias(L[k])
    BY <1>5, <2>1, FoundIs
  <2> HIDE DEF b
  <2>3. b \in folders /\ b \in Names /\ Serves(b, c)
    BY <1>3, <1>5, <2>2
  <2>4. ASSUME ~IsAlias(b) PROVE \E n \in folders : Lower[n] = c
    BY <1>6, <2>3, <2>4
  <2>5. ASSUME IsAlias(b), NEW n \in folders, Lower[n] = c PROVE FALSE
    <3>1. Serves(n, c) /\ ~IsAlias(n)
      BY <1>3, <1>6, <2>5
    <3>2. PICK k \in 1..Len(L) : L[k] = n
      BY <1>4
    <3> QED BY <2>2, <2>5, <3>1, <3>2
  <2>6. found[c] = b
    BY <1>2, <1>7 DEF b
  <2> QED BY <2>4, <2>5, <2>6
<1> QED BY <1>1, <1>7 DEF found, folders

\* What the check reports on is the folder below which it suggests.
LEMMA ReportIs ==
  ASSUME NEW base \in Seq(Names)
  PROVE  LET report == Layout(tree, base)
         IN  report.ok /\ report.kind \in {"models_root", "comfyui_root"} =>
               report.found = FoundFolders(tree, base \o report.sub)
<1> DEFINE report == Layout(tree, base)
           models == FirstNamed(tree, base, "models")
           nested == Nested(tree, base)
<1>1. base \o <<>> = base
  BY ConcatEmptySeq
<1>2. \A kind, sub, found : /\ Report(kind, sub, found).ok /\ Report(kind, sub, found).kind = kind
                            /\ Report(kind, sub, found).sub = sub /\ Report(kind, sub, found).found = found
  BY DEF Report
<1>3. ~ReportRefused.ok
  BY DEF ReportRefused
<1>4. \/ report = Report("models_root", <<>>, FoundFolders(tree, base))
      \/ report = Report("single_folder", <<>>, CanonicalName(Last(base)) :> Last(base))
      \/ report = ReportRefused
      \/ report = Report("comfyui_root", <<models[1]>>, FoundFolders(tree, base \o <<models[1]>>))
      \/ report = Report("generic", <<nested[1], "models">>, FoundFolders(tree, base \o <<nested[1], "models">>))
      \/ report = Report("generic", <<>>, <<>>)
  BY DEF Layout
<1> HIDE DEF report, models, nested
<1> SUFFICES ASSUME report.ok, report.kind \in {"models_root", "comfyui_root"}
             PROVE  report.found = FoundFolders(tree, base \o report.sub)
  BY DEF report
<1>5. CASE report = Report("models_root", <<>>, FoundFolders(tree, base))
  <2>1. report.sub = <<>> /\ report.found = FoundFolders(tree, base)
    BY <1>2, <1>5
  <2> QED BY <1>1, <2>1
<1>6. CASE report = Report("comfyui_root", <<models[1]>>, FoundFolders(tree, base \o <<models[1]>>))
  <2>1. report.sub = <<models[1]>> /\ report.found = FoundFolders(tree, base \o <<models[1]>>)
    BY <1>2, <1>6
  <2> QED BY <2>1
<1>7. \A sub, found : /\ report # Report("single_folder", sub, found)
                      /\ report # Report("generic", sub, found)
  BY <1>2
<1> QED BY <1>3, <1>4, <1>5, <1>6, <1>7

\* What the ComfyUI check reports is what a copy would meet, and what it
\* suggests agrees with the folders that are there.
\* check_comfyui_local_mount_target
THEOREM ChecksAreTrue == TargetSpec => []CheckIsTrue
<1> SUFFICES RowInv => CheckIsTrue
  BY RowHolds, PTL
<1> SUFFICES ASSUME RowInv, row.kind = "local_mount", BaseAccepted(tree, row.remote_path)
             PROVE  CheckForetellsCopy /\ SuggestionsAreTrue
  BY DEF CheckIsTrue, CheckForetellsCopy, SuggestionsAreTrue
<1>1. CheckForetellsCopy
  BY StatusForetells DEF CheckForetellsCopy
<1>2. SuggestionsAreTrue
  <2> DEFINE report == Layout(tree, row.remote_path)
             p == row.remote_path \o report.sub
             folders == ChildDirs(tree, p)
  <2> SUFFICES ASSUME report.ok, report.kind \in {"models_root", "comfyui_root"}, NEW c \in Canonical
               PROVE  /\ Suggestion(report, c).status = "present" <=> \E n \in folders : Lower[n] = c
                      /\ Suggestion(report, c).status = "missing"
                           <=> ~\E n \in folders : IsModelFolder(n) /\ CanonicalName(n) = c
    BY DEF SuggestionsAreTrue
  <2>1. report.found = FoundFolders(tree, p)
    BY ReportIs DEF RowInv, RowTyped
  <2> HIDE DEF report, p
  <2>2. /\ c \in DOMAIN report.found <=> \E n \in folders : Serves(n, c)
        /\ c \in DOMAIN report.found => (~IsAlias(report.found[c]) <=> \E n \in folders : Lower[n] = c)
    BY <2>1, FoundFoldersAre
  <2>3. Suggestion(report, c).status =
          IF c \notin DOMAIN report.found THEN "missing"
          ELSE IF IsAlias(report.found[c]) THEN "alias_present" ELSE "present"
    BY DEF Suggestion
  <2>4. \A n \in folders : Lower[n] = c => Serves(n, c)
    BY NamesAssumption DEF Serves, IsModelFolder, CanonicalName, ChildDirs
  <2> HIDE DEF folders
  <2> QED BY <2>2, <2>3, <2>4 DEF Serves
<1> QED BY <1>1, <1>2

\* What the user was told before a copy is what becomes of it.
\* run_transfer_copy_job, check_comfyui_local_mount_target
THEOREM CopiesForetold == TargetSpec => []CopiesAreForetold
<1>1. CopyLandsAsPreviewed /\ CheckIsTrue => CopiesAreForetold
  BY DEF CopiesAreForetold
<1> QED BY <1>1, CopiesLandAsPreviewed, ChecksAreTrue, PTL

=============================================================================
