--------------------------- MODULE ExternalProcess ---------------------------
(***************************************************************************)
(* A job that downloads by other programs: huggingface_hub in a child of   *)
(* its own, gallery-dl, yt-dlp, rclone.  Each program runs as a group of   *)
(* processes that write to one pipe; a reader thread moves its lines into  *)
(* a bounded queue and the job's thread takes them out, looks at the job's *)
(* status in between and ends the group when it is to stop.  A job may run *)
(* several programs one after the other: one per file, or per embedded     *)
(* video.                                                                  *)
(***************************************************************************)
EXTENDS Integers

CONSTANTS
  MaxLines,    \* bound: lines one program prints
  PipeSize,    \* lines the pipe holds
  QueueSize,   \* PROCESS_OUTPUT_QUEUE_MAX_LINES
  ProcessScenarios    \* kind, programs, events

ASSUME QueueAssumption == {MaxLines, PipeSize, QueueSize} \subseteq Nat \ {0}
ASSUME ScenarioAssumption ==
  \A s \in ProcessScenarios : s.kind \in {"hf", "gallery", "discovery", "rclone"} /\ s.programs \in Nat \ {0}

VARIABLES
  sc,       \* the scenario, chosen once
  status,   \* of the job's row
  thread,   \* pc, done, answer, programs: the job's thread
  parent,   \* the process that was started: "runs", how it ended, or "none"
  helper,   \* another process of its group: "none", "runs", "deaf" to SIGTERM, "gone"
  strays,   \* a process of an earlier program of the job may still be there
  lines,    \* how many lines were printed, read, queued and taken
  reader,   \* the reader thread: "none", "reads", "holds", "eof", "over"
  eof,      \* the reader's last message is in the queue
  folder    \* what the target folder holds: media files and partial files

process == <<parent, helper, strays>>
output == <<lines, reader, eof>>
processVars == <<sc, status, thread, process, output, folder>>

NoLines == [printed |-> 0, read |-> 0, queued |-> 0, taken |-> 0]
ProcessInit ==
  /\ sc \in ProcessScenarios /\ status = "running"
  /\ thread = [pc |-> "start", done |-> FALSE, answer |-> FALSE, programs |-> sc.programs, error |-> FALSE]
  /\ parent = "none" /\ helper = "none" /\ strays = FALSE
  /\ lines = NoLines /\ reader = "none" /\ eof = FALSE
  /\ folder = [media |-> 0, part |-> FALSE]

Stopping == status \in {"pausing", "canceling", "deleting"}
Running == parent = "runs"
HelperRuns == helper \in {"runs", "deaf"}
PipeOpen == Running \/ HelperRuns
To(pc) == thread' = [thread EXCEPT !.pc = pc]
Queued == lines.queued - lines.taken + (IF eof /\ ~thread.done THEN 1 ELSE 0)

-----------------------------------------------------------------------------
(* The program.                                                            *)

(* A huggingface child prints the path it saved last of all. *)
PrintLine ==
  /\ PipeOpen /\ lines.printed < MaxLines /\ lines.printed - lines.read < PipeSize
  /\ lines' = [lines EXCEPT !.printed = @ + 1]
  /\ UNCHANGED <<sc, status, thread, process, reader, eof, folder>>

WriteFile ==
  /\ PipeOpen \/ strays
  /\ \/ ~folder.part /\ folder' = [folder EXCEPT !.part = TRUE]
     \/ folder.part /\ folder.media = 0 /\ folder' = [media |-> 1, part |-> FALSE]
  /\ UNCHANGED <<sc, status, thread, process, output>>

(* A helper may ignore SIGTERM, or be started after the signal. *)
StartHelper ==
  /\ Running /\ helper = "none" /\ sc.kind = "gallery"
  /\ \/ helper' = "runs" /\ thread.pc # "term"
     \/ helper' = "deaf" /\ ("deaf" \in sc.events \/ thread.pc = "term")
  /\ UNCHANGED <<sc, status, thread, parent, strays, output, folder>>

HelperExits ==
  /\ HelperRuns /\ helper' = "gone"
  /\ UNCHANGED <<sc, status, thread, parent, strays, output, folder>>

(* A program waits for its helper, unless it is killed from outside or     *)
(* obeys a SIGTERM in its own time.                                        *)
ParentExits ==
  /\ Running
  /\ \/ parent' = "ok" /\ lines.printed = MaxLines /\ ~HelperRuns
     \/ parent' = "error" /\ ~HelperRuns
     \/ parent' = "lost" /\ "orphan" \in sc.events
     \/ parent' = "ended" /\ thread.pc = "term"
  /\ UNCHANGED <<sc, status, thread, helper, strays, output, folder>>

-----------------------------------------------------------------------------
(* read_process_output                                                     *)

ReadLine ==
  /\ reader = "reads" /\ lines.read < lines.printed
  /\ lines' = [lines EXCEPT !.read = @ + 1] /\ reader' = "holds"
  /\ UNCHANGED <<sc, status, thread, process, eof, folder>>

HasRoom(n) == n < QueueSize
PutLine ==
  /\ reader = "holds" /\ HasRoom(Queued)
  /\ lines' = [lines EXCEPT !.queued = @ + 1] /\ reader' = "reads"
  /\ UNCHANGED <<sc, status, thread, process, eof, folder>>

(* Mutant: the end of the output is not announced. *)
Silent == "over"
Announces == "eof"
ReadEnd ==
  /\ reader = "reads" /\ lines.read = lines.printed /\ ~PipeOpen
  /\ reader' = Announces
  /\ UNCHANGED <<sc, status, thread, process, lines, eof, folder>>

PutDone ==
  /\ reader = "eof" /\ HasRoom(Queued)
  /\ reader' = "over" /\ eof' = TRUE
  /\ UNCHANGED <<sc, status, thread, process, lines, folder>>

-----------------------------------------------------------------------------
(* The job's thread.                                                       *)

Popen ==
  /\ thread.pc = "start"
  /\ IF Stopping THEN To("clean") /\ UNCHANGED <<process, output>>
     ELSE /\ parent' = "runs" /\ helper' = "none" /\ strays' = (strays \/ HelperRuns)
          /\ lines' = NoLines /\ reader' = "reads" /\ eof' = FALSE
          /\ thread' = [thread EXCEPT !.pc = "check", !.done = FALSE, !.answer = FALSE]
  /\ UNCHANGED <<sc, status, folder>>

(* An exception of the loop (a locked database) stops the program too. *)
CheckControl ==
  /\ thread.pc = "check"
  /\ \/ Stopping /\ To("stop")
     \/ ~Stopping /\ To("get")
     \/ "fault" \in sc.events /\ thread' = [thread EXCEPT !.pc = "stop", !.error = TRUE]
  /\ UNCHANGED <<sc, status, process, output, folder>>

(* Mutant: no timeout. *)
WaitsForever(n) == FALSE
TimesOut(n) == n = 0
(* queue.get with a timeout *)
Get ==
  /\ thread.pc = "get"
  /\ \/ /\ lines.taken < lines.queued
        /\ lines' = [lines EXCEPT !.taken = @ + 1]
        /\ thread' = [thread EXCEPT !.pc = "poll", !.answer = lines.taken + 1 = MaxLines]
     \/ /\ lines.taken = lines.queued /\ eof
        /\ thread' = [thread EXCEPT !.pc = "poll", !.done = TRUE] /\ UNCHANGED lines
     \/ TimesOut(Queued) /\ To("poll") /\ UNCHANGED lines
  /\ UNCHANGED <<sc, status, process, reader, eof, folder>>

(* Mutant: the program's end ends the loop. *)
ParentEnded(done, n) == ~Running
AllTaken(done, n) == ~Running /\ done /\ n = 0
(* One program per file, one per embedded video. *)
Another == thread.programs > 1
Missing == sc.kind = "hf" /\ ~thread.answer
Poll ==
  /\ thread.pc = "poll"
  /\ IF ~AllTaken(thread.done, Queued) THEN To("check")
     ELSE IF parent # "ok" \/ Missing THEN thread' = [thread EXCEPT !.pc = "clean", !.error = TRUE]
     ELSE thread' = [thread EXCEPT !.programs = @ - 1,
                                   !.pc = IF Another THEN "start" ELSE "finish"]
  /\ UNCHANGED <<sc, status, process, output, folder>>

-----------------------------------------------------------------------------
(* stop_controlled_process: SIGTERM to the group and ten seconds in which  *)
(* the parent may end, then SIGKILL to the group.  Only the parent is      *)
(* waited for.                                                             *)

(* Mutant: only the process that was started gets the signal. *)
ParentOnly(h, heard) == h
WholeGroup(h, heard) == IF h \in heard THEN "gone" ELSE h

Terminate ==
  /\ thread.pc = "stop"
  /\ IF ~Running THEN To("clean") /\ UNCHANGED process
     ELSE /\ To("term")
          /\ helper' = WholeGroup(helper, {"runs"})
          /\ \/ parent' = "ended"
             \/ "stubborn" \in sc.events /\ UNCHANGED parent
          /\ UNCHANGED strays
  /\ UNCHANGED <<sc, status, output, folder>>

Kill ==
  /\ thread.pc = "term"
  /\ IF ~Running THEN UNCHANGED process
     ELSE parent' = "killed" /\ helper' = WholeGroup(helper, {"runs", "deaf"}) /\ UNCHANGED strays
  /\ To("clean")
  /\ UNCHANGED <<sc, status, output, folder>>

Stopped ==
  CASE status = "pausing" -> "paused" [] status = "canceling" -> "canceled"
    [] status = "deleting" -> "deleted" [] OTHER -> "failed"

(* An error, a stop.  A gallery's folder is looked through for media ...   *)
CleanUp ==
  /\ thread.pc = "clean"
  /\ IF sc.kind = "gallery" /\ folder.media = 0
       THEN To("sweep") /\ UNCHANGED status
       ELSE To("rest") /\ status' = Stopped
  /\ UNCHANGED <<sc, process, output, folder>>

(* Mutant: the folder goes as it is. *)
WithoutAnything(f) == [media |-> 0, part |-> FALSE]
WithoutParts(f) == [f EXCEPT !.part = FALSE]
(* ... and, when it has none, rid of its other files, whatever has come.   *)
SweepFolder ==
  /\ thread.pc = "sweep"
  /\ folder' = WithoutParts(folder)
  /\ To("rest") /\ status' = Stopped
  /\ UNCHANGED <<sc, process, output>>

(* Mutant: no look at what was downloaded. *)
AlwaysSome(n) == TRUE
SomeMedia(n) == n > 0
FinishJob ==
  /\ thread.pc = "finish"
  /\ IF sc.kind = "gallery" /\ ~SomeMedia(folder.media)
     THEN To("clean") /\ UNCHANGED status
     ELSE To("rest") /\ status' = IF Stopping THEN Stopped ELSE "done"
  /\ UNCHANGED <<sc, process, output, folder>>

-----------------------------------------------------------------------------
Ask ==
  /\ "stop" \in sc.events /\ status = "running"
  /\ status' \in {"pausing", "canceling", "deleting"}
  /\ UNCHANGED <<sc, thread, process, output, folder>>

Resume ==
  /\ thread.pc = "rest" /\ status = "paused" /\ status' = "running"
  /\ thread' = [thread EXCEPT !.pc = "start", !.programs = sc.programs, !.error = FALSE]
  /\ UNCHANGED <<sc, process, output, folder>>

JobThreadStep ==
  Popen \/ CheckControl \/ Get \/ Poll \/ Terminate \/ Kill
  \/ CleanUp \/ SweepFolder \/ FinishJob
ReaderStep == ReadLine \/ PutLine \/ ReadEnd \/ PutDone
ProcessNext ==
  \/ PrintLine \/ WriteFile \/ StartHelper \/ HelperExits \/ ParentExits
  \/ ReaderStep \/ JobThreadStep \/ Ask \/ Resume

ProcessSpec == ProcessInit /\ [][ProcessNext]_processVars

(* The two threads go on; nothing is assumed of the program. *)
FairProcessSpec == ProcessSpec /\ WF_processVars(JobThreadStep) /\ WF_processVars(ReaderStep)

-----------------------------------------------------------------------------
(* Properties.                                                             *)

(* Every variable has its type and the queue its bound.                    *)
ProcessTypeOK ==
  /\ sc \in ProcessScenarios
  /\ status \in {"running", "pausing", "canceling", "deleting", "paused", "canceled", "deleted", "failed", "done"}
  /\ parent \in {"none", "runs", "ok", "error", "lost", "ended", "killed"}
  /\ helper \in {"none", "runs", "deaf", "gone"} /\ strays \in BOOLEAN
  /\ 0 <= lines.taken /\ lines.taken <= lines.queued /\ lines.queued <= lines.read
  /\ lines.read <= lines.printed /\ lines.printed <= MaxLines
  /\ reader \in {"none", "reads", "holds", "eof", "over"}
  /\ Queued \in 0..QueueSize
  /\ folder \in [media : 0..1, part : BOOLEAN]

(* When a program's success is believed every line it printed was handled, *)
(* the path of a huggingface child among them, although the process ends   *)
(* before its last lines arrive.  run_huggingface_download_process         *)
NoLineLost ==
  thread.pc = "finish" \/ (thread.pc = "start" /\ parent = "ok" /\ thread.programs < sc.programs)
    => lines.taken = lines.printed /\ (sc.kind = "hf" => thread.answer)

(* When the thread goes on after a program, whatever ended it, the program *)
(* is over, and of its group only this may be left to write into the       *)
(* folder that is cleaned, or that the next run uses: what ignored the     *)
(* SIGTERM that its parent obeyed, or a helper whose parent was killed     *)
(* from outside.  After a SIGKILL nothing is.  stop_controlled_process     *)
GroupGone ==
  thread.pc \in {"clean", "sweep", "finish", "start", "rest"} =>
    /\ ~Running
    /\ helper = "runs" => parent = "lost"
    /\ helper = "deaf" => parent \in {"lost", "ended"}

(* A job that is done has files, and one that ends with none leaves no     *)
(* other files in its folder, unless a process of it was left.             *)
FolderFits ==
  /\ sc.kind = "gallery" /\ status = "done" => folder.media > 0
  /\ thread.pc = "rest" /\ sc.kind = "gallery" /\ folder.media = 0 /\ folder.part
       => strays \/ parent \in {"lost", "ended"}

(* The folder is cleaned when nobody writes to it any more, up to what the *)
(* stop of a program can leave.  cleanup_empty_gallery_archive_target      *)
CleanUpIsSafe == GroupGone /\ FolderFits

(* What was downloaded stays through every stop, error, clean-up and       *)
(* restart of the job, also when a process that was left finishes a file   *)
(* between the look at the folder and its clearing.                        *)
DownloadsKept == [][folder'.media >= folder.media]_processVars

(* A stop takes effect however much the program prints, or ignores.        *)
StopTakesEffect == Stopping ~> thread.pc = "rest"

(* The end of a program is noticed: the full queue, the pipe and the two   *)
(* threads do not wait for each other.                                     *)
EndIsNoticed == parent \in {"ok", "error"} /\ ~PipeOpen ~> Running \/ thread.pc = "rest"

(* The job's thread never hangs on a program, be it stopped or over.       *)
(* run_external_download_process, stop_controlled_process                  *)
NobodyHangs == StopTakesEffect /\ EndIsNoticed

=============================================================================
