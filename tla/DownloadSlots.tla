---------------------------- MODULE DownloadSlots ----------------------------
(***************************************************************************)
(* What a job queue promises: a bounded pool of threads, each working on   *)
(* one job, never more of them in one bucket than the bucket's cap         *)
(* (docs/architecture.md, "External download jobs").  The buckets of the   *)
(* download queue are its providers; the internal queue has one bucket.    *)
(***************************************************************************)
EXTENDS Integers, FiniteSets

CONSTANTS Threads, Jobs, NoJob, Providers, ProviderOf, Cap, BucketCap

VARIABLE holder   \* the job each thread works on

Busy == {t \in Threads : holder[t] # NoJob}
BusyIn(p) == {t \in Busy : ProviderOf[holder[t]] = p}

Init == holder = [t \in Threads |-> NoJob]

Start(t, j) == /\ holder[t] = NoJob
               /\ Cardinality(Busy) < Cap
               /\ Cardinality(BusyIn(ProviderOf[j])) < BucketCap
               /\ holder' = [holder EXCEPT ![t] = j]

Finish(t) == /\ holder[t] # NoJob
             /\ holder' = [holder EXCEPT ![t] = NoJob]

\* The process ends, and its threads with it.
Halt == holder' = [t \in Threads |-> NoJob]

Next == \/ \E t \in Threads : Finish(t) \/ \E j \in Jobs : Start(t, j)
        \/ Halt

Spec == Init /\ [][Next]_holder
=============================================================================
