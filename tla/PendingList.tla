----------------------------- MODULE PendingList -----------------------------
(***************************************************************************)
(* The lists of job ids waiting for a thread, as the schedulers of         *)
(* app/downloader.py and app/internal_jobs.py use them: appended to unless *)
(* the id is there, filtered by id, popped by position.                    *)
(***************************************************************************)
EXTENDS Naturals, Sequences

\* A list of members of S in which no id stands twice.
IsList(s, S) == /\ s \in Seq(S)
                /\ \A i, k \in 1..Len(s) : s[i] = s[k] => i = k

Listed(s, j) == \E i \in 1..Len(s) : s[i] = j

\* enqueue_job
Enlisted(s, j) == IF Listed(s, j) THEN s ELSE Append(s, j)

\* list.pop(i), and remove of the element at i
DropAt(s, i) == [k \in 1..(Len(s) - 1) |-> IF k < i THEN s[k] ELSE s[k + 1]]

\* remove_pending_job filters the list; no id stands on it twice, so at most
\* one element goes.
Unlisted(s, j) == IF Listed(s, j) THEN DropAt(s, CHOOSE i \in 1..Len(s) : s[i] = j)
                                  ELSE s
=============================================================================
