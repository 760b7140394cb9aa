--------------------------- MODULE MCDownloadFiles ---------------------------
(* Instances of DownloadFiles: a few plans over two names and two URLs.    *)
EXTENDS DownloadFiles, TLC
CONSTANTS j1, j2, d1, d2, n1, n2, u1, u2

File(name, urls, need) == [name |-> name, urls |-> urls, need |-> need]
Job(source, dirs, refresh, entries) ==
  [source |-> source, dirs |-> dirs, refresh |-> refresh, entries |-> entries]
Nothing == Job("none", {}, FALSE, <<>>)
Two(a, b) == (j1 :> a) @@ (j2 :> b)

(* The server's name for the body of u2 is n1. *)
ServerNames == (u1 :> NoName) @@ (u2 :> n1)
Plain(dirs) == Job("generic", dirs, FALSE, <<File(n1, <<u1>>, "required")>>)
Renamed == Job("generic", {d1}, FALSE, <<File(n2, <<u2>>, "required")>>)
Model ==
  Job("civitai", {d1}, TRUE, <<File(n2, <<u1>>, "optional"), File(n1, <<u1, u2>>, "required")>>)
Moving ==
  Job("civitai", {d1, d2}, FALSE, <<File(n2, <<u1>>, "optional"), File(n1, <<u1>>, "required")>>)
Work == Job("asmrone", {d1}, FALSE, <<File(n1, <<u1>>, "optional"), File(n2, <<u2>>, "counted")>>)
Gallery == Job("hitomi", {d1}, FALSE, <<File(n1, <<u1, u2>>, "required")>>)

(* Two jobs of one destination that wait for each other's lock; one job    *)
(* of each handler through pauses, retries, deletion and restarts, with a  *)
(* route that changes between attempts; removals beside a running thread.  *)
Scenario(a, b, evs) == [plan |-> Two(a, b), events |-> evs]
AllScenarios ==
  {Scenario(Plain({d1}), Renamed, {"pause", "delete"})} \cup
  {Scenario(p, Nothing, {"pause", "retry", "delete", "crash"}) :
     p \in {Plain({d1, d2}), Model, Work}} \cup
  {Scenario(Moving, Nothing, {"retry", "delete", "clear"}),
   Scenario(Gallery, Nothing, {"pause", "retry", "clear"}),
   Scenario(Gallery, Nothing, {"delete", "clear", "overlap"})}
=============================================================================
