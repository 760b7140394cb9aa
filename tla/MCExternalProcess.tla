-------------------------- MODULE MCExternalProcess --------------------------
(* One job of each kind, with a pipe and a queue smaller than its output.  *)
EXTENDS ExternalProcess

Scenario(kind, programs, evs) == [kind |-> kind, programs |-> programs, events |-> evs]
AllScenarios ==
  {Scenario("hf", 2, {"stop", "stubborn"}),
   Scenario("gallery", 2, {"stop", "fault", "stubborn", "deaf"}),
   Scenario("gallery", 1, {"stop", "orphan"}),
   Scenario("discovery", 1, {"stop", "fault"}),
   Scenario("rclone", 1, {"stop", "fault"})}
=============================================================================
