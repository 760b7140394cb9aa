--------------------------- MODULE MCTransferCopy ---------------------------
(* Two jobs with the same two files and destination, one fault at a time.  *)
EXTENDS TransferCopy
CONSTANTS j1, j2

Scenario(kind, some, skip, links, slots, evs) ==
  [kind |-> kind, jobs |-> some, skip |-> skip, links |-> links, slots |-> slots, events |-> evs]
AllScenarios ==
  {Scenario("mount", Jobs, TRUE, TRUE, 2, {"stop", "owner"}),
   Scenario("mount", Jobs, FALSE, TRUE, 2, {"fault", "edit", "disable"}),
   Scenario("mount", Jobs, TRUE, FALSE, 1, {"crash"}),
   Scenario("receiver", {j1}, TRUE, TRUE, 1, {"stop", "fault", "edit"}),
   Scenario("receiver", Jobs, TRUE, TRUE, 1, {"stop"}),
   Scenario("receiver", {j1}, TRUE, TRUE, 1, {"stop", "lost", "crash"}),
   Scenario("rclone", Jobs, TRUE, TRUE, 2, {"stop", "fault", "batch"})}
=============================================================================
