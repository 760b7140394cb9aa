---------------------------- MODULE MCMediaCache ----------------------------
(* Jobs, thumbnail requests and clean-up on one or two sources.            *)
EXTENDS MediaCache
CONSTANTS j1, j2, w1, w2, s1, s2

Scenario(k1, k2, requests, sources, limit, quota, runs, evs) ==
  [kind |-> [j \in Jobs |-> IF j = j1 THEN k1 ELSE k2], requests |-> requests,
   sources |-> sources, slots |-> limit, quota |-> quota, runs |-> runs, events |-> evs]
AllScenarios ==
  {Scenario("play", "play", {}, {s1}, 2, 0, 1, {"stop", "edit"}),
   Scenario("play", "play", {}, {s1}, 2, 0, 2, {"stop"}),
   Scenario("play", "play", {}, {s1}, 1, 0, 2, {"fault", "crash"}),
   Scenario("play", "unused", {w1}, {s1}, 1, 1, 2, {"clean", "age"}),
   Scenario("poster", "unused", {w1}, {s1}, 1, 0, 1, {"clean", "fault", "edit"}),
   Scenario("unused", "unused", Workers, {s1}, 2, 0, 2, {"edit", "fault"}),
   Scenario("zip", "zip", {}, {s1}, 1, 0, 2, {"stop", "fault"}),
   Scenario("zip", "unused", {}, {s1}, 1, 0, 2, {"stop", "crash", "edit"}),
   Scenario("fill", "unused", {}, Sources, 1, 0, 2, {"stop", "fault"}),
   Scenario("fill", "unused", {w2}, {s1}, 2, 0, 1, {"stop", "edit"})}
=============================================================================
