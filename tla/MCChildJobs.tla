----------------------------- MODULE MCChildJobs -----------------------------
(* Two parents whose pages share items, one page with a repeated item.     *)
EXTENDS ChildJobs, TLC
CONSTANTS p1, p2, i1, i2, i3

Pages == (p1 :> <<i1, i1, i2, i3>>) @@ (p2 :> <<i2>>)
ShortPages == (p1 :> <<i1, i2>>) @@ (p2 :> <<i1>>)
OneItem == (p1 :> <<i1>>) @@ (p2 :> <<i1>>)
Scenario(family, page, limit, mode, evs) ==
  [family |-> family, page |-> page, limit |-> limit, mode |-> mode, events |-> evs]
AllScenarios ==
  {Scenario("listing", ShortPages, 1, "auto", {"fail", "crash"}),
   Scenario("listing", OneItem, 1, "confirm", {"fail", "confirm", "crash"}),
   Scenario("listing", ShortPages, 2, "confirm", {"fail", "confirm", "retry"}),
   \* a confirm request beside an automatic listing that runs again
   Scenario("listing", OneItem, 1, "auto", {"fail", "confirm", "crash"}),
   Scenario("image", OneItem, 1, "auto", {"fail", "crash", "remove", "clear"}),
   Scenario("image", OneItem, 1, "auto", {"fail", "retry", "remove", "clear"}),
   Scenario("listing", Pages, 2, "auto", {}),
   Scenario("image", Pages, 2, "auto", {})}
=============================================================================
