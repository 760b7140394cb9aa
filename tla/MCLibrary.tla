----------------------------- MODULE MCLibrary -----------------------------
(* Four objects.  Batches are of one path, so that the cursor can go past *)
(* items of Steps and the look for rows to drop ends before the last one,  *)
(* or of the whole tree.                                                   *)
EXTENDS Library
CONSTANTS a, b, c, d

Tree(pa, pb, pc, pd) == [o \in Objects |-> CASE o = a -> pa [] o = b -> pb [] o = c -> pc [] OTHER -> pd]
Scenario(tree, kinds, scope, batch, n, evs) ==
  [at |-> tree, kind |-> kinds, scope |-> scope, batch |-> batch, budget |-> 4, prune |-> 2, requests |-> n, events |-> evs]
Flat == Tree(<<1>>, <<1, 1>>, <<2>>, <<2, 1>>)       \* two folders with a file each
Nested == Tree(<<1>>, <<1, 1>>, <<1, 1, 1>>, <<2>>)  \* folder / card / file, a file
Pair == Tree(<<1>>, <<1, 1>>, Gone, Gone)             \* a folder and a file
Inner == Tree(<<1>>, <<1, 1>>, <<1, 1, 1>>, <<1, 2>>)   \* folder / card / file, another file
Steps == Tree(<<1>>, <<2>>, <<1, 1>>, <<2, 1>>)      \* met in this order
Only == Tree(<<1>>, <<2>>, <<1, 1>>, Gone)
Cards == Tree("card", "file", "card", "file")
Mixed == Tree("folder", "card", "file", "file")

Shelves == Tree("folder", "file", "folder", "file")
Drawers == Tree("folder", "folder", "file", "file")

AllScenarios ==
  {Scenario(Flat, Cards, Root, 1, 4, {"external", "fault"}),
   Scenario(Steps, Drawers, Root, 1, 4, {"reindex", "crash", "clear"}),
   Scenario(Only, Drawers, Root, 1, 2, {"reindex", "clear"}),
   Scenario(Flat, Cards, Root, 1, 5, {"reindex", "crash", "fault", "clear"}),
   Scenario(Inner, Mixed, <<1>>, 1, 5, {"reindex", "sync", "stop", "clear"}),
   Scenario(Pair, Shelves, <<1>>, 9, 2, {"move", "mark", "download"}),
   Scenario(Nested, Mixed, <<1>>, 9, 2, {"move", "mark"}),
   Scenario(Nested, Mixed, <<1>>, 9, 2, {"move", "reindex", "page"}),
   Scenario(Nested, Mixed, <<1>>, 9, 3, {"external", "page"})}
=============================================================================
