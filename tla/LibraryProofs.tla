---------------------------- MODULE LibraryProofs ----------------------------
(***************************************************************************)
(* The library, for every number of files, every tree, every scenario.     *)
(***************************************************************************)
EXTENDS Library, FiniteSetTheorems, FunctionTheorems, SequenceTheorems, WellFoundedInduction, TLAPS

\* No two objects have one path, and what leads to an object are folders.
IsTree ==
  /\ \A o, x \in Objects : There(o) /\ at[o] = at[x] => o = x
  /\ \A o \in Objects : There(o) =>
       \A p \in Paths \ {at[o]} : IsAt(p, at[o]) => \E x \in Objects : at[x] = p /\ sc.kind[x] # "file"

\* Where the path is that the database step of an operation makes of p.
Settled(p) ==
  CASE op.kind = "move" -> Rewritten(p)
    [] op.kind = "delete" -> IF IsAt(op.from, p) THEN Gone ELSE p
    [] OTHER -> p

Calm == sc.events \cap {"external", "crash"} = {}
\* A path in the database leads to its object, if only by way of the step that is still to come.
MarksLead ==
  Calm =>
    /\ \A m \in marks : at[m[2]] = Settled(m[1])
    /\ HasTarget => at[download.of] = Settled(download.path)

\* Nothing is left where an operation has moved or deleted what there was.
MovedAway == Calm /\ op.kind \in {"move", "delete"} => \A o \in Objects : ~IsAt(op.from, at[o])

\* The path of an active download is away from what the operation under way
\* is about to take, unless it became active beside it.
TargetHeld ==
  /\ "external" \notin sc.events /\ download.status \in {"expected", "active"} /\ ~download.beside
  /\ op.kind \in {"moving", "deleting"}
  => ~Overlap(op.from, download.path)

Entries(S) == {p \in S : Parent(p) = sc.scope}
PagesFit ==
  /\ stamp \in Nat
  /\ reader.pc \in {"none", "read", "store"}
  /\ reader.pc # "none" => reader.stamp \in 0..stamp
  /\ reader.pc = "store" /\ reader.stamp = stamp => Entries(reader.items) = Entries(Existing)
  /\ cache.pc = "kept" => cache.stamp \in 0..stamp
  /\ cache.pc = "kept" /\ cache.stamp = stamp => Entries(cache.items) = Entries(Existing)

\* Items of the scope that no cursor goes past; below, what the index is to
\* say of them while no file changes.
Wanted == {p \in Items(sc.scope) : ~Overtaken(sc.scope, p)}
AllFresh == \A p \in Wanted : rows[p] = "fresh"

\* The cursor leaves behind only what is in the index.
Behind ==
  ~clear.since /\ state.cursor[sc.scope] # Root =>
    \A p \in Wanted : Less(state.cursor[sc.scope], p) \/ rows[p] = "fresh"

\* A batch of the scope has all items from the cursor to where it ends, and
\* when they are written the index has all up to there; the next cursor, and
\* what the scope is said to be, are no more than that.
Scanning(pc) == scan.pc = pc /\ scan.who \in {"indexer", "reindex"} /\ scan.root = sc.scope
UpTo(p) == scan.end \/ ~Less(scan.last, p)
Batch ==
  /\ Scanning("write") =>
       \A p \in Wanted : /\ scan.whole \/ (~clear.since /\ Less(state.cursor[sc.scope], p))
                         /\ UpTo(p)
                         => p \in scan.records
  /\ Scanning("cursor") /\ (scan.whole \/ ~clear.since) => \A p \in Wanted : UpTo(p) => rows[p] = "fresh"
  /\ Scanning("write") \/ Scanning("cursor") => scan.end \/ scan.last \in Paths
  /\ Scanning("flags") /\ ~clear.since =>
       (scan.end \/ state.cursor[sc.scope] = Root \/ (sc.scope # Root /\ state.complete) => AllFresh)
SyncBatch ==
  scan.who = "sync" /\ scan.end =>
    /\ scan.pc = "write" => Wanted \subseteq scan.records
    /\ scan.pc = "prune" /\ (scan.whole \/ ~clear.since) => AllFresh
RefreshBatch == scan.who = "refresh" /\ scan.pc = "write" /\ scan.records = {} => scan.root \notin Items(sc.scope)

\* A reindex job whose index was not cleared has started from the root.
JobBatch ==
  /\ scan.who = "reindex" => reindex.status = "running"
  /\ reindex.status = "running" /\ ~reindex.cleared =>
       /\ ~reindex.first => ~clear.since
       /\ scan.who = "reindex" =>
            /\ scan.pc = "walk" => ~clear.since \/ state.cursor[sc.scope] = Root
            /\ scan.pc \in {"write", "cursor"} => ~clear.since \/ scan.whole
            /\ scan.pc = "flags" => ~clear.since

\* What counts as scanned is in the index.
Scanned ==
  /\ ~clear.since /\ sc.scope = Root /\ state.scanned /\ state.cursor[Root] = Root => AllFresh
  /\ ~clear.since /\ sc.events \cap {"fault", "crash"} = {} /\ scan.who # "reindex" /\ state.complete
     /\ sc.scope # Root => AllFresh
  /\ reindex.status = "done" /\ ~reindex.cleared => AllFresh

Rests == op.kind = "none" /\ at = sc.at
IndexFits == Behind /\ Batch /\ SyncBatch /\ RefreshBatch /\ JobBatch /\ Scanned

-----------------------------------------------------------------------------
(* Paths.                                                                  *)

\* A path is a sequence of one to three names.
LEMMA PathIsSeq ==
  ASSUME NEW p \in Paths
  PROVE  /\ p \in Seq(Names) /\ Len(p) \in 1..3 /\ p # Root
         /\ DOMAIN p = 1..Len(p)
<1>1. PICK n \in 1..3 : p \in [1..n -> Names]
  BY DEF Paths, MaxDepth
<1>2. p \in Seq(Names) /\ Len(p) = n
  BY <1>1
<1> QED BY <1>1, <1>2 DEF Root

\* The root and Gone are sequences too.
LEMMA AnyPathIsSeq ==
  ASSUME NEW p \in Paths \cup {Gone}
  PROVE  p \in Seq(Names) /\ Len(p) \in Nat
<1>1. CASE p \in Paths
  BY <1>1, PathIsSeq
<1>2. CASE p = Gone
  BY <1>2 DEF Gone
<1> QED BY <1>1, <1>2

\* Sequences of up to three names are paths.
LEMMA SeqIsPath ==
  ASSUME NEW p \in Seq(Names), Len(p) \in 1..3
  PROVE  p \in Paths
<1>1. p \in [1..Len(p) -> Names]
  OBVIOUS
<1> QED BY <1>1 DEF Paths, MaxDepth

\* One path lies at another when it goes on from it, name by name.
LEMMA IsAtIff ==
  ASSUME NEW p \in Seq(Names), NEW q \in Seq(Names)
  PROVE  IsAt(p, q) <=> Len(p) <= Len(q) /\ \A i \in 1..Len(p) : p[i] = q[i]
<1>1. CASE Len(p) <= Len(q)
  <2>1. \A i \in 1..Len(p) : q[i] \in Names
    BY <1>1
  <2>2. /\ SubSeq(q, 1, Len(p)) \in Seq(Names)
        /\ Len(SubSeq(q, 1, Len(p))) = Len(p)
        /\ \A i \in 1..Len(p) : SubSeq(q, 1, Len(p))[i] = q[i]
    BY <2>1, SubSeqProperties
  <2>3. ASSUME \A i \in 1..Len(p) : p[i] = q[i]
        PROVE  SubSeq(q, 1, Len(p)) = p
    BY <2>2, <2>3, SeqEqual
  <2> QED BY <1>1, <2>2, <2>3 DEF IsAt
<1> QED BY <1>1 DEF IsAt

\* A path lies at itself, and everything at the root.
LEMMA IsAtSelf ==
  ASSUME NEW p \in Seq(Names)
  PROVE  IsAt(p, p) /\ IsAt(Root, p)
<1>1. Root \in Seq(Names) /\ Len(Root) = 0
  BY DEF Root
<1>2. IsAt(p, p)
  BY IsAtIff
<1>3. IsAt(Root, p) <=> Len(Root) <= Len(p) /\ \A i \in 1..Len(Root) : Root[i] = p[i]
  BY <1>1, IsAtIff
<1>4. \A i \in 1..Len(Root) : Root[i] = p[i]
  BY <1>1
<1> QED BY <1>1, <1>2, <1>3, <1>4

\* What lies in a folder lies in the folders the folder lies in.
LEMMA IsAtTransitive ==
  ASSUME NEW p \in Seq(Names), NEW q \in Seq(Names), NEW r \in Seq(Names), IsAt(p, q), IsAt(q, r)
  PROVE  IsAt(p, r)
BY IsAtIff

\* Two folders with a common content lie one in the other.
LEMMA IsAtMeets ==
  ASSUME NEW p \in Seq(Names), NEW q \in Seq(Names), NEW r \in Seq(Names), IsAt(p, r), IsAt(q, r)
  PROVE  Overlap(p, q)
<1>1. CASE Len(p) <= Len(q)
  BY <1>1, IsAtIff DEF Overlap
<1>2. CASE Len(q) <= Len(p)
  BY <1>2, IsAtIff DEF Overlap
<1> QED BY <1>1, <1>2

\* Two paths of which each lies at the other are one.
LEMMA IsAtBoth ==
  ASSUME NEW p \in Seq(Names), NEW q \in Seq(Names), IsAt(p, q), IsAt(q, p)
  PROVE  p = q
<1>1. Len(p) = Len(q) /\ \A i \in 1..Len(p) : p[i] = q[i]
  BY IsAtIff
<1> QED BY <1>1, SeqEqual

\* The parent of a path is what is left without its last name.
LEMMA ParentIs ==
  ASSUME NEW p \in Paths
  PROVE  /\ Parent(p) \in Seq(Names) /\ Len(Parent(p)) = Len(p) - 1
         /\ \A i \in 1..(Len(p) - 1) : Parent(p)[i] = p[i]
         /\ IsAt(Parent(p), p) /\ ~IsAt(p, Parent(p))
<1>1. p \in Seq(Names) /\ Len(p) \in 1..3
  BY PathIsSeq
<1>2. \A i \in 1..(Len(p) - 1) : p[i] \in Names
  BY <1>1
<1>3. /\ Parent(p) \in Seq(Names) /\ Len(Parent(p)) = Len(p) - 1
      /\ \A i \in 1..(Len(p) - 1) : Parent(p)[i] = p[i]
  <2> DEFINE n == Len(p) - 1
  <2>1. 1 \in Int /\ n \in Int /\ \A i \in 1..n : p[i] \in Names
    BY <1>1, <1>2
  <2>2. /\ SubSeq(p, 1, n) \in Seq(Names)
        /\ Len(SubSeq(p, 1, n)) = IF 1 <= n THEN n - 1 + 1 ELSE 0
        /\ \A i \in 1..(n - 1 + 1) : SubSeq(p, 1, n)[i] = p[1 + i - 1]
    <3> HIDE DEF n
    <3> QED BY <2>1, SubSeqProperties
  <2>3. n \in 0..2
    BY <1>1
  <2>4. n - 1 + 1 = n /\ \A i \in 1..n : 1 + i - 1 = i
    BY <2>3
  <2> QED BY <2>2, <2>3, <2>4 DEF Parent
<1>4. IsAt(Parent(p), p) /\ ~IsAt(p, Parent(p))
  BY <1>1, <1>3, IsAtIff
<1> QED BY <1>3, <1>4

\* What leads to a path leads to its parent, or is the path.
LEMMA AboveIsAboveParent ==
  ASSUME NEW p \in Paths, NEW q \in Seq(Names), IsAt(q, p), q # p
  PROVE  IsAt(q, Parent(p))
<1>1. p \in Seq(Names)
  BY PathIsSeq
<1>2. Len(q) # Len(p)
  BY <1>1, IsAtIff, SeqEqual
<1> QED BY <1>1, <1>2, IsAtIff, ParentIs

\* What was in the folder is, after a move, as deep in the new place as it
\* was in the old one; everything else stays.
LEMMA MovedIs ==
  ASSUME NEW p \in Seq(Names), NEW from \in Seq(Names), NEW to \in Seq(Names), IsAt(from, p)
  PROVE  /\ MovedPath(p, from, to) \in Seq(Names)
         /\ Len(MovedPath(p, from, to)) = Len(to) + Len(p) - Len(from)
         /\ \A i \in 1..Len(to) : MovedPath(p, from, to)[i] = to[i]
         /\ \A i \in (Len(from) + 1)..Len(p) : MovedPath(p, from, to)[Len(to) - Len(from) + i] = p[i]
         /\ IsAt(to, MovedPath(p, from, to))
<1> DEFINE f == Len(from)
           rest == SubSeq(p, f + 1, Len(p))
<1>1. f \in Nat /\ Len(p) \in Nat /\ f <= Len(p)
  BY IsAtIff
<1>2. f + 1 \in Int /\ Len(p) \in Int /\ \A i \in (f + 1)..Len(p) : p[i] \in Names
  BY <1>1
<1>3. /\ rest \in Seq(Names)
      /\ Len(rest) = IF f + 1 <= Len(p) THEN Len(p) - (f + 1) + 1 ELSE 0
      /\ \A i \in 1..(Len(p) - (f + 1) + 1) : rest[i] = p[f + 1 + i - 1]
  <2> HIDE DEF f
  <2> QED BY <1>2, SubSeqProperties
<1>4. Len(rest) = Len(p) - f
  BY <1>1, <1>3
<1>5. \A i \in (f + 1)..Len(p) : rest[i - f] = p[i]
  <2> TAKE i \in (f + 1)..Len(p)
  <2>1. i - f \in 1..(Len(p) - (f + 1) + 1) /\ f + 1 + (i - f) - 1 = i
    BY <1>1
  <2>2. rest[i - f] = p[f + 1 + (i - f) - 1]
    BY <2>1, <1>3
  <2> QED BY <2>1, <2>2
<1> HIDE DEF rest
<1>6. MovedPath(p, from, to) = to \o rest
  BY DEF MovedPath, rest
<1>7. /\ to \o rest \in Seq(Names) /\ Len(to \o rest) = Len(to) + Len(rest)
      /\ \A i \in 1..(Len(to) + Len(rest)) :
           (to \o rest)[i] = IF i <= Len(to) THEN to[i] ELSE rest[i - Len(to)]
  BY <1>3, ConcatProperties
<1>8. \A i \in 1..Len(to) : (to \o rest)[i] = to[i]
  BY <1>4, <1>1, <1>7
<1>9. \A i \in (f + 1)..Len(p) : (to \o rest)[Len(to) - f + i] = p[i]
  <2> TAKE i \in (f + 1)..Len(p)
  <2>1. /\ Len(to) - f + i \in 1..(Len(to) + Len(rest)) /\ ~(Len(to) - f + i <= Len(to))
        /\ Len(to) - f + i - Len(to) = i - f
    BY <1>1, <1>4
  <2> QED BY <2>1, <1>5, <1>7
<1>10. Len(to \o rest) = Len(to) + Len(p) - f
  BY <1>1, <1>4, <1>7
<1>11. IsAt(to, to \o rest)
  <2>1. Len(to) <= Len(to \o rest) /\ \A i \in 1..Len(to) : to[i] = (to \o rest)[i]
    BY <1>10, <1>8, <1>1
  <2> QED BY <2>1, <1>7, IsAtIff
<1> QED BY <1>6, <1>7, <1>8, <1>9, <1>10, <1>11

\* A move keeps different paths different, and what lies at another there.
LEMMA MovedTogether ==
  ASSUME NEW p \in Seq(Names), NEW q \in Seq(Names), NEW from \in Seq(Names), NEW to \in Seq(Names),
         IsAt(from, p), IsAt(from, q)
  PROVE  /\ MovedPath(p, from, to) = MovedPath(q, from, to) => p = q
         /\ IsAt(p, q) <=> IsAt(MovedPath(p, from, to), MovedPath(q, from, to))
<1> DEFINE a == MovedPath(p, from, to)
           b == MovedPath(q, from, to)
           f == Len(from)
           t == Len(to)
<1>0. /\ IsAt(from, p) /\ IsAt(from, q)
  OBVIOUS
<1>1. /\ a \in Seq(Names) /\ Len(a) = t + Len(p) - f
      /\ \A i \in 1..t : a[i] = to[i]
      /\ \A i \in (f + 1)..Len(p) : a[t - f + i] = p[i]
  BY <1>0, MovedIs, ZenonT(60) DEF t, f
<1>2. /\ b \in Seq(Names) /\ Len(b) = t + Len(q) - f
      /\ \A i \in 1..t : b[i] = to[i]
      /\ \A i \in (f + 1)..Len(q) : b[t - f + i] = q[i]
  BY <1>0, MovedIs, ZenonT(60) DEF t, f
<1>3. /\ f \in Nat /\ t \in Nat /\ f <= Len(p) /\ f <= Len(q)
      /\ \A i \in 1..f : p[i] = from[i] /\ q[i] = from[i]
  BY IsAtIff
<1> HIDE DEF a, b, f, t
<1>4. ASSUME IsAt(a, b) PROVE IsAt(p, q)
  <2>1. Len(a) <= Len(b) /\ \A i \in 1..Len(a) : a[i] = b[i]
    BY <1>1, <1>2, <1>4, IsAtIff
  <2>2. Len(p) <= Len(q)
    BY <2>1, <1>1, <1>2, <1>3
  <2>3. \A i \in 1..Len(p) : p[i] = q[i]
    <3> SUFFICES ASSUME NEW i \in 1..Len(p) PROVE p[i] = q[i]
      OBVIOUS
    <3>1. CASE i <= f
      BY <3>1, <1>3
    <3>2. CASE i > f
      <4>1. i \in (f + 1)..Len(p) /\ i \in (f + 1)..Len(q) /\ t - f + i \in 1..Len(a)
        BY <3>2, <2>2, <1>1, <1>3
      <4>2. a[t - f + i] = p[i]
        BY <4>1, <1>1
      <4>3. b[t - f + i] = q[i]
        BY <4>1, <1>2
      <4>4. a[t - f + i] = b[t - f + i]
        BY <4>1, <2>1
      <4> QED BY <4>2, <4>3, <4>4
    <3> QED BY <3>1, <3>2, <1>3
  <2> QED BY <2>2, <2>3, IsAtIff
<1>5. ASSUME IsAt(p, q) PROVE IsAt(a, b)
  <2>1. Len(p) <= Len(q) /\ \A i \in 1..Len(p) : p[i] = q[i]
    BY <1>5, IsAtIff
  <2>2. Len(a) <= Len(b)
    BY <2>1, <1>1, <1>2, <1>3
  <2>3. \A i \in 1..Len(a) : a[i] = b[i]
    <3> SUFFICES ASSUME NEW i \in 1..Len(a) PROVE a[i] = b[i]
      OBVIOUS
    <3>1. CASE i <= t
      BY <3>1, <1>1, <1>2, <1>3
    <3>2. CASE i > t
      <4> DEFINE k == i - t + f
      <4>1. k \in (f + 1)..Len(p) /\ k \in (f + 1)..Len(q) /\ t - f + k = i /\ k \in 1..Len(p)
        BY <3>2, <2>1, <1>1, <1>3
      <4> HIDE DEF k
      <4>2. a[t - f + k] = p[k] /\ b[t - f + k] = q[k] /\ p[k] = q[k]
        BY <4>1, <2>1, <1>1, <1>2
      <4> QED BY <4>1, <4>2
    <3> QED BY <3>1, <3>2, <1>1, <1>3
  <2> QED BY <2>2, <2>3, <1>1, <1>2, IsAtIff
<1>6. ASSUME a = b PROVE p = q
  <2>1. Len(p) = Len(q)
    BY <1>6, <1>1, <1>2, <1>3
  <2>2. IsAt(a, b)
    <3>1. IsAt(a, a)
      BY <1>1, IsAtSelf
    <3> QED BY <1>6, <3>1
  <2>3. \A i \in 1..Len(p) : p[i] = q[i]
    BY <2>2, <1>4, IsAtIff
  <2> QED BY <2>1, <2>3, SeqEqual
<1> QED BY <1>4, <1>5, <1>6 DEF a, b

-----------------------------------------------------------------------------
(* The order of paths and that of the walk.                                *)

\* Names are numbers.
LEMMA NamesAreNumbers ==
  ASSUME NEW p \in Seq(Names)
  PROVE  \A i \in 1..Len(p) : p[i] \in Nat
<1>1. Names \subseteq Nat
  BY NamesAssumption
<1>2. \A i \in 1..Len(p) : p[i] \in Names
  OBVIOUS
<1> QED BY <1>1, <1>2

\* Paths that differ first at their i-th names are in order.
LEMMA LessAt ==
  ASSUME NEW p \in Seq(Names), NEW q \in Seq(Names), NEW i \in 1..3,
         \A k \in 1..(i - 1) : k <= Len(p) /\ k <= Len(q) /\ p[k] = q[k],
         ~(i <= Len(p) /\ i <= Len(q) /\ p[i] = q[i]),
         i <= Len(p) \/ i <= Len(q)
  PROVE  Less(p, q) \/ Less(q, p)
<1>1. Len(p) \in Nat /\ Len(q) \in Nat
  OBVIOUS
<1>2. CASE i > Len(p)
  BY <1>1, <1>2 DEF Less
<1>3. CASE i > Len(q)
  BY <1>1, <1>3 DEF Less
<1>4. CASE i <= Len(p) /\ i <= Len(q)
  <2>1. p[i] \in Nat /\ q[i] \in Nat /\ p[i] # q[i]
    BY <1>1, <1>4, NamesAreNumbers
  <2> QED BY <1>1, <1>4, <2>1 DEF Less
<1> QED BY <1>1, <1>2, <1>3, <1>4

\* Of two different paths one comes first.
LEMMA LessTotal ==
  ASSUME NEW p \in Seq(Names), NEW q \in Seq(Names), Len(p) <= 3, Len(q) <= 3, p # q
  PROVE  Less(p, q) \/ Less(q, p)
<1> DEFINE Same(i) == i <= Len(p) /\ i <= Len(q) /\ p[i] = q[i]
           Over(i) == ~(i <= Len(p) \/ i <= Len(q))
<1>1. Len(p) \in Nat /\ Len(q) \in Nat
  OBVIOUS
<1>2. ASSUME \A i \in 1..Len(p) : Same(i), Len(p) = Len(q) PROVE FALSE
  BY <1>2, SeqEqual
<1>3. CASE ~Same(1)
  <2>1. ~Over(1)
    BY <1>1, <1>2
  <2> QED BY <1>3, <2>1, LessAt
<1>4. CASE Same(1) /\ ~Same(2)
  <2>1. ~Over(2)
    BY <1>1, <1>2, <1>4
  <2>2. \A k \in 1..(2 - 1) : k <= Len(p) /\ k <= Len(q) /\ p[k] = q[k]
    BY <1>4
  <2> QED BY <1>4, <2>1, <2>2, LessAt
<1>5. CASE Same(1) /\ Same(2) /\ ~Same(3)
  <2>1. ~Over(3)
    BY <1>1, <1>2, <1>5
  <2>2. \A k \in 1..(3 - 1) : k <= Len(p) /\ k <= Len(q) /\ p[k] = q[k]
    <3> TAKE k \in 1..(3 - 1)
    <3>1. k = 1 \/ k = 2
      OBVIOUS
    <3> QED BY <1>5, <3>1
  <2> QED BY <1>5, <2>1, <2>2, LessAt
<1>6. CASE Same(1) /\ Same(2) /\ Same(3)
  BY <1>1, <1>2, <1>6
<1> QED BY <1>3, <1>4, <1>5, <1>6

\* No path comes before itself.
LEMMA LessIrreflexive ==
  ASSUME NEW p \in Seq(Names)
  PROVE  ~Less(p, p)
<1>1. \A i \in 1..Len(p) : p[i] \in Nat /\ ~(i > Len(p))
  BY NamesAreNumbers
<1> QED BY <1>1 DEF Less

\* The order is transitive.
LEMMA LessTransitive ==
  ASSUME NEW p \in Seq(Names), NEW q \in Seq(Names), NEW r \in Seq(Names), Less(p, q), Less(q, r)
  PROVE  Less(p, r)
<1>0. /\ Len(p) \in Nat /\ Len(q) \in Nat /\ Len(r) \in Nat
      /\ \A i \in 1..Len(p) : p[i] \in Nat
      /\ \A i \in 1..Len(q) : q[i] \in Nat
      /\ \A i \in 1..Len(r) : r[i] \in Nat
  BY NamesAreNumbers
<1>1. PICK i \in 1..Len(q) : /\ \A k \in 1..(i - 1) : k <= Len(p) /\ p[k] = q[k]
                             /\ i > Len(p) \/ p[i] < q[i]
  BY DEF Less
<1>2. PICK j \in 1..Len(r) : /\ \A k \in 1..(j - 1) : k <= Len(q) /\ q[k] = r[k]
                             /\ j > Len(q) \/ q[j] < r[j]
  BY DEF Less
<1>3. CASE i < j
  <2>1. i \in 1..Len(r) /\ q[i] = r[i]
    BY <1>0, <1>1, <1>2, <1>3
  <2>2. \A k \in 1..(i - 1) : k <= Len(p) /\ p[k] = r[k]
    BY <1>0, <1>1, <1>2, <1>3
  <2>3. i > Len(p) \/ p[i] < r[i]
    BY <2>1, <1>1
  <2> QED BY <2>1, <2>2, <2>3 DEF Less
<1>4. CASE i = j
  <2>1. \A k \in 1..(i - 1) : k <= Len(p) /\ p[k] = r[k]
    BY <1>0, <1>1, <1>2, <1>4
  <2>2. i > Len(p) \/ p[i] < r[i]
    BY <1>0, <1>1, <1>2, <1>4
  <2> QED BY <2>1, <2>2, <1>2, <1>4 DEF Less
<1>5. CASE j < i
  <2>1. \A k \in 1..(j - 1) : k <= Len(p) /\ p[k] = r[k]
    BY <1>0, <1>1, <1>2, <1>5
  <2>2. j <= Len(p) /\ p[j] = q[j] /\ ~(j > Len(q))
    BY <1>0, <1>1, <1>2, <1>5
  <2>3. j > Len(p) \/ p[j] < r[j]
    BY <2>2, <1>2
  <2> QED BY <2>1, <2>3 DEF Less
<1> QED BY <1>0, <1>3, <1>4, <1>5

\* The root comes before every path.
LEMMA RootFirst ==
  ASSUME NEW p \in Paths
  PROVE  Less(Root, p)
<1>1. 1 \in 1..Len(p) /\ Len(Root) = 0 /\ \A k \in 1..(1 - 1) : FALSE
  BY PathIsSeq DEF Root
<1> QED BY <1>1 DEF Less

-----------------------------------------------------------------------------
(* Batches.                                                                *)

\* Among the subsets of a finite set there is one with no smaller one.
LEMMA HasSmallest ==
  ASSUME NEW S, IsFiniteSet(S), NEW F, F \subseteq SUBSET S, F # {}
  PROVE  \E m \in F : \A y \in F : ~(y \subseteq m /\ y # m)
<1>1. IsWellFoundedOn(StrictSubsetOrdering(S), FiniteSubsetsOf(S))
  BY FS_StrictSubsetOrderingWellFounded
<1>2. F \subseteq FiniteSubsetsOf(S)
  BY FS_FiniteSubsetsOfFinite
<1>3. PICK m \in F : \A y \in F : ~(<<y, m>> \in StrictSubsetOrdering(S))
  BY <1>1, <1>2, WFMin
<1> QED BY <1>3 DEF StrictSubsetOrdering

\* What objects and paths are, in a state whose types are right.
Placed == at \in [Objects -> Paths \cup {Gone}]

\* Finitely many paths exist.
LEMMA ExistingIsFinite ==
  ASSUME Placed
  PROVE  Existing \subseteq Paths /\ IsFiniteSet(Existing)
<1> DEFINE D == {x \in Objects : There(x)}
           f == [x \in D |-> at[x]]
<1>1. IsFiniteSet(D)
  BY ObjectsAssumption, FS_Subset
<1>2. f \in Surjection(D, Existing)
  BY DEF Surjection, Existing
<1>3. IsFiniteSet(Existing)
  BY <1>1, <1>2, FS_Surjection
<1> QED BY <1>3 DEF Placed, Existing, There

\* Before orders what exists.
LEMMA BeforeOrders ==
  ASSUME Placed, NEW p \in Existing
  PROVE  /\ ~Before(p, p)
         /\ \A q \in Existing : p # q => Before(p, q) \/ Before(q, p)
         /\ \A q, r \in Existing : Before(p, q) /\ Before(q, r) => Before(p, r)
<1>1. \A q \in Existing : /\ q \in Paths /\ q \in Seq(Names) /\ Len(q) <= 3
                          /\ Parent(q) \in Seq(Names) /\ Len(Parent(q)) <= 3
                          /\ IsFile(q) \in BOOLEAN
  <2> TAKE q \in Existing
  <2>1. q \in Paths
    BY ExistingIsFinite
  <2>2. Len(q) \in 1..3 /\ Len(Parent(q)) = Len(q) - 1
    BY <2>1, PathIsSeq, ParentIs
  <2> QED BY <2>1, <2>2, PathIsSeq, ParentIs DEF IsFile
<1>2. ~Before(p, p)
  BY <1>1, LessIrreflexive DEF Before
<1>3. ASSUME NEW q \in Existing, p # q PROVE Before(p, q) \/ Before(q, p)
  BY <1>1, <1>3, LessTotal DEF Before
<1>4. ASSUME NEW q \in Existing, NEW r \in Existing, Before(p, q), Before(q, r) PROVE Before(p, r)
  <2>1. CASE Parent(p) = Parent(q) /\ Parent(q) = Parent(r)
    <3>1. Less(p, q) /\ Less(q, r) => Less(p, r)
      BY <1>1, LessTransitive
    <3> QED BY <2>1, <3>1, <1>1, <1>4 DEF Before
  <2>2. CASE Parent(p) # Parent(q) /\ Parent(q) = Parent(r)
    BY <2>2, <1>4 DEF Before
  <2>3. CASE Parent(p) = Parent(q) /\ Parent(q) # Parent(r)
    BY <2>3, <1>4 DEF Before
  <2>4. CASE Parent(p) # Parent(q) /\ Parent(q) # Parent(r)
    <3>1. Less(Parent(p), Parent(q)) /\ Less(Parent(q), Parent(r))
      BY <2>4, <1>4 DEF Before
    <3>2. Less(Parent(p), Parent(r))
      BY <3>1, <1>1, LessTransitive
    <3>3. Parent(p) # Parent(r)
      BY <3>2, <1>1, LessIrreflexive
    <3> QED BY <3>2, <3>3 DEF Before
  <2> QED BY <2>1, <2>2, <2>3, <2>4
<1> QED BY <1>2, <1>3, <1>4

\* What exists of a set has a first and a last element.
LEMMA HasEnds ==
  ASSUME Placed, NEW S, S \subseteq Existing, S # {}
  PROVE  /\ \E p \in S : \A q \in S \ {p} : Before(p, q)
         /\ \E p \in S : \A q \in S \ {p} : Before(q, p)
<1>1. IsFiniteSet(S)
  BY ExistingIsFinite, FS_Subset
<1>2. \E p \in S : \A q \in S \ {p} : Before(p, q)
  <2> DEFINE Down(p) == {q \in S : Before(q, p)}
             F == {Down(p) : p \in S}
  <2>1. PICK m \in F : \A y \in F : ~(y \subseteq m /\ y # m)
    <3>1. F \subseteq SUBSET S /\ F # {}
      OBVIOUS
    <3> HIDE DEF F
    <3> QED BY <1>1, <3>1, HasSmallest
  <2>2. PICK p \in S : m = Down(p)
    BY <2>1
  <2>3. ASSUME NEW q \in S, q # p PROVE Before(p, q)
    <3>1. SUFFICES ASSUME Before(q, p) PROVE FALSE
      BY <2>3, BeforeOrders
    <3>2. Down(q) \subseteq Down(p)
      BY <3>1, BeforeOrders
    <3>3. q \in Down(p) /\ q \notin Down(q)
      BY <3>1, BeforeOrders
    <3> QED BY <2>1, <2>2, <3>2, <3>3
  <2> QED BY <2>3
<1>3. \E p \in S : \A q \in S \ {p} : Before(q, p)
  <2> DEFINE Up(p) == {q \in S : Before(p, q)}
             F == {Up(p) : p \in S}
  <2>1. PICK m \in F : \A y \in F : ~(y \subseteq m /\ y # m)
    <3>1. F \subseteq SUBSET S /\ F # {}
      OBVIOUS
    <3> HIDE DEF F
    <3> QED BY <1>1, <3>1, HasSmallest
  <2>2. PICK p \in S : m = Up(p)
    BY <2>1
  <2>3. ASSUME NEW q \in S, q # p PROVE Before(q, p)
    <3>1. SUFFICES ASSUME Before(p, q) PROVE FALSE
      BY <2>3, BeforeOrders
    <3>2. Up(q) \subseteq Up(p)
      BY <3>1, BeforeOrders
    <3>3. q \in Up(p) /\ q \notin Up(q)
      BY <3>1, BeforeOrders
    <3> QED BY <2>1, <2>2, <3>2, <3>3
  <2> QED BY <2>3
<1> QED BY <1>2, <1>3

\* The last path of a batch is one of it, after all others.
LEMMA LastOfIs ==
  ASSUME Placed, NEW S, S \subseteq Existing, S # {}
  PROVE  LastOf(S) \in S /\ \A q \in S \ {LastOf(S)} : Before(q, LastOf(S))
BY HasEnds DEF LastOf

\* A batch is what comes first; one that is not full is everything.
LEMMA FirstOfIs ==
  ASSUME Placed, NEW S, S \subseteq Existing, NEW n \in Nat
  PROVE  /\ FirstOf(S, n) \subseteq S
         /\ \A p \in FirstOf(S, n), q \in S : Before(q, p) => q \in FirstOf(S, n)
         /\ Cardinality(FirstOf(S, n)) < n => FirstOf(S, n) = S
<1> DEFINE Down(p) == {q \in S : Before(q, p)}
<1>1. IsFiniteSet(S)
  BY ExistingIsFinite, FS_Subset
<1>2. \A p : IsFiniteSet(Down(p)) /\ Cardinality(Down(p)) \in Nat
  BY <1>1, FS_Subset, FS_CardinalityType
<1>3. FirstOf(S, n) \subseteq S
  BY DEF FirstOf
<1>4. ASSUME NEW p \in FirstOf(S, n), NEW q \in S, Before(q, p) PROVE q \in FirstOf(S, n)
  <2>1. p \in S /\ Cardinality(Down(p)) < n
    BY DEF FirstOf
  <2>2. Down(q) \subseteq Down(p)
    BY <2>1, <1>4, BeforeOrders
  <2>3. Cardinality(Down(q)) <= Cardinality(Down(p))
    BY <2>2, <1>2, FS_Subset
  <2>4. Cardinality(Down(q)) < n
    BY <2>1, <2>3, <1>2
  <2> QED BY <2>4 DEF FirstOf
<1>5. ASSUME Cardinality(FirstOf(S, n)) < n PROVE FirstOf(S, n) = S
  <2> DEFINE T == S \ FirstOf(S, n)
  <2>1. SUFFICES ASSUME T # {} PROVE FALSE
    BY <1>3
  <2>2. PICK p \in T : \A q \in T \ {p} : Before(p, q)
    <3>1. T \subseteq Existing
      OBVIOUS
    <3> HIDE DEF T
    <3> QED BY <2>1, <3>1, HasEnds
  <2>3. Down(p) \subseteq FirstOf(S, n)
    <3> SUFFICES ASSUME NEW q \in S, Before(q, p), q \notin FirstOf(S, n) PROVE FALSE
      OBVIOUS
    <3>1. q \in Existing /\ p \in Existing /\ q # p
      BY BeforeOrders
    <3>2. Before(p, q)
      BY <2>2, <3>1
    <3> QED BY <3>1, <3>2, BeforeOrders
  <2>4. IsFiniteSet(FirstOf(S, n)) /\ Cardinality(FirstOf(S, n)) \in Nat
    BY <1>1, <1>3, FS_Subset, FS_CardinalityType
  <2>5. Cardinality(Down(p)) <= Cardinality(FirstOf(S, n))
    BY <2>3, <2>4, FS_Subset
  <2>6. Cardinality(Down(p)) < n
    BY <2>4, <2>5, <1>2, <1>5
  <2>7. p \in S /\ p \notin FirstOf(S, n)
    BY <2>2
  <2> QED BY <2>6, <2>7 DEF FirstOf
<1> QED BY <1>3, <1>4, <1>5

-----------------------------------------------------------------------------
(* What each action leaves alone.                                          *)

DiskStep == MoveOnDisk \/ DeleteOnDisk \/ \E o \in Objects : External(o)
Look == \E o \in Objects : LookAtJobs("deleting", o, Root) \/ \E to \in Paths : LookAtJobs("moving", o, to)
\* Steps that change the download's row.
DownloadRow ==
  \/ MoveInDatabase \/ DeleteInDatabase \/ RefreshBegins \/ DownloadEnds \/ DownloadRetried \/ ClearHistory \/ Crash
  \/ \E o \in Objects : DownloadStarts(o) \/ TargetChosen(o)

\* The scenario stays, and every variable but for the actions named.
LEMMA Frames ==
  ASSUME [Next]_vars
  PROVE  /\ sc' = sc
         /\ DiskStep \/ (at' = at /\ stamp' = stamp)
         /\ HandlerStep \/ Crash \/ Look \/ op' = op
         /\ MoveInDatabase \/ DeleteInDatabase \/ (\E o \in Objects : Mark(o)) \/ marks' = marks
         /\ DownloadRow \/ download' = download
         /\ ReadSignature \/ ReadItems \/ StorePage \/ Crash \/ reader' = reader
         /\ StorePage \/ cache' = NoPage \/ cache' = cache
         /\ \/ MoveInDatabase \/ DeleteInDatabase \/ ClearIndex \/ ReindexBegins \/ Walk \/ Write \/ Prune
            \/ RefreshWrites \/ rows' = rows
         /\ \/ IndexerBegins \/ ReindexBegins \/ WriteCursor \/ WriteFlags \/ Prune \/ ScanFails \/ ClearIndex
            \/ state' = state
         /\ \/ ScanStep \/ IndexerBegins \/ ReindexBegins \/ SyncBegins \/ RefreshBegins \/ ScanFails
            \/ ClearIndex \/ Crash \/ scan' = scan
         /\ \/ WriteFlags \/ ScanFails \/ RequestReindex \/ StartReindex \/ StopReindex \/ ResumeReindex
            \/ ClearHistory \/ ClearIndex \/ Crash \/ reindex' = reindex
         /\ WriteCursor \/ Prune \/ ClearHistory \/ ClearIndex \/ Crash \/ clear' = clear
<1>1. CASE ScanStep
  <2>1. CASE Walk
    BY <2>1 DEF Walk, ScanStep
  <2>2. CASE Write
    BY <2>2 DEF Write, ScanStep
  <2>3. CASE WriteCursor
    BY <2>3 DEF WriteCursor, ScanStep
  <2>4. CASE WriteFlags
    BY <2>4 DEF WriteFlags, ScanStep
  <2>5. CASE Prune
    BY <2>5 DEF Prune, ScanStep
  <2>6. CASE RefreshReads
    BY <2>6 DEF RefreshReads, ScanStep
  <2>7. CASE RefreshWrites
    BY <2>7 DEF RefreshWrites, ScanStep
  <2> QED BY <1>1, <2>1, <2>2, <2>3, <2>4, <2>5, <2>6, <2>7 DEF ScanStep
<1>2. CASE JobStep
  <2>1. CASE ReindexBegins
    BY <2>1 DEF ReindexBegins
  <2>2. CASE StartReindex \/ RefreshBegins
    BY <2>2 DEF StartReindex, RefreshBegins, DownloadRow
  <2> QED BY <1>2, <2>1, <2>2 DEF JobStep
<1>3. CASE HandlerStep
  <2>1. CASE MoveInDatabase
    BY <1>3, <2>1 DEF MoveInDatabase, DownloadRow
  <2>2. CASE DeleteInDatabase
    BY <1>3, <2>2 DEF DeleteInDatabase, DownloadRow
  <2>3. CASE MoveOnDisk
    BY <1>3, <2>3 DEF MoveOnDisk, DiskStep
  <2>4. CASE DeleteOnDisk
    BY <1>3, <2>4 DEF DeleteOnDisk, DiskStep
  <2>5. CASE ClearIndex
    BY <1>3, <2>5 DEF ClearIndex
  <2> QED BY <1>3, <2>1, <2>2, <2>3, <2>4, <2>5 DEF HandlerStep
<1>4. CASE IndexerBegins \/ SyncBegins \/ ScanFails
  BY <1>4 DEF IndexerBegins, SyncBegins, ScanFails
<1>5. CASE RequestReindex \/ StopReindex \/ ResumeReindex
  BY <1>5 DEF RequestReindex, StopReindex, ResumeReindex
<1>6. CASE ClearHistory \/ DownloadEnds \/ DownloadRetried
  BY <1>6 DEF ClearHistory, DownloadEnds, DownloadRetried, DownloadRow
<1>7. CASE ReadSignature \/ ReadItems \/ StorePage \/ PageExpires
  BY <1>7 DEF ReadSignature, ReadItems, StorePage, PageExpires
<1>8. CASE Crash
  BY <1>8 DEF Crash, DownloadRow
<1>9. ASSUME NEW o \in Objects, NEW kind, NEW to, LookAtJobs(kind, o, to) PROVE
         /\ UNCHANGED <<sc, clear, at, stamp, rows, state, scan, reindex, marks, download, cache, reader>>
  BY <1>9 DEF LookAtJobs
<1>10. CASE Look
  BY <1>9, <1>10 DEF Look
<1>11. ASSUME NEW o \in Objects, External(o) PROVE
         /\ UNCHANGED <<sc, clear, rows, state, scan, reindex, op, marks, download, cache, reader>> /\ DiskStep
  BY <1>11 DEF External, DiskStep
<1>12. ASSUME NEW o \in Objects, Mark(o) PROVE
         UNCHANGED <<sc, clear, at, stamp, rows, state, scan, reindex, op, download, cache, reader>>
  BY <1>12 DEF Mark
<1>13. ASSUME NEW o \in Objects, DownloadStarts(o) \/ TargetChosen(o) PROVE
         /\ UNCHANGED <<sc, clear, at, stamp, rows, state, scan, reindex, op, marks, cache, reader>> /\ DownloadRow
  BY <1>13 DEF DownloadStarts, TargetChosen, DownloadRow
<1>14. CASE UNCHANGED vars
  BY <1>14 DEF vars
<1>15. CASE \E o \in Objects : External(o) \/ Mark(o) \/ DownloadStarts(o) \/ TargetChosen(o)
  BY <1>11, <1>12, <1>13, <1>15
<1>16. \/ ScanStep \/ JobStep \/ HandlerStep \/ IndexerBegins \/ SyncBegins \/ ScanFails
       \/ RequestReindex \/ StopReindex \/ ResumeReindex \/ ClearHistory \/ DownloadEnds \/ DownloadRetried
       \/ ReadSignature \/ ReadItems \/ StorePage \/ PageExpires \/ Crash \/ Look
       \/ (\E o \in Objects : External(o) \/ Mark(o) \/ DownloadStarts(o) \/ TargetChosen(o)) \/ UNCHANGED vars
  BY DEF Next, Look
<1> QED BY <1>1, <1>2, <1>3, <1>4, <1>5, <1>6, <1>7, <1>8, <1>10, <1>14, <1>15, <1>16

-----------------------------------------------------------------------------
(* Types.                                                                  *)

Scan == [who : {"none", "indexer", "reindex", "sync", "refresh"},
         pc : {"free", "walk", "write", "cursor", "flags", "prune"},
         root : Seq(Names), records : SUBSET Paths, last : Paths \cup {Root}, end : BOOLEAN, whole : BOOLEAN]
Cursors == [{Root, sc.scope} -> Paths \cup {Root}]
ScanStates == [cursor : Cursors, complete : BOOLEAN, scanned : BOOLEAN, indexing : BOOLEAN]
Reindex == [status : {"none", "queued", "running", "paused", "done", "failed"}, first : BOOLEAN, cleared : BOOLEAN]
Operation == [kind : {"none", "moving", "deleting", "move", "delete"}, from : Paths \cup {Root}, to : Paths \cup {Root}]
OperationFits == (op.kind # "none" => op.from \in Paths) /\ (op.kind \in {"moving", "move"} => op.to \in Paths)
Download == [status : {"none", "expected", "active", "done", "failed"}, path : Seq(Names), of : Objects \cup {"none"},
             hook : Seq(Names), beside : BOOLEAN]
Clear == [busy : BOOLEAN, since : BOOLEAN]
LivePage == [pc : {"none", "read", "store", "kept"}, stamp : Nat, items : SUBSET Paths]

\* Who holds the lock scans the folder that goes with it.
HolderFits ==
  /\ scan.who = "none" => scan = NoScan
  /\ scan.who = "indexer" => scan.root = Root
  /\ scan.who \in {"reindex", "sync"} => scan.root = sc.scope
  /\ scan.pc = "prune" => scan.who \in {"indexer", "sync"}
  /\ scan.pc \in {"cursor", "flags"} => scan.who \in {"indexer", "reindex"}

Records ==
  /\ sc \in Scenarios /\ Placed /\ stamp \in Nat /\ left \in 0..sc.requests
  /\ rows \in [Paths -> {"absent", "stale", "fresh"}]
  /\ state \in ScanStates /\ scan \in Scan /\ HolderFits /\ reindex \in Reindex
  /\ op \in Operation /\ OperationFits /\ clear \in Clear
  /\ marks \subseteq Seq(Names) \X Objects
  /\ download \in Download /\ (HasTarget => download.of \in Objects)
  /\ cache \in LivePage /\ reader \in LivePage

\* What a scenario gives.
LEMMA ScenarioTyped ==
  ASSUME sc \in Scenarios
  PROVE  /\ sc.at \in [Objects -> Paths \cup {Gone}]
         /\ sc.scope \in Paths \cup {Root} /\ sc.scope \in Seq(Names)
         /\ sc.batch \in Nat \ {0} /\ sc.budget \in Nat \ {0} /\ sc.requests \in Nat
<1>1. sc.scope \in Paths \cup {Gone}
  BY ScenarioAssumption DEF Gone, Root
<1> QED BY <1>1, ScenarioAssumption, AnyPathIsSeq DEF Gone, Root

\* The root is a path like those of objects, and never one of them.
LEMMA RootIsSeq == Root \in Seq(Names) /\ Gone \in Seq(Names) /\ Gone \notin Paths /\ Gone = Root
BY PathIsSeq DEF Root, Gone

\* The initial records.
LEMMA InitRecords == ASSUME Init PROVE Records
<1>1. /\ sc.at \in [Objects -> Paths \cup {Gone}] /\ sc.scope \in Paths \cup {Root} /\ sc.requests \in Nat
  BY ScenarioTyped DEF Init
<1>2. /\ sc \in Scenarios /\ Placed /\ stamp \in Nat /\ left \in 0..sc.requests
      /\ rows \in [Paths -> {"absent", "stale", "fresh"}]
  BY <1>1 DEF Init, Placed
<1>3. NoScan \in Scan /\ NoScan.who = "none" /\ NoScan.pc = "free" /\ NoPage \in LivePage
  BY RootIsSeq DEF NoScan, Scan, NoPage, LivePage
<1>4. state \in ScanStates
  BY DEF Init, ScanStates, Cursors
<1>5. reindex \in Reindex /\ op \in Operation /\ op.kind = "none" /\ marks \subseteq Seq(Names) \X Objects
  BY DEF Init, Reindex, Operation
<1>6. scan \in Scan /\ HolderFits
  BY <1>3 DEF Init, HolderFits
<1>7. download.status = "none" /\ cache \in LivePage /\ reader \in LivePage
  BY <1>3 DEF Init, NoDownload
<1>8. download \in Download
  BY RootIsSeq DEF Init, Download, NoDownload
<1>9. clear \in Clear /\ OperationFits /\ ~HasTarget
  BY <1>5, <1>7 DEF Init, Clear, OperationFits, HasTarget
<1> QED BY <1>2, <1>4, <1>5, <1>6, <1>7, <1>8, <1>9 DEF Records

\* The paths of objects stay paths.
LEMMA PlacedStep ==
  ASSUME Records, [Next]_vars
  PROVE  Placed' /\ stamp' \in Nat
<1>1. ASSUME NEW some PROVE Stamped(some) \in Nat
  BY DEF Stamped, Records
<1>2. ASSUME NEW p PROVE Without(p) \in [Objects -> Paths \cup {Gone}]
  BY DEF Without, Records, Placed
<1>3. CASE DeleteOnDisk
  BY <1>1, <1>2, <1>3 DEF DeleteOnDisk, Placed, Records
<1>4. ASSUME NEW o \in Objects, External(o)
      PROVE  Placed' /\ stamp' \in Nat
  <2>1. [at EXCEPT ![o] = sc.at[o]] \in [Objects -> Paths \cup {Gone}]
    BY ScenarioTyped DEF Records, Placed
  <2> QED BY <1>1, <1>2, <1>4, <2>1 DEF External, Placed
<1>5. CASE MoveOnDisk
  <2>1. CASE CanMove(op.from, op.to)
    <3>1. at' = [x \in Objects |-> IF There(x) THEN MovedPath(at[x], op.from, op.to) ELSE Gone]
          /\ stamp' = Stamped({op.from, op.to})
      BY <1>5, <2>1 DEF MoveOnDisk
    <3>2. \A x \in Objects : There(x) => MovedPath(at[x], op.from, op.to) \in Paths
      BY <2>1 DEF CanMove, Existing
    <3> QED BY <1>1, <3>1, <3>2 DEF Placed
  <2>2. CASE ~CanMove(op.from, op.to)
    BY <1>5, <2>2 DEF MoveOnDisk, Records, Placed
  <2> QED BY <2>1, <2>2
<1>6. CASE DiskStep
  BY <1>3, <1>4, <1>5, <1>6 DEF DiskStep
<1>7. CASE at' = at /\ stamp' = stamp
  BY <1>7 DEF Records, Placed
<1> QED BY <1>6, <1>7, Frames

\* The rows keep their type.
LEMMA RowsStep ==
  ASSUME Records, [Next]_vars
  PROVE  rows' \in [Paths -> {"absent", "stale", "fresh"}]
<1>0. rows \in [Paths -> {"absent", "stale", "fresh"}]
  BY DEF Records
<1>1. ASSUME NEW some, NEW as \in {"absent", "stale", "fresh"}
      PROVE  Marked(some, as) \in [Paths -> {"absent", "stale", "fresh"}]
  BY <1>0 DEF Marked
<1>2. ASSUME NEW some
      PROVE  Stale(some) \in [Paths -> {"absent", "stale", "fresh"}]
  BY <1>0 DEF Stale
<1>3. MovedRows \in [Paths -> {"absent", "stale", "fresh"}]
  BY <1>0 DEF MovedRows
<1>4. CASE MoveInDatabase \/ DeleteInDatabase \/ ClearIndex
  BY <1>1, <1>3, <1>4 DEF MoveInDatabase, DeleteInDatabase, ClearIndex
<1>5. CASE ReindexBegins \/ Write \/ RefreshWrites
  BY <1>0, <1>1, <1>2, <1>5 DEF ReindexBegins, Write, RefreshWrites
<1>6. CASE Walk \/ Prune
  BY <1>0, <1>2, <1>6 DEF Walk, Prune, Pruned
<1>7. CASE rows' = rows
  BY <1>0, <1>7
<1> QED BY <1>4, <1>5, <1>6, <1>7, Frames

\* The batch of a walk, and the path it ends at.
LEMMA BatchTyped ==
  ASSUME Records, NEW root \in Seq(Names), NEW cursor \in Paths \cup {Root}, NEW n \in Nat
  PROVE  LET batch == FirstOf(ToScan(root, cursor), n)
         IN  /\ batch \subseteq Existing
             /\ (IF batch = {} THEN cursor ELSE LastOf(batch)) \in Paths \cup {Root}
<1> DEFINE batch == FirstOf(ToScan(root, cursor), n)
<1>1. ToScan(root, cursor) \subseteq Existing /\ Existing \subseteq Paths
  BY ExistingIsFinite DEF ToScan, Records
<1>2. batch \subseteq Existing
  BY <1>1, FirstOfIs DEF Records
<1>3. ASSUME batch # {} PROVE LastOf(batch) \in Paths
  <2> HIDE DEF batch
  <2>1. LastOf(batch) \in batch
    BY <1>2, <1>3, LastOfIs DEF Records
  <2> QED BY <2>1, <1>1, <1>2
<1> QED BY <1>2, <1>3

\* A holder of the lock that walks reads on from a cursor.
LEMMA CursorTyped ==
  ASSUME Records, scan.pc = "walk", scan.who # "refresh"
  PROVE  /\ scan.who \in {"indexer", "reindex", "sync"} /\ scan.root \in {Root, sc.scope}
         /\ Cursor \in Paths \cup {Root}
<1>1. scan.who \in {"none", "indexer", "reindex", "sync", "refresh"}
  BY DEF Records, Scan
<1>2. scan.who # "none"
  BY DEF Records, HolderFits, NoScan
<1>3. scan.root \in {Root, sc.scope}
  BY <1>1, <1>2 DEF Records, HolderFits
<1>4. state.cursor[scan.root] \in Paths \cup {Root}
  BY <1>3 DEF Records, ScanStates, Cursors
<1> QED BY <1>1, <1>2, <1>3, <1>4 DEF Cursor

\* The lock's holder keeps its record.
LEMMA ScanStepTyped ==
  ASSUME Records, [Next]_vars
  PROVE  scan' \in Scan /\ HolderFits'
<1>0. scan \in Scan /\ HolderFits /\ sc' = sc /\ NoScan \in Scan
  <2>1. NoScan \in Scan
    BY RootIsSeq DEF NoScan, Scan
  <2> QED BY <2>1, Frames DEF Records
<1>1. ASSUME NEW who \in {"indexer", "reindex", "sync", "refresh"}, NEW root \in Seq(Names), Lock(who, root)
      PROVE  scan' \in Scan /\ scan'.who = who /\ scan'.root = root /\ scan'.pc = "walk"
  BY <1>0, <1>1 DEF Lock, NoScan, Scan
<1>2. ASSUME NEW pc \in {"walk", "write", "cursor", "flags", "prune"}, Goto(pc)
      PROVE  scan' \in Scan /\ scan'.who = scan.who /\ scan'.root = scan.root /\ scan'.pc = pc
  BY <1>0, <1>2 DEF Goto, Scan
<1>3. CASE scan' = NoScan
  BY <1>0, <1>3 DEF HolderFits, NoScan
<1>4. CASE IndexerBegins \/ ReindexBegins \/ SyncBegins \/ RefreshBegins
  <2>1. Root \in Seq(Names) /\ sc.scope \in Seq(Names) /\ download.hook \in Seq(Names)
    BY RootIsSeq, ScenarioTyped DEF Records, Download
  <2>2. CASE IndexerBegins
    BY <1>0, <1>1, <2>1, <2>2 DEF IndexerBegins, HolderFits
  <2>3. CASE ReindexBegins
    BY <1>0, <1>1, <2>1, <2>3 DEF ReindexBegins, HolderFits
  <2>4. CASE SyncBegins
    BY <1>0, <1>1, <2>1, <2>4 DEF SyncBegins, HolderFits
  <2>5. CASE RefreshBegins
    BY <1>0, <1>1, <2>1, <2>5 DEF RefreshBegins, HolderFits
  <2> QED BY <1>4, <2>2, <2>3, <2>4, <2>5
<1>5. CASE Walk
  <2>1. scan.who \in {"indexer", "reindex", "sync"} /\ Cursor \in Paths \cup {Root} /\ scan.root \in Seq(Names)
    BY <1>5, CursorTyped DEF Walk, Records, Scan
  <2> DEFINE n == IF scan.who = "sync" THEN sc.budget ELSE sc.batch
             all == ToScan(scan.root, Cursor)
             batch == FirstOf(all, n)
             last == IF batch = {} THEN Cursor ELSE LastOf(batch)
  <2>2. n \in Nat
    BY ScenarioTyped DEF Records
  <2>3. batch \subseteq Paths /\ last \in Paths \cup {Root}
    BY <2>1, <2>2, BatchTyped, ExistingIsFinite DEF Records
  <2>4. ReachedEnd(batch, all) \in BOOLEAN
    <3>1. batch \subseteq Existing
      BY <2>1, <2>2, BatchTyped
    <3> HIDE DEF batch
    <3>2. Cardinality(batch) \in Nat
      BY <3>1, ExistingIsFinite, FS_Subset, FS_CardinalityType DEF Records
    <3>3. sc.batch \in Nat
      BY ScenarioTyped DEF Records
    <3>4. (Cardinality(batch) < sc.batch) \in BOOLEAN
      BY <3>2, <3>3
    <3> QED BY <3>4 DEF ReachedEnd
  <2>5. scan' = [scan EXCEPT !.pc = "write", !.records = {p \in batch : Indexable(p)},
                             !.last = last, !.end = ReachedEnd(batch, all), !.whole = (Cursor = Root)]
    BY <1>5 DEF Walk
  <2> HIDE DEF batch, last, all
  <2>6. {p \in batch : Indexable(p)} \in SUBSET Paths
    BY <2>3
  <2> DEFINE kept == {p \in batch : Indexable(p)}
             end == ReachedEnd(batch, all)
  <2> HIDE DEF kept, end
  <2>7. scan' = [scan EXCEPT !.pc = "write", !.records = kept, !.last = last, !.end = end, !.whole = (Cursor = Root)]
    BY <2>5 DEF kept, end
  <2>8. kept \in SUBSET Paths /\ end \in BOOLEAN
    BY <2>4, <2>6 DEF kept, end
  <2>9. scan' \in Scan /\ scan'.who = scan.who /\ scan'.root = scan.root /\ scan'.pc = "write"
    BY <1>0, <2>3, <2>7, <2>8 DEF Scan
  <2> QED BY <1>0, <2>1, <2>9 DEF HolderFits
<1>6. CASE Write \/ WriteCursor \/ WriteFlags
  <2>1. scan.who \in {"none", "indexer", "reindex", "sync", "refresh"} /\ scan.who # "none"
    BY <1>0, <1>6 DEF Write, WriteCursor, WriteFlags, Scan, HolderFits, NoScan
  <2>2. CASE Write
    BY <1>0, <1>2, <2>1, <2>2 DEF Write, HolderFits
  <2>3. CASE WriteCursor
    BY <1>0, <1>2, <2>1, <2>3 DEF WriteCursor, HolderFits
  <2>4. CASE WriteFlags
    BY <1>0, <1>2, <1>3, <2>1, <2>4 DEF WriteFlags, HolderFits
  <2> QED BY <1>6, <2>2, <2>3, <2>4
<1>7. CASE Prune \/ RefreshWrites \/ ScanFails \/ Crash
  BY <1>3, <1>7 DEF Prune, RefreshWrites, ScanFails, Crash
<1>8. CASE RefreshReads
  <2>1. Refreshed(scan.root) \in SUBSET Paths
    <3>1. Refreshed(scan.root) \subseteq Existing
      BY DEF Refreshed
    <3> QED BY <3>1, ExistingIsFinite DEF Records
  <2>2. scan' = [scan EXCEPT !.pc = "write", !.records = Refreshed(scan.root)] /\ scan.who = "refresh"
    BY <1>8 DEF RefreshReads, Scanner
  <2>3. scan' \in Scan /\ scan'.who = scan.who /\ scan'.pc = "write"
    BY <1>0, <2>1, <2>2 DEF Scan
  <2> QED BY <1>0, <2>2, <2>3 DEF HolderFits
<1>9. CASE scan' = scan
  BY <1>0, <1>9 DEF HolderFits
<1>10. CASE ClearIndex
  <2>1. scan' = [scan EXCEPT !.whole = FALSE]
    BY <1>10 DEF ClearIndex
  <2>2. /\ scan' \in Scan /\ scan'.who = scan.who /\ scan'.root = scan.root /\ scan'.pc = scan.pc
        /\ scan = NoScan => scan' = NoScan
    BY <1>0, <2>1 DEF Scan, NoScan
  <2> QED BY <1>0, <2>2 DEF HolderFits
<1> QED BY <1>4, <1>5, <1>6, <1>7, <1>8, <1>9, <1>10, Frames DEF ScanStep

\* The scan state keeps its record.
LEMMA StateStep ==
  ASSUME Records, [Next]_vars
  PROVE  state' \in [cursor : Cursors, complete : BOOLEAN, scanned : BOOLEAN, indexing : BOOLEAN]
<1>0. state \in ScanStates /\ scan \in Scan
  BY DEF Records
<1>1. \A value \in BOOLEAN : Indexing(value) \in ScanStates
  BY <1>0 DEF Indexing, ScanStates
<1>2. CASE IndexerBegins \/ ScanFails
  BY <1>1, <1>2 DEF IndexerBegins, ScanFails, ScanStates
<1>3. CASE ReindexBegins
  <2> DEFINE s == IF reindex.first THEN [state.cursor EXCEPT ![sc.scope] = Root] ELSE state.cursor
             scanned == state.scanned /\ ~(reindex.first /\ sc.scope = Root)
  <2>1. s \in Cursors /\ scanned \in BOOLEAN
    BY <1>0 DEF ScanStates, Cursors
  <2>2. state' = [state EXCEPT !.indexing = TRUE, !.cursor = s, !.scanned = scanned]
    BY <1>3 DEF ReindexBegins
  <2> HIDE DEF s, scanned
  <2> QED BY <1>0, <2>1, <2>2 DEF ScanStates
<1>4. CASE WriteCursor
  <2>1. scan.who \in {"indexer", "reindex"} /\ scan.root \in {Root, sc.scope}
    BY <1>4 DEF WriteCursor, Records, HolderFits
  <2>2. NextCursor \in Paths \cup {Root}
    BY <1>0 DEF NextCursor, Scan
  <2> DEFINE cursor == [state.cursor EXCEPT ![scan.root] = NextCursor]
             complete == IF scan.root = Root THEN state.complete ELSE scan.end
  <2>4. cursor \in Cursors /\ complete \in BOOLEAN
    BY <1>0, <2>1, <2>2 DEF ScanStates, Cursors, Scan
  <2>5. state' = [state EXCEPT !.cursor = cursor, !.complete = complete]
    BY <1>0, <1>4 DEF WriteCursor, ScanStates
  <2> HIDE DEF cursor, complete
  <2> QED BY <1>0, <2>4, <2>5 DEF ScanStates
<1>7. CASE WriteFlags
  BY <1>0, <1>7 DEF WriteFlags, ScanStates
<1>8. CASE ClearIndex
  BY <1>8 DEF ClearIndex, Cursors
<1>5. CASE Prune
  <2>1. [state EXCEPT !.complete = scan.end] \in ScanStates
    BY <1>0 DEF ScanStates, Scan
  <2> QED BY <1>0, <1>5, <2>1 DEF Prune, ScanStates
<1>6. CASE state' = state
  BY <1>0, <1>6 DEF ScanStates
<1> QED BY <1>2, <1>3, <1>4, <1>5, <1>6, <1>7, <1>8, Frames

\* A path stays a sequence of names through a rename or a move.
LEMMA RewrittenIsSeq ==
  ASSUME Records, op.kind = "move", NEW p \in Seq(Names)
  PROVE  Rewritten(p) \in Seq(Names)
<1>1. op.from \in Seq(Names) /\ op.to \in Seq(Names)
  BY PathIsSeq DEF Records, OperationFits
<1>2. CASE IsAt(op.from, p)
  BY <1>1, <1>2, MovedIs DEF Rewritten
<1>3. CASE ~IsAt(op.from, p)
  BY <1>3 DEF Rewritten, MovedPath
<1> QED BY <1>2, <1>3

\* The reindex job keeps its record.
LEMMA ReindexStep ==
  ASSUME Records, [Next]_vars
  PROVE  reindex' \in Reindex
<1>0. reindex \in Reindex /\ scan \in Scan /\ \A r \in Reindex : r.status \in {"none", "queued", "running", "paused", "done", "failed"}
  BY DEF Records, Reindex
<1>1. \A s \in {"none", "queued", "running", "paused", "done", "failed"}, b \in BOOLEAN :
        /\ [status |-> s, first |-> b, cleared |-> FALSE] \in Reindex
        /\ [reindex EXCEPT !.status = s] \in Reindex /\ [reindex EXCEPT !.status = s, !.first = b] \in Reindex
        /\ [reindex EXCEPT !.cleared = b] \in Reindex
  BY <1>0 DEF Reindex
<1>2. CASE WriteFlags
  <2>1. reindex' = reindex \/ reindex' = [reindex EXCEPT !.status = IF scan.end THEN "done" ELSE reindex.status, !.first = FALSE]
    BY <1>2 DEF WriteFlags
  <2>2. (IF scan.end THEN "done" ELSE reindex.status) \in {"none", "queued", "running", "paused", "done", "failed"}
    BY <1>0
  <2> QED BY <1>0, <1>1, <2>1, <2>2
<1>3. CASE ScanFails
  BY <1>0, <1>1, <1>3 DEF ScanFails
<1>4. CASE RequestReindex \/ StartReindex
  BY <1>1, <1>4 DEF RequestReindex, StartReindex
<1>5. CASE StopReindex \/ ResumeReindex
  BY <1>1, <1>5 DEF StopReindex, ResumeReindex
<1>6. CASE Crash
  <2>1. reindex' = [reindex EXCEPT !.status = IF reindex.status = "running" THEN "queued" ELSE reindex.status]
    BY <1>6 DEF Crash
  <2>2. (IF reindex.status = "running" THEN "queued" ELSE reindex.status) \in {"none", "queued", "running", "paused", "done", "failed"}
    BY <1>0
  <2> QED BY <1>1, <2>1, <2>2
<1>7. CASE ClearHistory \/ ClearIndex
  BY <1>0, <1>1, <1>7 DEF ClearHistory, ClearIndex
<1> QED BY <1>0, <1>2, <1>3, <1>4, <1>5, <1>6, <1>7, Frames

\* The operation under way keeps its record.
LEMMA OperationStep ==
  ASSUME Records, [Next]_vars
  PROVE  op' \in Operation /\ OperationFits'
<1> DEFINE Fine(r) == r \in Operation /\ (r.kind # "none" => r.from \in Paths) /\ (r.kind \in {"moving", "move"} => r.to \in Paths)
<1> SUFFICES Fine(op')
  BY DEF OperationFits
<1>0. Fine(op)
  BY DEF Records, OperationFits
<1>1. Fine([op EXCEPT !.kind = "none"])
  BY <1>0 DEF Operation
<1>2. ASSUME NEW o \in Objects, There(o) PROVE at[o] \in Paths
  BY <1>2 DEF There, Records, Placed
<1>3. ASSUME NEW o \in Objects, LookAtJobs("deleting", o, Root) PROVE Fine(op')
  <2>1. op' = [kind |-> "deleting", from |-> at[o], to |-> Root] /\ at[o] \in Paths
    BY <1>2, <1>3 DEF LookAtJobs
  <2> QED BY <2>1 DEF Operation
<1>4. ASSUME NEW o \in Objects, NEW to \in Paths, LookAtJobs("moving", o, to) PROVE Fine(op')
  <2>1. op' = [kind |-> "moving", from |-> at[o], to |-> to] /\ at[o] \in Paths
    BY <1>2, <1>4 DEF LookAtJobs
  <2> QED BY <2>1 DEF Operation
<1>5. CASE MoveInDatabase \/ DeleteInDatabase \/ Crash
  BY <1>1, <1>5 DEF MoveInDatabase, DeleteInDatabase, Crash
<1>6. CASE MoveOnDisk
  <2>1. op.kind = "moving" /\ (op' = [op EXCEPT !.kind = "move"] \/ op' = [op EXCEPT !.kind = "none"])
    BY <1>6 DEF MoveOnDisk
  <2> QED BY <1>0, <2>1 DEF Operation
<1>7. CASE DeleteOnDisk
  <2>1. op.kind = "deleting" /\ (op' = [op EXCEPT !.kind = "delete"] \/ op' = [op EXCEPT !.kind = "none"])
    BY <1>7 DEF DeleteOnDisk
  <2> QED BY <1>0, <2>1 DEF Operation
<1>8. CASE op' = op \/ ClearIndex
  BY <1>0, <1>8 DEF ClearIndex
<1> QED BY <1>3, <1>4, <1>5, <1>6, <1>7, <1>8, Frames DEF HandlerStep, Look

\* Marks are paths of objects.
LEMMA MarksStep ==
  ASSUME Records, [Next]_vars
  PROVE  marks' \subseteq Seq(Names) \X Objects
<1>0. marks \subseteq Seq(Names) \X Objects
  BY DEF Records
<1>1. CASE MoveInDatabase
  <2>0. op.kind = "move"
    BY <1>1 DEF MoveInDatabase
  <2>1. ASSUME NEW m \in marks PROVE <<Rewritten(m[1]), m[2]>> \in Seq(Names) \X Objects
    <3>1. m[1] \in Seq(Names) /\ m[2] \in Objects
      BY <1>0
    <3> QED BY <2>0, <3>1, RewrittenIsSeq
  <2> QED BY <1>1, <2>1 DEF MoveInDatabase
<1>2. CASE DeleteInDatabase
  BY <1>0, <1>2 DEF DeleteInDatabase
<1>3. ASSUME NEW o \in Objects, Mark(o) PROVE marks' \subseteq Seq(Names) \X Objects
  <2>1. at[o] \in Seq(Names)
    BY <1>3, PathIsSeq DEF Mark, There, Records, Placed
  <2> QED BY <1>0, <1>3, <2>1 DEF Mark
<1> QED BY <1>0, <1>1, <1>2, <1>3, Frames DEF HandlerStep

\* The download keeps its record.
LEMMA DownloadStep ==
  ASSUME Records, [Next]_vars
  PROVE  download' \in Download /\ (HasTarget' => download'.of \in Objects)
<1> DEFINE Fine(r) == r \in Download /\ (r.status \in {"active", "done", "failed"} => r.of \in Objects)
<1> SUFFICES Fine(download')
  BY DEF HasTarget
<1>0. Fine(download) /\ Gone \in Seq(Names) /\ download.path \in Seq(Names) /\ download.hook \in Seq(Names)
      /\ Beside \in BOOLEAN
  BY RootIsSeq DEF Records, HasTarget, Download, Beside
<1>1. \A p \in Seq(Names) : Fine([download EXCEPT !.path = p]) /\ Fine([download EXCEPT !.hook = p])
  BY <1>0 DEF Download
<1>2. \A p \in Seq(Names) : Fine([NoDownload EXCEPT !.hook = p])
  BY <1>0 DEF Download, NoDownload
<1>3. CASE MoveInDatabase
  <2>1. download' = [download EXCEPT !.path = IF HasTarget THEN Rewritten(download.path) ELSE download.path]
        /\ Rewritten(download.path) \in Seq(Names)
    BY <1>0, <1>3, RewrittenIsSeq DEF MoveInDatabase
  <2> QED BY <1>0, <1>1, <2>1
<1>4. CASE DeleteInDatabase
  <2>1. download' = [download EXCEPT !.path = IF HasTarget /\ IsAt(op.from, download.path) THEN Gone ELSE download.path]
    BY <1>4 DEF DeleteInDatabase
  <2> QED BY <1>0, <1>1, <2>1
<1>5. CASE RefreshBegins \/ Crash
  BY <1>0, <1>1, <1>5 DEF RefreshBegins, Crash
<1>6. CASE DownloadEnds
  <2>1. /\ download.status = "active"
        /\ \/ download' = [download EXCEPT !.status = "done", !.hook = download.path]
           \/ download' = [download EXCEPT !.status = "failed"]
    BY <1>6 DEF DownloadEnds
  <2> QED BY <1>0, <2>1 DEF Download
<1>7. CASE DownloadRetried
  <2>1. download.status = "failed" /\ download' = [download EXCEPT !.status = "active", !.beside = Beside]
    BY <1>7 DEF DownloadRetried
  <2> QED BY <1>0, <2>1 DEF Download
<1>8. CASE ClearHistory
  BY <1>0, <1>2, <1>8 DEF ClearHistory
<1>9. ASSUME NEW o \in Objects, There(o) PROVE at[o] \in Seq(Names)
  BY AnyPathIsSeq DEF Records, Placed
<1>10. ASSUME NEW o \in Objects, DownloadStarts(o) PROVE Fine(download')
  <2>1. download' = [download EXCEPT !.status = "expected", !.path = at[o], !.beside = Beside] /\ at[o] \in Seq(Names)
    BY <1>9, <1>10 DEF DownloadStarts
  <2> QED BY <1>0, <2>1 DEF Download
<1>11. ASSUME NEW o \in Objects, TargetChosen(o) PROVE Fine(download')
  <2>1. download' = [download EXCEPT !.status = "active", !.path = at[o], !.of = o] /\ at[o] \in Seq(Names)
    BY <1>9, <1>11 DEF TargetChosen
  <2> QED BY <1>0, <2>1 DEF Download
<1>12. CASE download' = download
  BY <1>0, <1>12
<1> QED BY <1>3, <1>4, <1>5, <1>6, <1>7, <1>8, <1>10, <1>11, <1>12, Frames DEF DownloadRow

\* So do the histories of clearing.
LEMMA ClearStep ==
  ASSUME Records, [Next]_vars
  PROVE  clear' \in Clear
<1>1. clear \in Clear
  BY DEF Records
<1>2. Vouched \in Clear
  BY <1>1 DEF Vouched, Clear
<1>3. CASE WriteCursor \/ Prune
  BY <1>1, <1>2, <1>3 DEF WriteCursor, Prune
<1>4. CASE ClearHistory \/ ClearIndex \/ Crash
  <2>1. CASE ClearIndex
    BY <2>1 DEF ClearIndex, Clear
  <2>2. CASE ClearHistory
    <3>1. clear' = [clear EXCEPT !.busy = TRUE]
      BY <2>2 DEF ClearHistory
    <3> QED BY <1>1, <3>1 DEF Clear
  <2>3. CASE Crash
    <3>1. clear' = [clear EXCEPT !.busy = FALSE]
      BY <2>3 DEF Crash
    <3> QED BY <1>1, <3>1 DEF Clear
  <2> QED BY <1>4, <2>1, <2>2, <2>3
<1> QED BY <1>1, <1>3, <1>4, Frames

\* Pages keep their records, and no more is asked for than was to be.
LEMMA PagesStep ==
  ASSUME Records, [Next]_vars
  PROVE  cache' \in LivePage /\ reader' \in LivePage /\ left' \in 0..sc.requests
<1>0. cache \in LivePage /\ reader \in LivePage /\ NoPage \in LivePage /\ stamp \in Nat /\ Existing \subseteq Paths
  BY ExistingIsFinite DEF Records, LivePage, NoPage
<1>1. ASSUME ReadSignature PROVE reader' \in LivePage
  BY <1>0, <1>1 DEF ReadSignature, LivePage, NoPage
<1>2. ASSUME ReadItems PROVE reader' \in LivePage
  <2>1. {p \in Existing : IsAt(sc.scope, p)} \in SUBSET Paths
    BY <1>0
  <2> QED BY <1>0, <1>2, <2>1 DEF ReadItems, LivePage
<1>3. ASSUME StorePage PROVE cache' \in LivePage /\ reader' \in LivePage
  <2>1. reader.stamp \in Nat /\ reader.items \in SUBSET Paths
    BY <1>0 DEF LivePage
  <2> QED BY <1>0, <1>3, <2>1 DEF StorePage, LivePage, Signature
<1>4. ASSUME Crash PROVE reader' \in LivePage
  BY <1>0, <1>4 DEF Crash
<1>5. reader' \in LivePage
  BY <1>0, <1>1, <1>2, <1>3, <1>4, Frames
<1>6. cache' \in LivePage
  BY <1>0, <1>3, Frames
<1>7. left' \in 0..sc.requests
  <2>0. sc.requests \in Nat /\ left \in 0..sc.requests
    BY ScenarioTyped DEF Records
  <2>1. left' = left \/ (left > 0 /\ left' = left - 1)
    BY DEF Next, vars, ScanStep, JobStep, HandlerStep, Walk, Write, WriteCursor, WriteFlags, Prune, RefreshReads,
           RefreshWrites, ReindexBegins, StartReindex, RefreshBegins, MoveOnDisk, DeleteOnDisk, MoveInDatabase,
           DeleteInDatabase, ClearIndex, IndexerBegins, SyncBegins, ScanFails, RequestReindex, StopReindex,
           ResumeReindex, ClearHistory, DownloadEnds, DownloadRetried, ReadSignature, ReadItems, StorePage,
           PageExpires, Crash, LookAtJobs, External, Mark, DownloadStarts, TargetChosen
  <2> QED BY <2>0, <2>1
<1> QED BY <1>5, <1>6, <1>7

\* The records of all variables are inductive.
LEMMA RecordsStep == ASSUME Records, [Next]_vars PROVE Records'
<1>1. sc' = sc /\ sc \in Scenarios
  BY Frames DEF Records
<1>2. Placed' /\ stamp' \in Nat
  BY PlacedStep
<1>3. rows' \in [Paths -> {"absent", "stale", "fresh"}]
  BY RowsStep
<1>4. state' \in ScanStates'
  BY <1>1, StateStep DEF ScanStates, Cursors
<1>5. scan' \in Scan' /\ HolderFits'
  BY ScanStepTyped DEF Scan
<1>6. reindex' \in Reindex'
  BY ReindexStep DEF Reindex
<1>7. op' \in Operation' /\ OperationFits' /\ clear' \in Clear'
  BY OperationStep, ClearStep DEF Operation, Clear
<1>8. marks' \subseteq Seq(Names) \X Objects
  BY MarksStep
<1>9. download' \in Download' /\ (HasTarget' => download'.of \in Objects)
  BY DownloadStep DEF Download
<1>10. cache' \in LivePage' /\ reader' \in LivePage' /\ left' \in 0..sc'.requests
  BY <1>1, PagesStep DEF LivePage
<1> QED BY <1>1, <1>2, <1>3, <1>4, <1>5, <1>6, <1>7, <1>8, <1>9, <1>10 DEF Records


-----------------------------------------------------------------------------
(* The files are a tree.                                                   *)

\* Moved there and back again a path is what it was.
LEMMA MovedBack ==
  ASSUME NEW p \in Seq(Names), NEW from \in Seq(Names), NEW to \in Seq(Names), IsAt(to, p)
  PROVE  LET q == MovedPath(p, to, from)
         IN  /\ q \in Seq(Names) /\ Len(q) = Len(from) + Len(p) - Len(to) /\ IsAt(from, q)
             /\ MovedPath(q, from, to) = p
<1> DEFINE q == MovedPath(p, to, from)
           r == MovedPath(q, from, to)
           f == Len(from)
           t == Len(to)
<1>1. /\ q \in Seq(Names) /\ Len(q) = f + Len(p) - t /\ IsAt(from, q)
      /\ \A i \in (t + 1)..Len(p) : q[f - t + i] = p[i]
  BY MovedIs
<1>2. f \in Nat /\ t \in Nat /\ t <= Len(p) /\ \A i \in 1..t : to[i] = p[i]
  BY IsAtIff
<1> HIDE DEF q
<1>3. /\ r \in Seq(Names) /\ Len(r) = t + Len(q) - f
      /\ \A i \in 1..t : r[i] = to[i]
      /\ \A i \in (f + 1)..Len(q) : r[t - f + i] = q[i]
  BY <1>1, MovedIs, ZenonT(60)
<1> HIDE DEF r, f, t
<1>4. Len(r) = Len(p)
  BY <1>1, <1>2, <1>3
<1>5. \A i \in 1..Len(p) : r[i] = p[i]
  <2> SUFFICES ASSUME NEW i \in 1..Len(p) PROVE r[i] = p[i]
    OBVIOUS
  <2>1. CASE i <= t
    BY <2>1, <1>2, <1>3
  <2>2. CASE i > t
    <3> DEFINE k == f - t + i
    <3>1. k \in (f + 1)..Len(q) /\ t - f + k = i /\ i \in (t + 1)..Len(p)
      BY <2>2, <1>1, <1>2
    <3>2. q[k] = p[i]
      BY <3>1, <1>1
    <3> HIDE DEF k
    <3>3. r[t - f + k] = q[k]
      BY <3>1, <1>3
    <3> QED BY <3>1, <3>2, <3>3
  <2> QED BY <2>1, <2>2, <1>2
<1>6. r = p
  BY <1>3, <1>4, <1>5, SeqEqual
<1> QED BY <1>1, <1>6 DEF q, r, f, t

\* What leads to a place in a folder that is there are folders.
LEMMA FoldersAbove ==
  ASSUME Placed, IsTree, NEW to \in Paths, IsFolderThere(Parent(to)), NEW p \in Paths, IsAt(p, to), p # to
  PROVE  \E x \in Objects : at[x] = p /\ sc.kind[x] # "file"
<1>1. p \in Seq(Names) /\ Len(p) \in 1..3 /\ Parent(to) \in Seq(Names) /\ IsAt(p, Parent(to))
  BY PathIsSeq, ParentIs, AboveIsAboveParent
<1>2. Parent(to) # Root
  <2>1. Len(p) <= Len(Parent(to))
    BY <1>1, IsAtIff
  <2> QED BY <1>1, <2>1 DEF Root
<1>3. PICK x \in Objects : at[x] = Parent(to) /\ sc.kind[x] # "file" /\ There(x)
  <2>1. Parent(to) \in Existing /\ ~IsFile(Parent(to))
    BY <1>2 DEF IsFolderThere
  <2>2. Who(Parent(to)) \in Objects /\ at[Who(Parent(to))] = Parent(to)
    BY <2>1 DEF Existing, Who
  <2> QED BY <2>1, <2>2, <1>2 DEF IsFile, There, Gone, Root
<1>4. CASE p = Parent(to)
  BY <1>3, <1>4
<1>5. CASE p # Parent(to)
  BY <1>1, <1>3, <1>5 DEF IsTree
<1> QED BY <1>4, <1>5

\* Nothing lies at a vacant path.
LEMMA NothingAtVacant ==
  ASSUME IsTree, NEW to \in Paths, to \notin Existing, NEW o \in Objects, There(o)
  PROVE  ~IsAt(to, at[o])
<1>1. to # at[o]
  BY DEF Existing
<1>2. ASSUME NEW x \in Objects PROVE at[x] # to
  BY PathIsSeq DEF Existing, There, Gone, Root
<1> QED BY <1>1, <1>2 DEF IsTree

\* Taking away a path with all that is at it leaves a tree.
LEMMA TreeWithout ==
  ASSUME Placed, IsTree, NEW d \in Seq(Names), at' = Without(d), sc' = sc
  PROVE  IsTree'
<1>1. \A x \in Objects : at'[x] = IF There(x) /\ IsAt(d, at[x]) THEN Gone ELSE at[x]
  BY DEF Without
<1>2. ASSUME NEW o \in Objects, at'[o] # Gone
      PROVE  There(o) /\ at'[o] = at[o] /\ ~IsAt(d, at[o]) /\ at[o] \in Paths
  BY <1>1, <1>2 DEF There, Placed
<1>3. ASSUME NEW o \in Objects, NEW x \in Objects, at'[o] # Gone, at'[o] = at'[x] PROVE o = x
  BY <1>2, <1>3 DEF IsTree
<1>4. ASSUME NEW o \in Objects, at'[o] # Gone, NEW p \in Paths \ {at'[o]}, IsAt(p, at'[o])
      PROVE  \E x \in Objects : at'[x] = p /\ sc.kind[x] # "file"
  <2>1. PICK x \in Objects : at[x] = p /\ sc.kind[x] # "file"
    BY <1>2, <1>4 DEF IsTree
  <2>2. ~IsAt(d, p)
    <3>1. p \in Seq(Names) /\ at[o] \in Seq(Names)
      BY <1>2, <1>4, PathIsSeq
    <3> QED BY <3>1, <1>2, <1>4, IsAtTransitive
  <2> QED BY <2>1, <2>2, <1>1
<1> QED BY <1>3, <1>4 DEF IsTree, There

\* So does putting an object in a folder that is there, where nothing is yet.
LEMMA TreeWith ==
  ASSUME Placed, IsTree, NEW o \in Objects, ~There(o), NEW p \in Paths, IsFolderThere(Parent(p)), p \notin Existing,
         at' = [at EXCEPT ![o] = p], sc' = sc
  PROVE  IsTree'
<1>1. at'[o] = p /\ \A x \in Objects \ {o} : at'[x] = at[x]
  BY DEF Placed
<1>2. \A x \in Objects : at[x] # p
  BY PathIsSeq DEF Existing, There, Gone, Root
<1>3. ASSUME NEW y \in Objects, NEW x \in Objects, at'[y] # Gone, at'[y] = at'[x] PROVE y = x
  BY <1>1, <1>2, <1>3 DEF IsTree, There
<1>4. \A x \in Objects, q \in Paths : at[x] = q => at'[x] = q
  BY <1>1, RootIsSeq DEF There
<1>5. ASSUME NEW y \in Objects, at'[y] # Gone, NEW q \in Paths \ {at'[y]}, IsAt(q, at'[y])
      PROVE  \E x \in Objects : at'[x] = q /\ sc.kind[x] # "file"
  <2>1. CASE y = o
    <3>1. \E x \in Objects : at[x] = q /\ sc.kind[x] # "file"
      BY <2>1, <1>1, <1>5, FoldersAbove
    <3> QED BY <3>1, <1>4
  <2>2. CASE y # o
    <3>1. \E x \in Objects : at[x] = q /\ sc.kind[x] # "file"
      BY <2>2, <1>1, <1>5 DEF IsTree, There
    <3> QED BY <3>1, <1>4
  <2> QED BY <2>1, <2>2
<1> QED BY <1>3, <1>5 DEF IsTree, There

\* So does a move of a folder with its content to a vacant path outside of it.
LEMMA TreeMoved ==
  ASSUME Placed, IsTree, NEW from \in Paths, NEW to \in Paths, to \notin Existing, ~IsAt(from, to),
         IsFolderThere(Parent(to)), sc' = sc,
         at' = [x \in Objects |-> IF There(x) THEN MovedPath(at[x], from, to) ELSE Gone],
         \A x \in Objects : There(x) => MovedPath(at[x], from, to) \in Paths
  PROVE  IsTree'
<1>0. from \in Seq(Names) /\ to \in Seq(Names) /\ Len(from) \in 1..3 /\ Len(to) \in 1..3
  BY PathIsSeq
<1>5. MovedPath(from, from, to) = to
  <2>1. IsAt(from, from)
    BY <1>0, IsAtSelf
  <2>2. /\ MovedPath(from, from, to) \in Seq(Names)
        /\ Len(MovedPath(from, from, to)) = Len(to) + Len(from) - Len(from)
        /\ \A i \in 1..Len(to) : MovedPath(from, from, to)[i] = to[i]
    BY <1>0, <2>1, MovedIs
  <2>3. Len(MovedPath(from, from, to)) = Len(to)
    BY <1>0, <2>2
  <2> QED BY <1>0, <2>2, <2>3, SeqEqual
<1>1. ASSUME NEW x \in Objects, There(x)
      PROVE  /\ at[x] \in Paths /\ at[x] \in Seq(Names) /\ Len(at[x]) \in 1..3
             /\ at'[x] = MovedPath(at[x], from, to) /\ at'[x] \in Paths
             /\ ~IsAt(from, at[x]) => at'[x] = at[x]
             /\ IsAt(from, at[x]) => IsAt(to, at'[x])
             /\ ~IsAt(to, at[x])
  <2>1. at[x] \in Paths
    BY <1>1 DEF There, Placed
  <2>2. at[x] \in Seq(Names) /\ Len(at[x]) \in 1..3
    BY <2>1, PathIsSeq
  <2>3. at'[x] = MovedPath(at[x], from, to) /\ at'[x] \in Paths
    BY <1>1
  <2>4. ~IsAt(from, at[x]) => at'[x] = at[x]
    BY <2>3 DEF MovedPath
  <2>5. IsAt(from, at[x]) => IsAt(to, at'[x])
    BY <2>2, <2>3, <1>0, MovedIs
  <2>6. ~IsAt(to, at[x])
    BY <1>1, NothingAtVacant
  <2> QED BY <2>1, <2>2, <2>3, <2>4, <2>5, <2>6
<1>2. ASSUME NEW x \in Objects, at'[x] # Gone PROVE There(x)
  BY <1>2
<1>3. ASSUME NEW o \in Objects, NEW x \in Objects, at'[o] # Gone, at'[o] = at'[x] PROVE o = x
  <2>0. There(o) /\ There(x)
    BY <1>2, <1>3
  <2>1. CASE IsAt(from, at[o]) /\ IsAt(from, at[x])
    <3>1. at[o] = at[x]
      BY <2>0, <2>1, <1>0, <1>1, <1>3, MovedTogether
    <3> QED BY <2>0, <3>1 DEF IsTree
  <2>2. CASE ~IsAt(from, at[o]) /\ ~IsAt(from, at[x])
    BY <2>0, <2>2, <1>1, <1>3 DEF IsTree
  <2>3. CASE IsAt(from, at[o]) /\ ~IsAt(from, at[x])
    BY <2>0, <2>3, <1>1, <1>3
  <2>4. CASE ~IsAt(from, at[o]) /\ IsAt(from, at[x])
    BY <2>0, <2>4, <1>1, <1>3
  <2> QED BY <2>1, <2>2, <2>3, <2>4
<1>4. ASSUME NEW o \in Objects, at'[o] # Gone, NEW p \in Paths \ {at'[o]}, IsAt(p, at'[o])
      PROVE  \E x \in Objects : at'[x] = p /\ sc.kind[x] # "file"
  <2>0. There(o) /\ p \in Seq(Names) /\ at'[o] \in Seq(Names) /\ p # Gone
    BY <1>1, <1>2, <1>4, PathIsSeq DEF Gone, Root
  <2>1. CASE ~IsAt(from, at[o])
    <3>1. at'[o] = at[o]
      BY <2>0, <2>1, <1>1
    <3>2. PICK x \in Objects : at[x] = p /\ sc.kind[x] # "file"
      BY <2>0, <3>1, <1>4 DEF IsTree
    <3>3. There(x) /\ ~IsAt(from, at[x])
      BY <2>0, <2>1, <3>1, <3>2, <1>0, <1>4, IsAtTransitive DEF There
    <3> QED BY <3>2, <3>3, <1>1
  <2>2. CASE IsAt(from, at[o]) /\ p = to
    <3>1. at[o] # from
      <4>1. ASSUME at[o] = from PROVE at'[o] = to
        BY <2>0, <4>1, <1>1, <1>5
      <4> QED BY <4>1, <2>2, <1>4
    <3>2. PICK x \in Objects : at[x] = from /\ sc.kind[x] # "file"
      BY <2>0, <2>2, <3>1 DEF IsTree
    <3>3. There(x) /\ IsAt(from, at[x])
      BY <3>2, <1>0, IsAtSelf, RootIsSeq DEF There
    <3>5. at'[x] = to
      BY <3>2, <3>3, <1>1, <1>5
    <3> QED BY <3>2, <3>5, <2>2
  <2>3. CASE IsAt(from, at[o]) /\ IsAt(p, to) /\ p # to
    <3>1. PICK x \in Objects : at[x] = p /\ sc.kind[x] # "file"
      BY <2>3, FoldersAbove
    <3>2. There(x) /\ ~IsAt(from, at[x])
      BY <2>0, <2>3, <3>1, <1>0, IsAtTransitive DEF There
    <3> QED BY <3>1, <3>2, <1>1
  <2>4. CASE IsAt(from, at[o]) /\ IsAt(to, p)
    <3> DEFINE q == MovedPath(p, to, from)
    <3>1. q \in Seq(Names) /\ Len(q) = Len(from) + Len(p) - Len(to) /\ IsAt(from, q) /\ MovedPath(q, from, to) = p
      BY <2>0, <2>4, <1>0, MovedBack
    <3> HIDE DEF q
    <3>2. IsAt(q, at[o])
      BY <2>0, <2>4, <3>1, <1>0, <1>1, <1>4, MovedTogether
    <3>3. q # at[o]
      BY <2>0, <3>1, <1>1, <1>4
    <3>4. q \in Paths
      <4>1. Len(q) <= Len(at[o]) /\ Len(from) <= Len(q)
        BY <2>0, <3>1, <3>2, <1>0, <1>1, IsAtIff
      <4>2. Len(q) \in Nat /\ Len(from) \in 1..3 /\ Len(at[o]) \in 1..3
        BY <3>1, <2>0, <1>0, <1>1
      <4>3. \A a, b, c : a \in Nat /\ b \in 1..3 /\ c \in 1..3 /\ b <= a /\ a <= c => a \in 1..3
        OBVIOUS
      <4>4. Len(q) \in 1..3
        BY ONLY <4>1, <4>2, <4>3
      <4> QED BY <4>4, <3>1, SeqIsPath
    <3>5. PICK x \in Objects : at[x] = q /\ sc.kind[x] # "file"
      BY <2>0, <3>2, <3>3, <3>4 DEF IsTree
    <3>6. There(x)
      BY <3>4, <3>5, RootIsSeq DEF There
    <3> QED BY <3>1, <3>5, <3>6, <1>1
  <2>5. CASE IsAt(from, at[o])
    <3>1. IsAt(to, at'[o])
      BY <2>0, <2>5, <1>1
    <3>2. Overlap(p, to)
      BY <2>0, <3>1, <1>0, <1>4, IsAtMeets
    <3> QED BY <2>2, <2>3, <2>4, <2>5, <3>2 DEF Overlap
  <2> QED BY <2>1, <2>5
<1> QED BY <1>3, <1>4 DEF IsTree, There

\* The tree is inductive.
LEMMA TreeInit == ASSUME Init PROVE IsTree
BY TreeAssumption DEF Init, IsTree, There

\* The tree stays one: a rename or a move needs a free path under a folder that is not moved.
LEMMA TreeStep ==
  ASSUME Records, IsTree, [Next]_vars
  PROVE  IsTree'
<1>0. sc' = sc /\ Placed
  BY Frames DEF Records
<1>1. ASSUME NEW o \in Objects PROVE at[o] \in Seq(Names) /\ (There(o) => at[o] \in Paths)
  BY <1>0, AnyPathIsSeq DEF Placed, There
<1>2. CASE DeleteOnDisk
  <2>1. op.from \in Seq(Names) /\ at' = Without(op.from)
    BY <1>2, PathIsSeq DEF DeleteOnDisk, Records, OperationFits
  <2> QED BY <1>0, <2>1, TreeWithout
<1>3. ASSUME NEW o \in Objects, External(o) PROVE IsTree'
  <2>1. CASE There(o)
    BY <1>0, <1>1, <1>3, <2>1, TreeWithout DEF External
  <2>2. CASE ~There(o) /\ sc.at[o] # Gone
    <3>1. sc.at[o] \in Paths
      BY <2>2, ScenarioTyped DEF Records
    <3> QED BY <1>0, <1>3, <2>2, <3>1, TreeWith DEF External
  <2>3. CASE ~There(o) /\ sc.at[o] = Gone
    <3>1. at' = at
      BY <1>0, <1>3, <2>3 DEF External, Placed, There
    <3> QED BY <1>0, <3>1 DEF IsTree, There
  <2> QED BY <2>1, <2>2, <2>3
<1>4. CASE MoveOnDisk
  <2>1. CASE CanMove(op.from, op.to)
    <3>1. op.from \in Paths /\ op.to \in Paths
      BY <1>4 DEF MoveOnDisk, Records, OperationFits
    <3>2. at' = [x \in Objects |-> IF There(x) THEN MovedPath(at[x], op.from, op.to) ELSE Gone]
      BY <1>4, <2>1 DEF MoveOnDisk
    <3>3. /\ op.to \notin Existing /\ ~IsAt(op.from, op.to) /\ IsFolderThere(Parent(op.to))
          /\ \A x \in Objects : There(x) => MovedPath(at[x], op.from, op.to) \in Paths
      BY <2>1 DEF CanMove, Vacant, Existing
    <3> QED BY <1>0, <3>1, <3>2, <3>3, TreeMoved
  <2>2. CASE ~CanMove(op.from, op.to)
    BY <1>0, <1>4, <2>2 DEF MoveOnDisk, IsTree, There
  <2> QED BY <2>1, <2>2
<1>5. CASE DiskStep
  BY <1>2, <1>3, <1>4, <1>5 DEF DiskStep
<1>6. CASE at' = at
  BY <1>0, <1>6 DEF IsTree, There
<1> QED BY <1>5, <1>6, Frames

-----------------------------------------------------------------------------
(* What refers to objects by their paths.                                  *)

\* Where every object is after a deletion and after a move.
LEMMA AtAfter ==
  ASSUME Records
  PROVE  /\ \A o \in Objects : at[o] \in Seq(Names)
         /\ \A d \in Paths : at' = Without(d) => \A o \in Objects : at'[o] = IF IsAt(d, at[o]) THEN Gone ELSE at[o]
         /\ MoveOnDisk /\ CanMove(op.from, op.to) =>
              \A x \in Objects : at'[x] = MovedPath(at[x], op.from, op.to)
<1>1. \A o \in Objects : at[o] \in Seq(Names)
  BY AnyPathIsSeq DEF Records, Placed
<1>2. \A d \in Paths : ~IsAt(d, Gone)
  <2> TAKE d \in Paths
  <2>1. Len(d) \in 1..3 /\ Len(Gone) = 0
    BY PathIsSeq DEF Gone
  <2> QED BY <2>1 DEF IsAt
<1>3. ASSUME NEW d \in Paths, at' = Without(d), NEW o \in Objects
      PROVE  at'[o] = IF IsAt(d, at[o]) THEN Gone ELSE at[o]
  BY <1>2, <1>3 DEF Without, There
<1>4. ASSUME MoveOnDisk, CanMove(op.from, op.to), NEW x \in Objects
      PROVE  at'[x] = MovedPath(at[x], op.from, op.to)
  <2>1. op.from \in Paths
    BY <1>4 DEF MoveOnDisk, Records, OperationFits
  <2>2. MovedPath(Gone, op.from, op.to) = Gone
    BY <1>2, <2>1 DEF MovedPath
  <2>3. at'[x] = IF There(x) THEN MovedPath(at[x], op.from, op.to) ELSE Gone
    BY <1>4 DEF MoveOnDisk
  <2> QED BY <2>2, <2>3 DEF There
<1> QED BY <1>1, <1>3, <1>4

\* A step of the disk of an operation takes away or moves what is at the
\* path it had looked at.
LEMMA DiskMoves ==
  ASSUME Records, [Next]_vars, "external" \notin sc.events, at' # at
  PROVE  /\ op.kind \in {"moving", "deleting"} /\ op.from \in Paths
         /\ \A o \in Objects : ~IsAt(op.from, at[o]) => at'[o] = at[o]
<1>1. CASE DeleteOnDisk
  <2>1. op.kind = "deleting" /\ op.from \in Paths /\ at' = Without(op.from)
    BY <1>1 DEF DeleteOnDisk, Records, OperationFits
  <2>2. \A x \in Objects : at'[x] = IF IsAt(op.from, at[x]) THEN Gone ELSE at[x]
    BY <2>1, AtAfter
  <2> QED BY <2>1, <2>2
<1>2. CASE MoveOnDisk
  <2>1. op.kind = "moving" /\ op.from \in Paths
    BY <1>2 DEF MoveOnDisk, Records, OperationFits
  <2>2. CASE CanMove(op.from, op.to)
    <3>1. \A x \in Objects : at'[x] = MovedPath(at[x], op.from, op.to)
      BY <1>2, <2>2, AtAfter
    <3> QED BY <2>1, <3>1 DEF MovedPath
  <2>3. CASE ~CanMove(op.from, op.to)
    BY <1>2, <2>1, <2>3 DEF MoveOnDisk
  <2> QED BY <2>2, <2>3
<1>3. DiskStep /\ \A o \in Objects : ~External(o)
  BY Frames DEF External
<1> QED BY <1>1, <1>2, <1>3 DEF DiskStep

\* The path of an active download stays away from what an operation is about to take.
LEMMA TargetStep ==
  ASSUME Records, TargetHeld, [Next]_vars
  PROVE  TargetHeld'
<1>0. sc' = sc /\ op \in Operation /\ download \in Download
  BY Frames DEF Records
<1> SUFFICES ASSUME "external" \notin sc.events, download'.status \in {"expected", "active"}, ~download'.beside,
                    op'.kind \in {"moving", "deleting"}
             PROVE  ~Overlap(op'.from, download'.path)
  BY <1>0 DEF TargetHeld, Overlap, IsAt
<1>1. ASSUME NEW o \in Objects, NEW kind, NEW to, LookAtJobs(kind, o, to) PROVE ~Overlap(op'.from, download'.path)
  <2>1. op'.from = at[o] /\ Mutable(at[o]) /\ download' = download
    BY <1>1 DEF LookAtJobs
  <2> QED BY <2>1 DEF Mutable, ActivePaths
<1>2. CASE HandlerStep
  <2>1. CASE MoveOnDisk \/ DeleteOnDisk
    <3>1. \E k \in {"move", "delete", "none"} : op' = [op EXCEPT !.kind = k]
      BY <2>1 DEF MoveOnDisk, DeleteOnDisk
    <3> QED BY <1>0, <3>1 DEF Operation
  <2>2. CASE MoveInDatabase \/ DeleteInDatabase
    BY <1>0, <2>2 DEF MoveInDatabase, DeleteInDatabase, Operation
  <2>3. CASE ClearIndex
    BY <2>3 DEF ClearIndex, TargetHeld
  <2> QED BY <1>2, <2>1, <2>2, <2>3 DEF HandlerStep
<1>3. CASE Crash
  BY <1>0, <1>3 DEF Crash, Operation
<1>4. CASE op' = op /\ download' = download
  BY <1>4 DEF TargetHeld
<1>5. CASE op' = op /\ (RefreshBegins \/ DownloadEnds \/ ClearHistory)
  <2>1. /\ download'.status \in {"expected", "active"} => download.status = download'.status
        /\ download'.path = download.path \/ download'.status = "none"
        /\ download'.beside = download.beside \/ download'.status = "none"
    BY <1>0, <1>5 DEF RefreshBegins, DownloadEnds, ClearHistory, Download, NoDownload
  <2> QED BY <1>5, <2>1 DEF TargetHeld
<1>6. CASE op' = op /\ (DownloadRetried \/ \E o \in Objects : DownloadStarts(o))
  <2>1. download'.beside = Beside
    BY <1>0, <1>6 DEF DownloadRetried, DownloadStarts, Download
  <2> QED BY <1>6, <2>1 DEF Beside
<1>7. ASSUME op' = op, NEW o \in Objects, TargetChosen(o) PROVE ~Overlap(op'.from, download'.path)
  <2>1. /\ download.status = "expected" /\ download'.beside = download.beside /\ download'.path = at[o]
        /\ IsAt(download.path, at[o])
    BY <1>0, <1>7 DEF TargetChosen, Download
  <2>2. /\ ~Overlap(op.from, download.path) /\ op.from \in Seq(Names) /\ at[o] \in Seq(Names)
        /\ download.path \in Seq(Names)
    BY <1>0, <1>7, <2>1, AtAfter, PathIsSeq DEF TargetHeld, Records, OperationFits, Download
  <2>3. ~IsAt(op.from, at[o])
    BY <2>1, <2>2, IsAtMeets
  <2>4. ~IsAt(at[o], op.from)
    BY <2>1, <2>2, IsAtTransitive DEF Overlap
  <2> QED BY <1>7, <2>1, <2>3, <2>4 DEF Overlap
<1>8. CASE op' = op
  <2>1. ~(MoveInDatabase \/ DeleteInDatabase)
    BY <1>0, <1>8 DEF MoveInDatabase, DeleteInDatabase, Operation
  <2> QED BY <1>3, <1>4, <1>5, <1>6, <1>7, <1>8, <2>1, Frames DEF DownloadRow
<1> QED BY <1>1, <1>2, <1>3, <1>8, Frames DEF Look

\* While it is held nothing moves it.
LEMMA NothingMoves ==
  ASSUME Records, TargetHeld, [Next]_vars, NEW o \in Objects,
         download.status \in {"expected", "active"}, ~download.beside, "external" \notin sc.events,
         There(o), IsAt(at[o], download.path) \/ IsAt(download.path, at[o])
  PROVE  at'[o] = at[o]
<1>1. SUFFICES ASSUME at' # at, IsAt(op.from, at[o]) PROVE FALSE
  BY DiskMoves
<1>2. op.kind \in {"moving", "deleting"} /\ op.from \in Seq(Names) /\ at[o] \in Seq(Names) /\ download.path \in Seq(Names)
  BY <1>1, DiskMoves, PathIsSeq, AtAfter DEF Records, Download
<1>3. ~Overlap(op.from, download.path)
  BY <1>2 DEF TargetHeld
<1>4. CASE IsAt(at[o], download.path)
  BY <1>1, <1>2, <1>3, <1>4, IsAtTransitive DEF Overlap
<1>5. CASE IsAt(download.path, at[o])
  BY <1>1, <1>2, <1>3, <1>5, IsAtMeets
<1> QED BY <1>4, <1>5

\* What is gone is below no path.
LEMMA GoneIsNowhere == ASSUME NEW p \in Paths PROVE ~IsAt(p, Gone)
<1>1. Len(p) \in 1..3
  BY PathIsSeq
<1> QED BY <1>1 DEF IsAt, Gone

\* What was moved or deleted is away until the database says so.
LEMMA MovedAwayStep ==
  ASSUME Records, IsTree, MovedAway, [Next]_vars
  PROVE  MovedAway'
<1>0. sc' = sc /\ op \in Operation
  BY Frames DEF Records
<1> SUFFICES ASSUME Calm, op'.kind \in {"move", "delete"}, NEW o \in Objects PROVE ~IsAt(op'.from, at'[o])
  BY <1>0 DEF MovedAway, Calm, IsAt
<1>1. ~Crash /\ \A x \in Objects : ~External(x)
  BY DEF Calm, Crash, External
<1>2. CASE DeleteOnDisk
  <2>1. op.from \in Paths /\ at' = Without(op.from) /\ op'.from = op.from
    BY <1>0, <1>2 DEF DeleteOnDisk, Records, OperationFits, Operation
  <2>2. at'[o] = IF IsAt(op.from, at[o]) THEN Gone ELSE at[o]
    BY <2>1, AtAfter
  <2>3. ~IsAt(op.from, Gone)
    BY <2>1, GoneIsNowhere
  <2> QED BY <2>1, <2>2, <2>3
<1>3. CASE MoveOnDisk
  <2>1. CanMove(op.from, op.to) /\ op'.from = op.from /\ op.from \in Paths /\ op.to \in Paths
    BY <1>0, <1>3 DEF MoveOnDisk, Records, OperationFits, Operation
  <2>2. at'[o] = MovedPath(at[o], op.from, op.to) /\ at[o] \in Seq(Names)
    BY <1>3, <2>1, AtAfter
  <2>3. op.from \in Seq(Names) /\ op.to \in Seq(Names) /\ ~IsAt(op.from, op.to) /\ op.to \notin Existing
        /\ op.from \in Existing
    BY <2>1, PathIsSeq DEF CanMove, Vacant
  <2>4. CASE ~IsAt(op.from, at[o])
    BY <2>1, <2>2, <2>4 DEF MovedPath
  <2>5. CASE IsAt(op.from, at[o])
    <3>1. IsAt(op.to, at'[o]) /\ at'[o] \in Seq(Names)
      <4>1. /\ MovedPath(at[o], op.from, op.to) \in Seq(Names)
            /\ IsAt(op.to, MovedPath(at[o], op.from, op.to))
        BY <2>2, <2>3, <2>5, MovedIs
      <4> QED BY <2>2, <4>1
    <3>2. SUFFICES ASSUME IsAt(op.from, at'[o]) PROVE FALSE
      BY <2>1
    <3>3. IsAt(op.to, op.from)
      BY <2>3, <3>1, <3>2, IsAtMeets DEF Overlap
    <3>4. PICK x \in Objects : There(x) /\ at[x] = op.from
      BY <2>3 DEF Existing
    <3> QED BY <2>1, <2>3, <3>3, <3>4, NothingAtVacant
  <2> QED BY <2>4, <2>5
<1>4. CASE op' = op
  <2>1. ~(MoveOnDisk \/ DeleteOnDisk)
    BY <1>4 DEF MoveOnDisk, DeleteOnDisk
  <2>2. at' = at
    BY <1>1, <2>1, Frames DEF DiskStep
  <2> QED BY <1>4, <2>2 DEF MovedAway
<1>5. CASE MoveInDatabase \/ DeleteInDatabase
  BY <1>0, <1>5 DEF MoveInDatabase, DeleteInDatabase, Operation
<1>6. CASE ClearIndex
  BY <1>4, <1>6 DEF ClearIndex
<1>7. ~Look
  BY <1>0 DEF Look, LookAtJobs
<1> QED BY <1>1, <1>2, <1>3, <1>4, <1>5, <1>6, <1>7, Frames DEF HandlerStep

\* What the database will say after the step under way is where things are.
LEMMA MarksLeadStep ==
  ASSUME Records, IsTree, MovedAway, MarksLead, [Next]_vars
  PROVE  MarksLead'
<1>0. sc' = sc /\ op \in Operation /\ download \in Download
  BY Frames DEF Records
<1> SUFFICES ASSUME Calm PROVE /\ \A m \in marks' : at'[m[2]] = Settled(m[1])'
                               /\ download'.status \in {"active", "done", "failed"} =>
                                    at'[download'.of] = Settled(download.path)'
  BY <1>0 DEF MarksLead, Calm, HasTarget
<1>1. ~Crash /\ \A o \in Objects : ~External(o)
  BY DEF Calm, Crash, External
<1>2. /\ \A m \in marks : m[1] \in Seq(Names) /\ m[2] \in Objects
      /\ \A m \in marks : at[m[2]] = Settled(m[1])
      /\ download.status \in {"active", "done", "failed"} =>
           at[download.of] = Settled(download.path) /\ download.of \in Objects /\ download.path \in Seq(Names)
  BY DEF MarksLead, Records, Download, HasTarget
<1>3. CASE DeleteOnDisk
  <2>1. /\ op.kind = "deleting" /\ op'.from = op.from /\ op.from \in Paths /\ at' = Without(op.from)
        /\ op'.kind = IF op.from \in Existing THEN "delete" ELSE "none"
        /\ marks' = marks /\ download' = download
    BY <1>0, <1>3 DEF DeleteOnDisk, Records, OperationFits, Operation
  <2>2. \A x \in Objects : at'[x] = IF IsAt(op.from, at[x]) THEN Gone ELSE at[x]
    BY <2>1, AtAfter
  <2>3. \A p : Settled(p) = p
    BY <2>1 DEF Settled
  <2>4. CASE op.from \in Existing
    <3>1. \A p : Settled(p)' = IF IsAt(op.from, p') THEN Gone ELSE p'
      BY <2>1, <2>4 DEF Settled, IsAt
    <3> QED BY <1>2, <2>1, <2>2, <2>3, <3>1
  <2>5. CASE op.from \notin Existing
    <3>1. \A p : Settled(p)' = p'
      BY <2>1, <2>5 DEF Settled
    <3>2. ASSUME NEW x \in Objects PROVE at'[x] = at[x]
      BY <2>1, <2>2, <2>5, NothingAtVacant DEF There
    <3> QED BY <1>2, <2>1, <2>3, <3>1, <3>2
  <2> QED BY <2>4, <2>5
<1>4. CASE MoveOnDisk
  <2>1. op.kind = "moving" /\ marks' = marks /\ download' = download
    BY <1>4 DEF MoveOnDisk
  <2>2. \A p : Settled(p) = p
    BY <2>1 DEF Settled
  <2>3. CASE CanMove(op.from, op.to)
    <3>1. op' = [op EXCEPT !.kind = "move"]
      BY <1>4, <2>3 DEF MoveOnDisk
    <3>2. \A x \in Objects : at'[x] = MovedPath(at[x], op.from, op.to)
      BY <1>4, <2>3, AtAfter
    <3>3. op'.kind = "move" /\ op'.from = op.from /\ op'.to = op.to
      BY <1>0, <3>1 DEF Operation
    <3>4. \A p : Settled(p)' = MovedPath(p', op.from, op.to)
      BY <3>3 DEF Settled, Rewritten, MovedPath, IsAt
    <3> QED BY <1>2, <2>1, <2>2, <3>2, <3>4
  <2>4. CASE ~CanMove(op.from, op.to)
    <3>1. op'.kind = "none" /\ at' = at
      BY <1>0, <1>4, <2>4 DEF MoveOnDisk, Operation
    <3>2. \A p : Settled(p)' = p'
      BY <3>1 DEF Settled
    <3> QED BY <1>2, <2>1, <2>2, <3>1, <3>2
  <2> QED BY <2>3, <2>4
<1>5. CASE MoveInDatabase
  <2>1. /\ op.kind = "move" /\ op'.kind = "none" /\ at' = at
        /\ marks' = {<<Rewritten(m[1]), m[2]>> : m \in marks}
        /\ download' = [download EXCEPT !.path = IF HasTarget THEN Rewritten(download.path) ELSE download.path]
    BY <1>0, <1>5 DEF MoveInDatabase, Operation
  <2>2. \A p : Settled(p)' = p' /\ Settled(p) = Rewritten(p)
    BY <2>1 DEF Settled
  <2>3. /\ download'.status = download.status /\ download'.of = download.of
        /\ HasTarget => download'.path = Rewritten(download.path)
    BY <1>0, <2>1 DEF Download
  <2> QED BY <1>2, <2>1, <2>2, <2>3 DEF HasTarget
<1>6. CASE DeleteInDatabase
  <2>1. /\ op.kind = "delete" /\ op'.kind = "none" /\ at' = at
        /\ marks' = {m \in marks : ~IsAt(op.from, m[1])}
        /\ download' = [download EXCEPT !.path = IF HasTarget /\ IsAt(op.from, download.path) THEN Gone ELSE download.path]
    BY <1>0, <1>6 DEF DeleteInDatabase, Operation
  <2>2. \A p : Settled(p)' = p' /\ Settled(p) = IF IsAt(op.from, p) THEN Gone ELSE p
    BY <2>1 DEF Settled
  <2>3. /\ download'.status = download.status /\ download'.of = download.of
        /\ HasTarget => download'.path = IF IsAt(op.from, download.path) THEN Gone ELSE download.path
    BY <1>0, <2>1 DEF Download
  <2> QED BY <1>2, <2>1, <2>2, <2>3 DEF HasTarget
<1>7. ASSUME op' = op PROVE \A p : Settled(p)' = Settled(p')
  BY <1>7 DEF Settled, Rewritten
<1>8. ASSUME NEW o \in Objects, Mark(o)
      PROVE  /\ \A m \in marks' : at'[m[2]] = Settled(m[1])'
             /\ download'.status \in {"active", "done", "failed"} => at'[download'.of] = Settled(download.path)'
  <2>1. op' = op /\ op.kind = "none" /\ at' = at /\ marks' = marks \cup {<<at[o], o>>} /\ download' = download
    BY <1>8 DEF Mark
  <2>2. \A p : Settled(p) = p /\ Settled(p)' = p'
    BY <2>1 DEF Settled
  <2> QED BY <1>2, <2>1, <2>2
<1>9. ASSUME NEW o \in Objects, TargetChosen(o)
      PROVE  /\ \A m \in marks' : at'[m[2]] = Settled(m[1])'
             /\ download'.status \in {"active", "done", "failed"} => at'[download'.of] = Settled(download.path)'
  <2>1. op' = op /\ at' = at /\ marks' = marks /\ download'.of = o /\ download'.path = at[o]
    BY <1>0, <1>9 DEF TargetChosen, Download
  <2>2. Settled(at[o]) = at[o]
    <3>1. CASE op.kind \in {"move", "delete"}
      BY <3>1 DEF MovedAway, Settled, Rewritten, MovedPath
    <3>2. CASE op.kind \notin {"move", "delete"}
      BY <3>2 DEF Settled
    <3> QED BY <3>1, <3>2
  <2>3. \A p : Settled(p)' = Settled(p')
    BY <2>1, <1>7
  <2> QED BY <1>2, <2>1, <2>2, <2>3
<1>10. CASE DownloadEnds \/ DownloadRetried \/ RefreshBegins
  <2>1. /\ op' = op /\ at' = at /\ marks' = marks /\ download'.of = download.of /\ download'.path = download.path
        /\ download'.status \in {"active", "done", "failed"} => download.status \in {"active", "done", "failed"}
    BY <1>0, <1>10 DEF DownloadEnds, DownloadRetried, RefreshBegins, Download
  <2> QED BY <1>2, <1>7, <2>1
<1>11. ASSUME NEW o \in Objects, DownloadStarts(o)
       PROVE  /\ \A m \in marks' : at'[m[2]] = Settled(m[1])'
              /\ download'.status \in {"active", "done", "failed"} => at'[download'.of] = Settled(download.path)'
  <2>1. op' = op /\ at' = at /\ marks' = marks /\ download'.status = "expected"
    BY <1>0, <1>11 DEF DownloadStarts, Download
  <2> QED BY <1>2, <1>7, <2>1
<1>12. CASE ClearHistory
  <2>1. /\ op' = op /\ at' = at /\ marks' = marks
        /\ download' = download \/ download'.status = "none"
    BY <1>0, <1>12 DEF ClearHistory, NoDownload, Download
  <2> QED BY <1>2, <1>7, <2>1
<1>13. CASE at' = at /\ op' = op /\ marks' = marks /\ download' = download
  BY <1>2, <1>7, <1>13
<1>14. ASSUME Look
       PROVE  /\ \A m \in marks' : at'[m[2]] = Settled(m[1])'
              /\ download'.status \in {"active", "done", "failed"} => at'[download'.of] = Settled(download.path)'
  <2>1. /\ op.kind = "none" /\ op'.kind \in {"moving", "deleting"} /\ at' = at /\ marks' = marks
        /\ download' = download
    BY <1>14 DEF Look, LookAtJobs
  <2>2. \A p : Settled(p) = p /\ Settled(p)' = p'
    BY <2>1 DEF Settled
  <2> QED BY <1>2, <2>1, <2>2
<1>15. CASE ClearIndex
  BY <1>13, <1>15 DEF ClearIndex
<1>16. CASE ~(HandlerStep \/ Look \/ \E o \in Objects : Mark(o)) /\ ~DownloadRow
  <2>1. at' = at
    BY <1>1, <1>16, Frames DEF DiskStep, HandlerStep
  <2> QED BY <1>1, <1>13, <1>16, <2>1, Frames DEF HandlerStep
<1> QED BY <1>1, <1>3, <1>4, <1>5, <1>6, <1>8, <1>9, <1>10, <1>11, <1>12, <1>14, <1>15, <1>16 DEF HandlerStep, DownloadRow

-----------------------------------------------------------------------------
(* Live pages.                                                             *)

\* A step of the disk that does not touch the signature does not touch the
\* folder's own entries.
LEMMA EntriesAfter ==
  ASSUME Records, IsTree, [Next]_vars, stamp' = stamp
  PROVE  Entries(Existing)' = Entries(Existing)
<1>0. sc' = sc /\ stamp \in Nat /\ sc.scope \in Seq(Names) /\ Placed /\ Placed'
  BY Frames, PlacedStep, ScenarioTyped DEF Records
<1>1. Entries(Existing)' = {p \in Existing' : Parent(p) = sc.scope}
  BY <1>0 DEF Entries, Parent
<1>2. ASSUME NEW some, stamp' = Stamped(some), NEW p \in some PROVE Parent(p) # sc.scope /\ ~IsAt(p, sc.scope)
  BY <1>0, <1>2 DEF Stamped
<1>3. ASSUME NEW d \in Paths, NEW p \in Paths, IsAt(d, p), Parent(p) = sc.scope PROVE d = p \/ IsAt(d, sc.scope)
  BY <1>3, PathIsSeq, AboveIsAboveParent
<1>4. \A p \in Paths : p # Gone
  BY RootIsSeq
<1>5. ASSUME NEW p \in Existing PROVE p \in Paths /\ \E o \in Objects : at[o] = p
  BY <1>0, ExistingIsFinite DEF Existing
<1>6. ASSUME NEW p \in Existing' PROVE p \in Paths /\ \E o \in Objects : at'[o] = p
  <2>1. PICK o \in Objects : at'[o] # Gone /\ p = at'[o]
    BY <1>6 DEF Existing, There
  <2> QED BY <2>1, <1>0 DEF Placed
<1>7. \A o \in Objects : at'[o] \in Paths => at'[o] \in Existing'
  BY <1>4 DEF Existing, There
<1>8. \A o \in Objects : at[o] \in Paths => at[o] \in Existing
  BY <1>4 DEF Existing, There
<1>9. ASSUME NEW d \in Paths, at' = Without(d), stamp' = Stamped({d})
      PROVE  Entries(Existing)' = Entries(Existing)
  <2>1. \A o \in Objects : at'[o] = IF IsAt(d, at[o]) THEN Gone ELSE at[o]
    BY <1>9, AtAfter
  <2>2. \A p \in Paths : Parent(p) = sc.scope => ~IsAt(d, p)
    BY <1>2, <1>3, <1>9
  <2>3. ASSUME NEW p \in Existing, Parent(p) = sc.scope PROVE p \in Existing'
    BY <2>1, <2>2, <2>3, <1>5, <1>7
  <2>4. ASSUME NEW p \in Existing', Parent(p) = sc.scope PROVE p \in Existing
    BY <2>1, <1>4, <1>6, <1>8
  <2> QED BY <2>3, <2>4, <1>1 DEF Entries
<1>10. ASSUME DeleteOnDisk PROVE Entries(Existing)' = Entries(Existing)
  <2>1. op.from \in Paths /\ at' = Without(op.from)
    BY <1>10 DEF DeleteOnDisk, Records, OperationFits
  <2>2. CASE op.from \in Existing
    BY <1>9, <1>10, <2>1, <2>2 DEF DeleteOnDisk
  <2>3. CASE op.from \notin Existing
    <3>1. \A o \in Objects : at'[o] = at[o]
      BY <2>1, <2>3, AtAfter, NothingAtVacant DEF There
    <3> QED BY <1>0, <3>1 DEF Entries, Existing, There
  <2> QED BY <2>2, <2>3
<1>11. ASSUME NEW o \in Objects, External(o) PROVE Entries(Existing)' = Entries(Existing)
  <2>1. CASE There(o)
    BY <1>9, <1>11, <2>1 DEF External, There, Records, Placed
  <2>2. CASE ~There(o)
    <3>1. at' = [at EXCEPT ![o] = sc.at[o]] /\ stamp' = Stamped({sc.at[o]})
      BY <1>11, <2>2 DEF External
    <3>2. \A x \in Objects : at'[x] = IF x = o THEN sc.at[o] ELSE at[x]
      BY <3>1, <1>0 DEF Placed
    <3>3. Parent(sc.at[o]) # sc.scope
      BY <3>1, <1>2
    <3>4. ASSUME NEW p \in Existing, Parent(p) = sc.scope PROVE p \in Existing'
      BY <3>2, <2>2, <1>4, <1>5, <1>7 DEF There
    <3>5. ASSUME NEW p \in Existing', Parent(p) = sc.scope PROVE p \in Existing
      BY <3>2, <3>3, <3>5, <1>6, <1>8
    <3> QED BY <3>4, <3>5, <1>1 DEF Entries
  <2> QED BY <2>1, <2>2
<1>12. ASSUME MoveOnDisk, CanMove(op.from, op.to) PROVE Entries(Existing)' = Entries(Existing)
  <2> DEFINE from == op.from
             to == op.to
  <2>1. from \in Paths /\ to \in Paths /\ stamp' = Stamped({from, to})
    BY <1>12 DEF MoveOnDisk, Records, OperationFits
  <2>2. \A x \in Objects : at'[x] = MovedPath(at[x], from, to) /\ at[x] \in Seq(Names)
    BY <1>12, AtAfter
  <2> HIDE DEF from, to
  <2>3. \A p \in Paths : Parent(p) = sc.scope => ~IsAt(from, p) /\ ~IsAt(to, p)
    BY <2>1, <1>2, <1>3
  <2>4. ASSUME NEW p \in Existing, Parent(p) = sc.scope PROVE p \in Existing'
    BY <2>2, <2>3, <2>4, <1>5, <1>7 DEF MovedPath
  <2>5. ASSUME NEW p \in Existing', Parent(p) = sc.scope PROVE p \in Existing
    <3>1. PICK x \in Objects : at'[x] = p /\ p \in Paths
      BY <1>6
    <3>2. ~IsAt(to, p)
      BY <2>3, <2>5, <3>1
    <3>3. ~IsAt(from, at[x])
      <4>1. ASSUME IsAt(from, at[x]) PROVE IsAt(to, MovedPath(at[x], from, to))
        BY <2>1, <2>2, <4>1, PathIsSeq, MovedIs
      <4> QED BY <2>2, <3>1, <3>2, <4>1
    <3> QED BY <2>2, <3>1, <3>3, <1>8 DEF MovedPath
  <2> QED BY <2>4, <2>5, <1>1 DEF Entries
<1>13. CASE at' = at
  BY <1>0, <1>13 DEF Entries, Existing, There
<1>14. CASE DiskStep
  BY <1>10, <1>11, <1>12, <1>13, <1>14 DEF DiskStep, MoveOnDisk
<1> QED BY <1>13, <1>14, Frames

\* The signature stays or grows.
LEMMA StampStep ==
  ASSUME Records, [Next]_vars
  PROVE  stamp \in Nat /\ (stamp' = stamp \/ stamp' = stamp + 1)
<1>1. \A some : Stamped(some) = stamp \/ Stamped(some) = stamp + 1
  BY DEF Stamped
<1>2. ASSUME MoveOnDisk \/ DeleteOnDisk PROVE stamp' = stamp \/ stamp' = stamp + 1
  <2>1. stamp' = stamp \/ stamp' = Stamped({op.from, op.to}) \/ stamp' = Stamped({op.from})
    BY <1>2 DEF MoveOnDisk, DeleteOnDisk
  <2> QED BY <1>1, <2>1
<1>3. ASSUME NEW o \in Objects, External(o) PROVE stamp' = stamp \/ stamp' = stamp + 1
  BY <1>1, <1>3 DEF External
<1> QED BY <1>2, <1>3, Frames DEF Records, DiskStep

\* What a live page lists of the folder's own entries is what there is as
\* long as the signature it was read under is the present one.
LEMMA PagesFitStep ==
  ASSUME Records, IsTree, PagesFit, [Next]_vars
  PROVE  PagesFit'
<1>0. /\ sc' = sc /\ stamp \in Nat /\ stamp' \in Nat /\ (stamp' = stamp \/ stamp' = stamp + 1)
      /\ stamp' = stamp => Entries(Existing)' = Entries(Existing)
  BY Frames, StampStep, EntriesAfter
<1> DEFINE ReaderFits(r) ==
             /\ r.pc \in {"none", "read", "store"}
             /\ r.pc # "none" => r.stamp \in 0..stamp
             /\ r.pc = "store" /\ r.stamp = stamp => Entries(r.items) = Entries(Existing)
           CacheFits(c) ==
             /\ c.pc = "kept" => c.stamp \in 0..stamp
             /\ c.pc = "kept" /\ c.stamp = stamp => Entries(c.items) = Entries(Existing)
<1>1. ReaderFits(reader) /\ CacheFits(cache)
  BY DEF PagesFit
<1>2. \A S : Entries(S)' = Entries(S')
  BY <1>0 DEF Entries, Parent
<1>3. /\ NoPage.pc = "none" /\ NoPage' = NoPage
  BY DEF NoPage
<1>4. /\ reader'.pc \in {"none", "read", "store"}
      /\ reader'.pc # "none" => reader'.stamp \in 0..stamp'
      /\ reader'.pc = "store" /\ reader'.stamp = stamp' => Entries(reader'.items) = Entries(Existing)'
  <2>1. CASE ReadSignature
    <3>1. reader' = [pc |-> "read", stamp |-> stamp, items |-> {}] /\ stamp' = stamp
      BY <2>1 DEF ReadSignature, NoPage
    <3> QED BY <3>1, <1>0
  <2>2. CASE ReadItems
    <3> DEFINE all == {p \in Existing : IsAt(sc.scope, p)}
    <3>1. /\ reader' = [reader EXCEPT !.pc = "store", !.items = all] /\ stamp' = stamp /\ reader.pc = "read"
          /\ reader \in LivePage
      BY <2>2 DEF ReadItems, Records
    <3>2. Entries(all) = Entries(Existing)
      <4>1. \A p \in Existing : Parent(p) = sc.scope => IsAt(sc.scope, p)
        BY ParentIs, ExistingIsFinite DEF Records
      <4> QED BY <4>1 DEF Entries
    <3> HIDE DEF all
    <3>3. reader'.pc = "store" /\ reader'.stamp = reader.stamp /\ reader'.items = all
      BY <3>1 DEF LivePage
    <3> QED BY <3>1, <3>2, <3>3, <1>0, <1>1
  <2>3. CASE StorePage \/ Crash
    BY <2>3, <1>3 DEF StorePage, Crash
  <2>4. CASE reader' = reader
    BY <2>4, <1>0, <1>1
  <2> QED BY <2>1, <2>2, <2>3, <2>4, Frames
<1>5. /\ cache'.pc = "kept" => cache'.stamp \in 0..stamp'
      /\ cache'.pc = "kept" /\ cache'.stamp = stamp' => Entries(cache'.items) = Entries(Existing)'
  <2>1. CASE StorePage
    <3>1. /\ cache' = [pc |-> "kept", stamp |-> reader.stamp, items |-> reader.items] /\ reader.pc = "store"
          /\ stamp' = stamp
      BY <2>1 DEF StorePage, Signature
    <3> QED BY <3>1, <1>0, <1>1
  <2>2. CASE cache' = NoPage
    BY <2>2, <1>3
  <2>3. CASE cache' = cache
    BY <2>3, <1>0, <1>1
  <2> QED BY <2>1, <2>2, <2>3, Frames
<1>6. Entries(reader.items)' = Entries(reader'.items) /\ Entries(cache.items)' = Entries(cache'.items)
  BY <1>0 DEF Entries, Parent
<1> QED BY <1>0, <1>4, <1>5, <1>6 DEF PagesFit


-----------------------------------------------------------------------------
(* The index, while no file changes.                                       *)

\* What the tree determines stays with it.
LEMMA SameTree ==
  ASSUME at' = at, sc' = sc
  PROVE  /\ Existing' = Existing /\ Items(sc.scope)' = Items(sc.scope) /\ Wanted' = Wanted
         /\ \A p : Indexable(p)' = Indexable(p')
<1>1. Existing' = Existing
  BY DEF Existing, There
<1>2. \A p : Who(p)' = Who(p')
  BY DEF Who
<1>3. \A p : IsFile(p)' = IsFile(p')
  BY <1>2 DEF IsFile
<1>4. \A p : IsCard(p)' = IsCard(p')
  BY <1>1, <1>2, <1>3 DEF IsCard, IsAt
<1>5. \A p : Indexable(p)' = Indexable(p')
  BY <1>1, <1>3, <1>4 DEF Indexable, IsAt
<1>6. Items(sc.scope)' = Items(sc.scope)
  BY <1>1, <1>5 DEF Items, IsAt
<1>7. \A p, q : Before(p, q)' = Before(p', q')
  BY <1>3, ZenonT(60) DEF Before, Parent, Less
<1>8. ToScan(sc.scope, Root)' = ToScan(sc.scope, Root)
  BY <1>1 DEF ToScan, IsAt, Less, Root
<1>9. \A S, n : FirstOf(S, n)' = FirstOf(S', n')
  BY <1>7, ZenonT(60) DEF FirstOf
<1>10. \A p : Overtaken(sc.scope, p)' = Overtaken(sc.scope, p')
  <2>1. FirstOf(ToScan(sc.scope, Root), sc.batch - 1)' = FirstOf(ToScan(sc.scope, Root), sc.batch - 1)
    BY <1>8, <1>9
  <2> QED BY <1>7, <1>8, <2>1, ZenonT(60) DEF Overtaken, Less
<1>11. Wanted' = Wanted
  BY <1>6, <1>10 DEF Wanted
<1> QED BY <1>1, <1>5, <1>6, <1>11

\* Without moves and other programs the files rest.
LEMMA RestsStep ==
  ASSUME Records, ~Edited, Rests, [Next]_vars
  PROVE  Rests' /\ at' = at /\ sc' = sc
<1>1. sc' = sc /\ "move" \notin sc.events /\ "external" \notin sc.events /\ op \in Operation
  BY Frames DEF Edited, Records
<1>2. ~MoveOnDisk /\ ~DeleteOnDisk /\ ~MoveInDatabase /\ ~DeleteInDatabase
  BY DEF MoveOnDisk, DeleteOnDisk, MoveInDatabase, DeleteInDatabase, Rests
<1>3. ~Look /\ \A o \in Objects : ~External(o)
  BY <1>1 DEF Look, LookAtJobs, External
<1>4. at' = at
  BY <1>2, <1>3, Frames DEF DiskStep
<1>5. op' = op \/ Crash
  BY <1>2, <1>3, Frames DEF HandlerStep, ClearIndex
<1>6. op'.kind = "none"
  BY <1>1, <1>5 DEF Crash, Rests, Operation
<1> QED BY <1>1, <1>4, <1>6 DEF Rests

\* Items are paths of the scope that exist and are worth a row.
LEMMA WantedAre ==
  ASSUME Records
  PROVE  /\ \A p \in Items(sc.scope) : p \in Paths /\ p \in Existing /\ IsAt(sc.scope, p) /\ Indexable(p)
         /\ \A p \in Wanted : p \in Items(sc.scope) /\ ~Overtaken(sc.scope, p)
         /\ Wanted \subseteq Paths
BY ExistingIsFinite DEF Wanted, Items, Records

\* Nothing but the first batch of a reindex job, and a clear, takes an item
\* out of the index.
LEMMA ItemsStay ==
  ASSUME Records, Rests, ~Edited, IndexFits, [Next]_vars, NEW p \in Wanted, rows[p] = "fresh",
         ~(ReindexBegins /\ reindex.first), ~ClearIndex
  PROVE  rows'[p] = "fresh"
<1>1. p \in Paths /\ p \in Existing /\ Indexable(p) /\ p \in Items(sc.scope)
  BY WantedAre
<1>2. ASSUME NEW some PROVE Marked(some, "fresh")[p] = "fresh" /\ (p \notin some => Stale(some)[p] = "fresh")
  BY <1>1 DEF Marked, Stale
<1>3. CASE Walk
  BY <1>1, <1>2, <1>3 DEF Walk
<1>4. CASE Write
  BY <1>2, <1>4 DEF Write
<1>5. CASE Prune
  <2>1. ASSUME NEW S PROVE Stale(S \ Existing)[p] = "fresh"
    BY <1>1, <1>2
  <2> QED BY <1>5, <2>1 DEF Prune, Pruned
<1>6. CASE RefreshWrites
  <2>1. scan.records = {} => scan.root # p
    BY <1>1, <1>6 DEF RefreshWrites, Scanner, IndexFits, RefreshBatch
  <2> QED BY <1>2, <1>6, <2>1 DEF RefreshWrites
<1>7. CASE ReindexBegins
  BY <1>7 DEF ReindexBegins
<1>8. ~MoveInDatabase /\ ~DeleteInDatabase
  BY DEF MoveInDatabase, DeleteInDatabase, Rests
<1> QED BY <1>3, <1>4, <1>5, <1>6, <1>7, <1>8, Frames

\* A batch that is under way has just been read, has gone one step on, or is
\* as it was.
LEMMA BatchKept ==
  ASSUME Records, [Next]_vars, scan'.pc \in {"write", "cursor", "flags", "prune"}
  PROVE  \/ Walk \/ RefreshReads \/ Write \/ WriteCursor \/ WriteFlags \/ ClearIndex
         \/ scan' = scan /\ state' = state /\ clear'.since = clear.since /\ ~ReindexBegins /\ ~Prune
<1>0. scan \in Scan /\ NoScan.pc = "free" /\ clear \in Clear
  BY DEF Records, NoScan
<1>1. \A who, root : Lock(who, root) => scan'.pc = "walk"
  BY DEF Lock, NoScan
<1>2. ~(IndexerBegins \/ ReindexBegins \/ SyncBegins \/ RefreshBegins)
  BY <1>1 DEF IndexerBegins, ReindexBegins, SyncBegins, RefreshBegins
<1>3. ~(Prune \/ RefreshWrites \/ ScanFails \/ Crash)
  BY <1>0 DEF Prune, RefreshWrites, ScanFails, Crash
<1>4. ClearHistory => clear'.since = clear.since
  BY <1>0 DEF ClearHistory, Clear
<1>5. CASE scan' = scan /\ ~Write /\ ~WriteCursor /\ ~WriteFlags /\ ~ClearIndex
  <2>1. state' = state
    BY <1>2, <1>3, <1>5, Frames
  <2>2. clear'.since = clear.since
    BY <1>3, <1>4, <1>5, Frames
  <2> QED BY <1>2, <1>3, <1>5, <2>1, <2>2
<1> QED BY <1>2, <1>3, <1>5, Frames DEF ScanStep

\* What comes last of a full batch has as many before it as the batch has others.
LEMMA LastIsLate ==
  ASSUME Placed, NEW A, A \subseteq Existing, NEW S, S \subseteq A, NEW n \in Nat \ {0}, ~(Cardinality(S) < n)
  PROVE  S # {} /\ LastOf(S) \in S /\ LastOf(S) \notin FirstOf(A, n - 1)
<1> DEFINE last == LastOf(S)
           D == {q \in A : Before(q, last)}
<1>1. IsFiniteSet(S) /\ IsFiniteSet(D) /\ Cardinality(S) \in Nat /\ Cardinality(D) \in Nat
  <2>1. IsFiniteSet(Existing) /\ D \subseteq Existing /\ S \subseteq Existing
    BY ExistingIsFinite
  <2> HIDE DEF D
  <2> QED BY <2>1, FS_Subset, FS_CardinalityType
<1>2. S # {}
  BY <1>1, FS_EmptySet
<1>3. last \in S /\ \A q \in S \ {last} : Before(q, last)
  BY <1>2, LastOfIs
<1>4. S \ {last} \subseteq D
  BY <1>3
<1> HIDE DEF last
<1>5. Cardinality(S \ {last}) = Cardinality(S) - 1
  BY <1>1, <1>3, FS_RemoveElement
<1>6. Cardinality(S \ {last}) <= Cardinality(D)
  BY <1>1, <1>4, FS_Subset
<1>7. ~(Cardinality(D) < n - 1)
  BY <1>1, <1>5, <1>6, FS_CardinalityType
<1> QED BY <1>2, <1>3, <1>7 DEF FirstOf, last

\* What the walk of the indexer or of a reindex job reads has all items from
\* the cursor to where it ends.
LEMMA WalkReads ==
  ASSUME Records, Walk, scan.who \in {"indexer", "reindex"}, scan.root = sc.scope
  PROVE  /\ \A p \in Wanted : Less(state.cursor[sc.scope], p) /\ (scan'.end \/ ~Less(scan'.last, p)) => p \in scan'.records
         /\ scan'.end \/ scan'.last \in Paths
         /\ scan'.whole = (state.cursor[sc.scope] = Root)
<1> DEFINE cursor == state.cursor[sc.scope]
           all == ToScan(sc.scope, cursor)
           A == ToScan(sc.scope, Root)
           batch == FirstOf(all, sc.batch)
<1>1. /\ Placed /\ sc.batch \in Nat \ {0} /\ all \subseteq A /\ A \subseteq Existing /\ Existing \subseteq Paths
      /\ sc.batch \in Nat
  BY ScenarioTyped, ExistingIsFinite, RootFirst DEF Records, ToScan
<1>2. scan' = [scan EXCEPT !.pc = "write", !.records = {p \in batch : Indexable(p)},
                           !.last = IF batch = {} THEN cursor ELSE LastOf(batch),
                           !.end = (Cardinality(batch) < sc.batch), !.whole = (cursor = Root)]
  BY DEF Walk, Cursor, ReachedEnd
<1>3. \A p \in Wanted : Less(cursor, p) => p \in all /\ Indexable(p) /\ p \in Existing
  BY WantedAre DEF ToScan
<1> HIDE DEF cursor, all
<1>4. /\ batch \subseteq all
      /\ \A p \in batch, q \in all : Before(q, p) => q \in batch
      /\ Cardinality(batch) < sc.batch => batch = all
  BY <1>1, FirstOfIs
<1> HIDE DEF batch
<1>5. /\ scan'.records = {p \in batch : Indexable(p)} /\ scan'.end = (Cardinality(batch) < sc.batch)
      /\ scan'.last = IF batch = {} THEN cursor ELSE LastOf(batch)
      /\ scan'.whole = (cursor = Root)
  BY <1>2 DEF Records, Scan
<1>6. ASSUME ~scan'.end
      PROVE  scan'.last \in batch /\ scan'.last \in A \ FirstOf(A, sc.batch - 1)
  <2>1. batch \subseteq A /\ ~(Cardinality(batch) < sc.batch)
    BY <1>1, <1>4, <1>5, <1>6
  <2> HIDE DEF A
  <2>2. batch # {} /\ LastOf(batch) \in batch /\ LastOf(batch) \notin FirstOf(A, sc.batch - 1)
    BY <1>1, <2>1, LastIsLate
  <2> QED BY <2>1, <2>2, <1>5
<1>7. ASSUME NEW p \in Wanted, Less(cursor, p), scan'.end \/ ~Less(scan'.last, p) PROVE p \in scan'.records
  <2>1. CASE scan'.end
    BY <2>1, <1>3, <1>4, <1>5, <1>7
  <2>2. CASE ~scan'.end
    <3>1. SUFFICES ASSUME p \notin batch PROVE FALSE
      BY <1>3, <1>5, <1>7
    <3>2. /\ scan'.last \in batch /\ scan'.last \in A \ FirstOf(A, sc.batch - 1)
          /\ p \in all /\ p \in Existing /\ scan'.last \in Existing
      BY <2>2, <1>1, <1>3, <1>6, <1>7
    <3>3. Before(scan'.last, p)
      BY <3>1, <3>2, <1>1, <1>4, BeforeOrders
    <3>4. ~Overtaken(sc.scope, p)
      BY WantedAre
    <3> QED BY <2>2, <3>2, <3>3, <3>4, <1>7 DEF Overtaken
  <2> QED BY <2>1, <2>2
<1>8. scan'.end \/ scan'.last \in Paths
  BY <1>1, <1>4, <1>6
<1> QED BY <1>5, <1>7, <1>8 DEF cursor

\* A sync that has reached the end has read every item of its scope.
LEMMA SyncReads ==
  ASSUME Records, Walk, scan.who = "sync", scan'.end
  PROVE  Wanted \subseteq scan'.records
<1> DEFINE all == ToScan(sc.scope, Root)
           batch == FirstOf(all, sc.budget)
<1>1. scan.root = sc.scope /\ scan \in Scan
  BY DEF Records, HolderFits
<1>2. scan' = [scan EXCEPT !.pc = "write", !.records = {p \in batch : Indexable(p)},
                           !.last = IF batch = {} THEN Root ELSE LastOf(batch), !.end = (batch = all),
                           !.whole = (Root = Root)]
  BY <1>1 DEF Walk, Cursor, ReachedEnd
<1>3. Wanted \subseteq {p \in all : Indexable(p)}
  BY WantedAre, RootFirst DEF ToScan
<1> HIDE DEF all, batch
<1>4. scan'.records = {p \in batch : Indexable(p)} /\ scan'.end = (batch = all)
  BY <1>1, <1>2 DEF Scan
<1> QED BY <1>3, <1>4

\* The claims of the index hold at the start and through every step.
LEMMA IndexInit == ASSUME Init PROVE Rests /\ IndexFits
<1>1. state.cursor[sc.scope] = Root /\ state.scanned = FALSE /\ state.complete = FALSE /\ scan = NoScan
      /\ reindex.status = "none" /\ op.kind = "none" /\ at = sc.at
  BY DEF Init
<1>2. NoScan.who = "none" /\ NoScan.pc = "free"
  BY DEF NoScan
<1> QED BY <1>1, <1>2 DEF Rests, IndexFits, Behind, Batch, Scanning, SyncBatch, RefreshBatch, JobBatch, Scanned

\* What the step of a scan, and of a clear, does to the state, step by step.
LEMMA BeginsIs ==
  ASSUME Records, ReindexBegins
  PROVE  /\ scan.who = "none" /\ scan'.who = "reindex" /\ scan'.pc = "walk" /\ reindex' = reindex
         /\ reindex.status = "running" /\ clear' = clear
         /\ reindex.first => state'.cursor[sc.scope] = Root /\ (sc.scope = Root => ~state'.scanned)
         /\ ~reindex.first => state'.cursor = state.cursor /\ state'.scanned = state.scanned
         /\ state'.complete = state.complete
<1>0. state \in ScanStates
  BY DEF Records
<1>1. /\ scan.who = "none" /\ scan' = [NoScan EXCEPT !.who = "reindex", !.pc = "walk", !.root = sc.scope]
      /\ reindex' = reindex /\ reindex.status = "running" /\ clear' = clear
  BY DEF ReindexBegins, Lock
<1> DEFINE s == IF reindex.first THEN [state.cursor EXCEPT ![sc.scope] = Root] ELSE state.cursor
           scanned == state.scanned /\ ~(reindex.first /\ sc.scope = Root)
<1>2. state' = [state EXCEPT !.indexing = TRUE, !.cursor = s, !.scanned = scanned]
  BY DEF ReindexBegins
<1>3. reindex.first => s[sc.scope] = Root /\ (sc.scope = Root => ~scanned)
  BY <1>0 DEF ScanStates, Cursors
<1>4. ~reindex.first => s = state.cursor /\ scanned = state.scanned
  BY <1>0 DEF ScanStates
<1> HIDE DEF s, scanned
<1>5. state'.cursor = s /\ state'.scanned = scanned /\ state'.complete = state.complete
  BY <1>0, <1>2 DEF ScanStates
<1> QED BY <1>1, <1>3, <1>4, <1>5 DEF NoScan

\* The cursor is set to where the batch ended.
LEMMA CursorIs ==
  ASSUME Records, WriteCursor
  PROVE  /\ scan.pc = "cursor" /\ scan.who \in {"indexer", "reindex"} /\ scan.root \in {Root, sc.scope}
         /\ scan' = [scan EXCEPT !.pc = "flags"] /\ rows' = rows /\ reindex' = reindex
         /\ state'.scanned = state.scanned
         /\ clear'.since = (clear.since /\ ~(scan.whole /\ scan.root = sc.scope))
         /\ scan.root = sc.scope => state'.cursor[sc.scope] = IF scan.end THEN Root ELSE scan.last
         /\ scan.root # sc.scope => state'.cursor[sc.scope] = state.cursor[sc.scope]
         /\ state'.complete = IF scan.root = Root THEN state.complete ELSE scan.end
<1>0. state \in ScanStates /\ clear \in Clear /\ scan \in Scan
  BY DEF Records
<1>1. scan.pc = "cursor" /\ scan.who \in {"indexer", "reindex"} /\ scan.root \in {Root, sc.scope}
  BY DEF WriteCursor, Records, HolderFits
<1>2. scan' = [scan EXCEPT !.pc = "flags"] /\ rows' = rows /\ reindex' = reindex
  BY DEF WriteCursor, Goto
<1>3. clear'.since = (clear.since /\ ~(scan.whole /\ scan.root = sc.scope))
  BY <1>0, <1>1 DEF WriteCursor, Vouched, Clear
<1>4. /\ state'.scanned = state.scanned /\ state'.cursor = [state.cursor EXCEPT ![scan.root] = NextCursor]
      /\ state'.complete = IF scan.root = Root THEN state.complete ELSE scan.end
  BY <1>0 DEF WriteCursor, ScanStates
<1>5. state'.cursor[sc.scope] = IF scan.root = sc.scope THEN NextCursor ELSE state.cursor[sc.scope]
  BY <1>0, <1>1, <1>4 DEF ScanStates, Cursors
<1> QED BY <1>1, <1>2, <1>3, <1>4, <1>5 DEF NextCursor

\* The flags: the library counts as scanned, and a job that reached the end is done.
LEMMA FlagsIs ==
  ASSUME Records, WriteFlags
  PROVE  /\ scan.pc = "flags" /\ scan.who \in {"indexer", "reindex"} /\ rows' = rows /\ clear' = clear
         /\ state'.cursor = state.cursor /\ state'.complete = state.complete
         /\ scan.who = "indexer" => reindex' = reindex /\ scan'.who = "indexer" /\ scan'.pc = "prune"
         /\ scan.who = "reindex" => /\ reindex'.status = IF scan.end THEN "done" ELSE reindex.status
                                    /\ reindex'.cleared = reindex.cleared
                                    /\ scan' = NoScan
<1>1. state \in ScanStates /\ reindex \in Reindex /\ scan \in Scan /\ HolderFits
  BY DEF Records
<1> QED BY <1>1 DEF WriteFlags, HolderFits, ScanStates, Reindex, Goto, Scan

\* A prune ends the scan; of a sync it says whether the scope is complete.
LEMMA PruneIs ==
  ASSUME Records, Prune
  PROVE  /\ scan.pc = "prune" /\ scan' = NoScan /\ reindex' = reindex /\ scan.who \in {"indexer", "sync"}
         /\ state'.cursor = state.cursor /\ state'.scanned = state.scanned
         /\ scan.who = "indexer" => state' = state /\ clear' = clear
         /\ scan.who = "sync" => /\ state'.complete = IF scan.root = Root THEN state.complete ELSE scan.end
                                 /\ clear'.since = (clear.since /\ ~(scan.whole /\ scan.end))
<1>1. state \in ScanStates /\ clear \in Clear /\ scan \in Scan /\ HolderFits
  BY DEF Records
<1>2. scan.pc = "prune" /\ scan.who \in {"indexer", "sync"}
  BY <1>1 DEF Prune, HolderFits
<1>3. scan.who = "sync" => scan.root = sc.scope
  BY <1>1 DEF HolderFits
<1>4. scan.who = "sync" => clear'.since = (clear.since /\ ~(scan.whole /\ scan.end))
  BY <1>1, <1>2, <1>3 DEF Prune, Vouched, Clear
<1> QED BY <1>1, <1>2, <1>4 DEF Prune, ScanStates

\* A clear leaves nothing, and says so.
LEMMA ClearIs ==
  ASSUME Records, ClearIndex
  PROVE  /\ clear'.since /\ state'.cursor[sc.scope] = Root /\ reindex'.cleared /\ reindex'.status = reindex.status
         /\ scan'.who = scan.who /\ scan'.pc = scan.pc /\ scan'.root = scan.root /\ scan'.end = scan.end
         /\ scan'.last = scan.last /\ scan'.records = scan.records /\ ~scan'.whole
<1>1. reindex \in Reindex /\ scan \in Scan
  BY DEF Records
<1> QED BY <1>1 DEF ClearIndex, Reindex, Scan

\* All other steps leave the cursors, the flags and the history of clearing.
LEMMA OthersLeave ==
  ASSUME Records, [Next]_vars, ~ReindexBegins, ~WriteCursor, ~WriteFlags, ~Prune, ~ClearIndex
  PROVE  /\ state'.cursor = state.cursor /\ state'.scanned = state.scanned /\ state'.complete = state.complete
         /\ clear'.since = clear.since
<1>1. state \in ScanStates /\ clear \in Clear
  BY DEF Records
<1>2. ASSUME ClearHistory \/ Crash PROVE clear'.since = clear.since
  BY <1>1, <1>2 DEF ClearHistory, Crash, Clear
<1>3. CASE IndexerBegins \/ ScanFails
  BY <1>1, <1>3 DEF IndexerBegins, ScanFails, Indexing, ScanStates
<1>4. CASE ~IndexerBegins /\ ~ScanFails
  BY <1>2, <1>4, Frames
<1> QED BY <1>3, <1>4

\* Who holds the lock keeps it until its scan is over.
LEMMA WhoStays ==
  ASSUME Records, [Next]_vars
  PROVE  /\ scan'.who = "reindex" => ReindexBegins \/ scan.who = "reindex"
         /\ scan.who = "reindex" => scan'.who = "reindex" \/ WriteFlags \/ ScanFails \/ Crash
         /\ scan'.who = "reindex" /\ scan'.pc = "walk" => ReindexBegins \/ ClearIndex \/ scan' = scan
<1>0. scan \in Scan /\ NoScan.who = "none"
  BY DEF Records, NoScan
<1>1. \A who, root : Lock(who, root) => scan.who = "none" /\ scan'.who = who
  BY DEF Lock, NoScan
<1>2. CASE IndexerBegins \/ SyncBegins \/ RefreshBegins
  <2>1. scan.who = "none" /\ scan'.who \in {"indexer", "sync", "refresh"}
    BY <1>1, <1>2 DEF IndexerBegins, SyncBegins, RefreshBegins
  <2> QED BY <2>1
<1>3. CASE ReindexBegins
  BY <1>3, BeginsIs
<1>4. CASE Walk \/ RefreshReads
  <2>1. scan'.who = scan.who /\ scan'.pc = "write"
    BY <1>0, <1>4 DEF Walk, RefreshReads, Scan
  <2> QED BY <2>1
<1>5. CASE Write
  <2>1. scan'.who = scan.who /\ scan'.pc \in {"prune", "cursor"}
    BY <1>0, <1>5 DEF Write, Goto, Scan
  <2> QED BY <2>1
<1>6. CASE WriteCursor
  <2>1. scan'.who = scan.who /\ scan'.pc = "flags"
    BY <1>0, <1>6, CursorIs DEF Scan
  <2> QED BY <2>1
<1>7. CASE WriteFlags \/ ScanFails \/ Crash
  <2>1. scan' = NoScan \/ (WriteFlags /\ scan'.pc = "prune" /\ scan'.who = scan.who)
    BY <1>0, <1>7, FlagsIs DEF ScanFails, Crash
  <2> QED BY <1>0, <1>7, <2>1
<1>8. CASE Prune \/ RefreshWrites
  <2>1. scan' = NoScan /\ scan.who # "reindex"
    BY <1>8, PruneIs DEF RefreshWrites, Scanner
  <2> QED BY <1>0, <2>1
<1>9. CASE ClearIndex
  BY <1>9, ClearIs
<1>10. CASE scan' = scan
  BY <1>10
<1> QED BY <1>2, <1>3, <1>4, <1>5, <1>6, <1>7, <1>8, <1>9, <1>10, Frames DEF ScanStep

\* How a reindex job comes to run and to be done.
LEMMA JobChanges ==
  ASSUME Records, JobBatch, [Next]_vars
  PROVE  /\ reindex'.status \in {"running", "done"} =>
              \/ reindex' = reindex \/ ClearIndex \/ (WriteFlags /\ scan.who = "reindex")
              \/ StartReindex /\ reindex'.status = "running" /\ reindex'.first /\ scan.who # "reindex"
         /\ scan'.who = "reindex" => reindex'.status = "running"
<1>0. reindex \in Reindex /\ scan \in Scan /\ NoScan.who = "none"
  BY DEF Records, NoScan
<1>1. \A s : [reindex EXCEPT !.status = s].status = s
  BY <1>0 DEF Reindex
<1>2. CASE WriteFlags
  <2>1. scan.who \in {"indexer", "reindex"} /\ (scan.who = "indexer" => reindex' = reindex)
    BY <1>2, FlagsIs
  <2>2. scan'.who # "reindex"
    BY <1>0, <1>2, FlagsIs
  <2> QED BY <1>2, <2>1, <2>2
<1>3. CASE ScanFails \/ Crash
  <2>1. scan' = NoScan /\ (reindex' = reindex \/ reindex' = [reindex EXCEPT !.status = "failed"]
                            \/ reindex' = [reindex EXCEPT !.status = "queued"])
    <3>1. [reindex EXCEPT !.status = reindex.status] = reindex
      BY <1>0 DEF Reindex
    <3> QED BY <1>3, <3>1 DEF ScanFails, Crash
  <2> QED BY <1>0, <1>1, <2>1
<1>4. CASE RequestReindex \/ StopReindex \/ ResumeReindex
  <2>1. scan' = scan
    BY <1>4 DEF RequestReindex, StopReindex, ResumeReindex
  <2>2. scan.who # "reindex"
    BY <1>4 DEF RequestReindex, StopReindex, ResumeReindex, JobBatch
  <2>3. CASE RequestReindex
    BY <2>1, <2>2, <2>3 DEF RequestReindex
  <2>4. CASE StopReindex
    <3>1. reindex' = [reindex EXCEPT !.status = "paused"]
      BY <2>4 DEF StopReindex
    <3> QED BY <1>0, <2>1, <2>2, <3>1 DEF Reindex
  <2>5. CASE ResumeReindex
    <3>1. reindex' = [reindex EXCEPT !.status = "queued"]
      BY <2>5 DEF ResumeReindex
    <3> QED BY <1>0, <2>1, <2>2, <3>1 DEF Reindex
  <2> QED BY <1>4, <2>3, <2>4, <2>5
<1>5. CASE StartReindex
  <2>1. scan' = scan /\ reindex'.status = "running" /\ reindex'.first /\ reindex.status = "queued"
    BY <1>5 DEF StartReindex
  <2> QED BY <1>5, <2>1 DEF JobBatch
<1>6. CASE ClearHistory
  <2>1. scan' = scan /\ (reindex' = reindex \/ (reindex' = [reindex EXCEPT !.status = "none"] /\ reindex.status # "running"))
    BY <1>6 DEF ClearHistory
  <2> QED BY <1>1, <2>1 DEF JobBatch
<1>7. CASE ClearIndex
  BY <1>7, ClearIs DEF JobBatch
<1>8. CASE reindex' = reindex
  <2>1. ReindexBegins => reindex.status = "running"
    BY BeginsIs
  <2> QED BY <1>8, <2>1, WhoStays DEF JobBatch
<1> QED BY <1>2, <1>3, <1>4, <1>5, <1>6, <1>7, <1>8, Frames

\* The premises of a step while no file changes.
Resting == Records /\ Rests /\ ~Edited /\ IndexFits /\ [Next]_vars

\* What no step but a clear and the first batch of a job changes.
LEMMA ItemsFixed ==
  ASSUME Resting
  PROVE  /\ at' = at /\ sc' = sc /\ Wanted' = Wanted /\ Items(sc.scope)' = Items(sc.scope)
         /\ AllFresh' <=> \A p \in Wanted : rows'[p] = "fresh"
         /\ ~ClearIndex /\ ~(ReindexBegins /\ reindex.first) =>
              /\ \A p \in Wanted : rows[p] = "fresh" => rows'[p] = "fresh"
              /\ AllFresh => AllFresh'
<1>1. at' = at /\ sc' = sc /\ Wanted' = Wanted /\ Items(sc.scope)' = Items(sc.scope)
  BY RestsStep, SameTree DEF Resting
<1>2. AllFresh' <=> \A p \in Wanted : rows'[p] = "fresh"
  BY <1>1 DEF AllFresh
<1>3. ASSUME ~ClearIndex, ~(ReindexBegins /\ reindex.first), NEW p \in Wanted, rows[p] = "fresh" PROVE rows'[p] = "fresh"
  BY <1>3, ItemsStay DEF Resting
<1> QED BY <1>1, <1>2, <1>3 DEF AllFresh

\* The cursor leaves behind only what is in the index.
LEMMA BehindStep == ASSUME Resting PROVE Behind'
<1>0. sc' = sc /\ Wanted' = Wanted
  BY ItemsFixed
<1> SUFFICES ASSUME ~clear'.since, state'.cursor[sc.scope] # Root, NEW p \in Wanted
             PROVE  Less(state'.cursor[sc.scope], p) \/ rows'[p] = "fresh"
  BY <1>0 DEF Behind, Less
<1>1. ASSUME ~ClearIndex, ~(ReindexBegins /\ reindex.first), rows[p] = "fresh" PROVE rows'[p] = "fresh"
  BY <1>1, ItemsFixed
<1>2. ASSUME ~clear.since, state'.cursor = state.cursor, ~ClearIndex, ~(ReindexBegins /\ reindex.first)
      PROVE  Less(state'.cursor[sc.scope], p) \/ rows'[p] = "fresh"
  BY <1>1, <1>2 DEF Resting, IndexFits, Behind
<1>3. CASE ReindexBegins
  <2>1. ~reindex.first /\ state'.cursor = state.cursor /\ ~clear.since /\ ~ClearIndex
    <3>1. ~ClearIndex
      BY <1>3, BeginsIs, ClearIs DEF Resting
    <3> QED BY <1>3, <3>1, BeginsIs DEF Resting
  <2> QED BY <2>1, <1>2
<1>4. CASE WriteCursor
  <2>1. CASE scan.root = sc.scope
    <3>1. /\ Scanning("cursor") /\ (scan.whole \/ ~clear.since) /\ rows' = rows
          /\ state'.cursor[sc.scope] = scan.last
      BY <1>4, <2>1, CursorIs DEF Resting, Scanning
    <3> QED BY <3>1 DEF Resting, IndexFits, Batch, UpTo
  <2>2. CASE scan.root # sc.scope
    <3>1. ~clear.since /\ rows' = rows /\ state'.cursor[sc.scope] = state.cursor[sc.scope]
      BY <1>4, <2>2, CursorIs DEF Resting
    <3> QED BY <3>1 DEF Resting, IndexFits, Behind
  <2> QED BY <2>1, <2>2
<1>5. CASE WriteFlags
  <2>1. ~clear.since /\ rows' = rows /\ state'.cursor = state.cursor
    BY <1>5, FlagsIs DEF Resting
  <2> QED BY <2>1 DEF Resting, IndexFits, Behind
<1>6. CASE Prune
  <2>1. /\ state'.cursor = state.cursor /\ scan.pc = "prune" /\ ~ClearIndex /\ ~ReindexBegins
        /\ ~clear.since \/ (scan.who = "sync" /\ scan.whole /\ scan.end)
    BY <1>6, PruneIs, ClearIs, BeginsIs DEF Resting
  <2>2. CASE ~clear.since
    BY <2>1, <2>2, <1>2
  <2>3. CASE scan.who = "sync" /\ scan.whole /\ scan.end
    <3>1. rows[p] = "fresh"
      BY <2>1, <2>3 DEF Resting, IndexFits, SyncBatch, AllFresh
    <3> QED BY <2>1, <3>1, <1>1
  <2> QED BY <2>1, <2>2, <2>3
<1>7. ~ClearIndex
  BY ClearIs DEF Resting
<1>8. CASE ~ReindexBegins /\ ~WriteCursor /\ ~WriteFlags /\ ~Prune
  <2>1. state'.cursor = state.cursor /\ ~clear.since
    BY <1>7, <1>8, OthersLeave DEF Resting
  <2> QED BY <2>1, <1>2, <1>7, <1>8
<1> QED BY <1>3, <1>4, <1>5, <1>6, <1>8

\* What a write leaves: all items up to where the batch ends are in the index.
LEMMA WriteCovers ==
  ASSUME Resting, Write, Scanning("write"), scan.whole \/ ~clear.since, NEW p \in Wanted, UpTo(p)
  PROVE  rows'[p] = "fresh"
<1>1. p \in Paths /\ rows' = Marked(scan.records, "fresh")
  BY WantedAre DEF Resting, Write
<1>2. CASE scan.whole \/ Less(state.cursor[sc.scope], p)
  <2>1. p \in scan.records
    BY <1>2 DEF Resting, IndexFits, Batch
  <2> QED BY <1>1, <2>1 DEF Marked
<1>3. CASE ~scan.whole /\ ~Less(state.cursor[sc.scope], p)
  <2>1. state.cursor[sc.scope] # Root
    BY <1>1, <1>3, RootFirst
  <2>2. rows[p] = "fresh"
    BY <1>3, <2>1 DEF Resting, IndexFits, Behind
  <2> QED BY <1>1, <2>2 DEF Marked
<1> QED BY <1>2, <1>3

\* A batch keeps what it has, step by step.
LEMMA BatchStep == ASSUME Resting PROVE Batch'
<1>0. /\ sc' = sc /\ Wanted' = Wanted /\ scan \in Scan /\ Records /\ [Next]_vars
      /\ \A pc : Scanning(pc)' <=> scan'.pc = pc /\ scan'.who \in {"indexer", "reindex"} /\ scan'.root = sc.scope
  BY ItemsFixed DEF Resting, Records, Scanning
<1>1. ASSUME Walk
      PROVE  /\ scan'.pc = "write" /\ scan'.who = scan.who /\ scan'.root = scan.root /\ state' = state /\ clear' = clear
  BY <1>0, <1>1 DEF Walk, Scan
<1>2. ASSUME Write
      PROVE  /\ scan' = [scan EXCEPT !.pc = scan'.pc] /\ scan'.pc \in {"prune", "cursor"} /\ clear' = clear
             /\ scan.pc = "write"
  BY <1>0, <1>2 DEF Write, Goto, Scan
<1>3. ASSUME RefreshReads PROVE scan'.who = "refresh"
  BY <1>0, <1>3 DEF RefreshReads, Scanner, Scan
<1>4. ASSUME WriteFlags PROVE ~(scan'.pc \in {"write", "cursor", "flags"})
  BY <1>0, <1>4, FlagsIs DEF NoScan
<1>5. ASSUME NEW p \in Wanted, Scanning("write")', scan'.whole \/ (~clear'.since /\ Less(state'.cursor[sc.scope], p)),
             scan'.end \/ ~Less(scan'.last, p)
      PROVE  p \in scan'.records
  <2>1. CASE Walk
    <3>1. scan.who \in {"indexer", "reindex"} /\ scan.root = sc.scope
      BY <2>1, <1>0, <1>1, <1>5
    <3>2. Less(state.cursor[sc.scope], p)
      <4>1. CASE scan'.whole
        <5>1. state.cursor[sc.scope] = Root
          BY <4>1, <2>1, <3>1, <1>0, WalkReads
        <5> QED BY <5>1, <1>0, WantedAre, RootFirst
      <4>2. CASE ~scan'.whole
        BY <4>2, <2>1, <1>1, <1>5
      <4> QED BY <4>1, <4>2
    <3> QED BY <2>1, <3>1, <3>2, <1>0, <1>5, WalkReads
  <2>2. CASE WriteCursor
    BY <2>2, <1>0, <1>5, CursorIs DEF Scan
  <2>3. CASE ClearIndex
    BY <2>3, <1>0, <1>5, ClearIs
  <2>4. CASE scan' = scan /\ state' = state /\ clear'.since = clear.since
    BY <2>4, <1>0, <1>5 DEF Resting, IndexFits, Batch, UpTo, Scanning
  <2> QED BY <2>1, <2>2, <2>3, <2>4, <1>0, <1>2, <1>3, <1>4, <1>5, BatchKept
<1>6. ASSUME NEW p \in Wanted, Scanning("cursor")', scan'.whole \/ ~clear'.since, scan'.end \/ ~Less(scan'.last, p)
      PROVE  rows'[p] = "fresh"
  <2>1. CASE Write
    <3>1. /\ Scanning("write") /\ UpTo(p) /\ (scan.whole \/ ~clear.since)
      BY <2>1, <1>0, <1>2, <1>6 DEF Scanning, UpTo, Scan
    <3> QED BY <2>1, <3>1, WriteCovers
  <2>2. CASE WriteCursor
    BY <2>2, <1>0, <1>6, CursorIs DEF Scan
  <2>3. CASE ClearIndex
    BY <2>3, <1>0, <1>6, ClearIs
  <2>4. CASE scan' = scan /\ state' = state /\ clear'.since = clear.since /\ ~ReindexBegins
    <3>1. rows[p] = "fresh"
      BY <2>4, <1>0, <1>6 DEF Resting, IndexFits, Batch, UpTo, Scanning
    <3> QED BY <2>3, <2>4, <3>1, ItemsFixed
  <2> QED BY <2>1, <2>2, <2>3, <2>4, <1>0, <1>1, <1>3, <1>4, <1>6, BatchKept
<1>7. ASSUME Scanning("write")' \/ Scanning("cursor")' PROVE scan'.end \/ scan'.last \in Paths
  <2>1. CASE Walk
    <3>1. scan.who \in {"indexer", "reindex"} /\ scan.root = sc.scope
      BY <2>1, <1>0, <1>1, <1>7
    <3> QED BY <2>1, <3>1, <1>0, WalkReads
  <2>2. CASE Write
    <3>1. Scanning("write") /\ scan'.end = scan.end /\ scan'.last = scan.last
      BY <2>2, <1>0, <1>2, <1>7 DEF Scanning, Scan
    <3> QED BY <3>1 DEF Resting, IndexFits, Batch
  <2>3. CASE WriteCursor
    BY <2>3, <1>0, <1>7, CursorIs DEF Scan
  <2>4. CASE ClearIndex
    <3>1. (Scanning("write") \/ Scanning("cursor")) /\ scan'.end = scan.end /\ scan'.last = scan.last
      BY <2>4, <1>0, <1>7, ClearIs DEF Scanning
    <3> QED BY <3>1 DEF Resting, IndexFits, Batch
  <2>5. CASE scan' = scan
    BY <2>5, <1>0, <1>7 DEF Resting, IndexFits, Batch, Scanning
  <2> QED BY <2>1, <2>2, <2>3, <2>4, <2>5, <1>0, <1>3, <1>4, <1>7, BatchKept
<1>8. ASSUME Scanning("flags")', ~clear'.since,
             scan'.end \/ state'.cursor[sc.scope] = Root \/ (sc.scope # Root /\ state'.complete)
      PROVE  AllFresh'
  <2>1. CASE WriteCursor
    <3>1. Scanning("cursor") /\ (scan.whole \/ ~clear.since) /\ scan'.end = scan.end /\ rows' = rows
      BY <2>1, <1>0, <1>8, CursorIs DEF Scanning, Scan
    <3>2. scan.end
      <4>1. scan.end \/ scan.last \in Paths
        BY <3>1 DEF Resting, IndexFits, Batch
      <4>2. scan.last = Root => scan.end
        BY <4>1, PathIsSeq
      <4> QED BY <2>1, <3>1, <4>2, <1>0, <1>8, CursorIs DEF Scanning
    <3>3. AllFresh
      BY <3>1, <3>2 DEF Resting, IndexFits, Batch, UpTo, AllFresh
    <3> QED BY <3>1, <3>3, ItemsFixed DEF AllFresh
  <2>2. CASE ClearIndex
    BY <2>2, <1>0, <1>8, ClearIs
  <2>3. CASE scan' = scan /\ state' = state /\ clear'.since = clear.since /\ ~ReindexBegins
    <3>1. AllFresh
      BY <2>3, <1>0, <1>8 DEF Resting, IndexFits, Batch, Scanning
    <3> QED BY <2>2, <2>3, <3>1, ItemsFixed
  <2> QED BY <2>1, <2>2, <2>3, <1>0, <1>1, <1>2, <1>3, <1>4, <1>8, BatchKept
<1>9. /\ \A p : UpTo(p)' <=> scan'.end \/ ~Less(scan'.last, p')
      /\ \A p : Less(state.cursor[sc.scope], p)' <=> Less(state'.cursor[sc.scope], p')
  BY <1>0 DEF UpTo, Less
<1> QED BY <1>0, <1>5, <1>6, <1>7, <1>8, <1>9 DEF Batch

\* So does that of a sync.
LEMMA SyncBatchStep == ASSUME Resting PROVE SyncBatch'
<1>0. sc' = sc /\ Wanted' = Wanted /\ scan \in Scan /\ Records /\ [Next]_vars
  BY ItemsFixed DEF Resting, Records
<1> SUFFICES ASSUME scan'.who = "sync", scan'.end
             PROVE  /\ scan'.pc = "write" => Wanted \subseteq scan'.records
                    /\ scan'.pc = "prune" /\ (scan'.whole \/ ~clear'.since) => AllFresh'
  BY <1>0 DEF SyncBatch
<1>1. CASE Walk
  <2>1. scan'.who = scan.who /\ scan'.pc = "write"
    BY <1>0, <1>1 DEF Walk, Scan
  <2> QED BY <1>0, <1>1, <2>1, SyncReads
<1>2. CASE RefreshReads
  BY <1>0, <1>2 DEF RefreshReads, Scanner, Scan
<1>3. CASE Write
  <2>1. scan.who = "sync" /\ scan.end /\ scan.pc = "write" /\ scan'.pc = "prune" /\ rows' = Marked(scan.records, "fresh")
    BY <1>0, <1>3 DEF Write, Goto, Scan
  <2>2. Wanted \subseteq scan.records /\ Wanted \subseteq Paths
    BY <2>1, <1>0, WantedAre DEF Resting, IndexFits, SyncBatch
  <2> QED BY <2>1, <2>2, ItemsFixed DEF Marked
<1>4. CASE WriteCursor \/ WriteFlags
  <2>1. scan.who \in {"indexer", "reindex"} /\ NoScan.who = "none"
    BY <1>0, <1>4, CursorIs, FlagsIs DEF NoScan
  <2> QED BY <1>0, <1>4, <2>1, CursorIs, FlagsIs DEF Scan
<1>5. CASE ClearIndex
  BY <1>0, <1>5, ClearIs DEF Resting, IndexFits, SyncBatch
<1>6. CASE scan' = scan /\ clear'.since = clear.since /\ ~ReindexBegins /\ ~ClearIndex
  BY <1>6, ItemsFixed DEF Resting, IndexFits, SyncBatch
<1>7. CASE ~(scan'.pc \in {"write", "prune"})
  BY <1>7
<1> QED BY <1>0, <1>1, <1>2, <1>3, <1>4, <1>5, <1>6, <1>7, BatchKept

\* A refresh that found nothing to index is not about an item.
LEMMA RefreshBatchStep == ASSUME Resting PROVE RefreshBatch'
<1>0. sc' = sc /\ Items(sc.scope)' = Items(sc.scope) /\ scan \in Scan /\ Records /\ [Next]_vars
  BY ItemsFixed DEF Resting, Records
<1> SUFFICES ASSUME scan'.who = "refresh", scan'.pc = "write", scan'.records = {} PROVE scan'.root \notin Items(sc.scope)
  BY <1>0 DEF RefreshBatch
<1>1. CASE Walk
  BY <1>0, <1>1 DEF Walk, Scan
<1>2. CASE RefreshReads
  <2>1. scan'.root = scan.root /\ scan'.records = Refreshed(scan.root)
    BY <1>0, <1>2 DEF RefreshReads, Scan
  <2>2. scan.root \in Items(sc.scope) => Refreshed(scan.root) = {scan.root}
    BY <1>0, WantedAre DEF Refreshed
  <2> QED BY <2>1, <2>2
<1>3. CASE Write
  BY <1>0, <1>3 DEF Write, Goto, Scan
<1>4. CASE WriteCursor \/ WriteFlags
  BY <1>0, <1>4, CursorIs, FlagsIs DEF NoScan, Scan
<1>5. CASE ClearIndex
  BY <1>0, <1>5, ClearIs DEF Resting, IndexFits, RefreshBatch
<1>6. CASE scan' = scan
  BY <1>6 DEF Resting, IndexFits, RefreshBatch
<1> QED BY <1>0, <1>1, <1>2, <1>3, <1>4, <1>5, <1>6, BatchKept

\* A job whose index was not cleared has started from the root.
LEMMA JobBatchStep == ASSUME Resting PROVE JobBatch'
<1>0. /\ sc' = sc /\ scan \in Scan /\ reindex \in Reindex /\ HolderFits /\ Records /\ [Next]_vars /\ JobBatch
      /\ NoScan.who = "none"
  BY ItemsFixed DEF Resting, Records, IndexFits, NoScan
<1>1. scan'.who = "reindex" => reindex'.status = "running"
  BY <1>0, JobChanges
<1> SUFFICES ASSUME reindex'.status = "running", ~reindex'.cleared
             PROVE  /\ ~reindex'.first => ~clear'.since
                    /\ scan'.who = "reindex" =>
                         /\ scan'.pc = "walk" => ~clear'.since \/ state'.cursor[sc.scope] = Root
                         /\ scan'.pc \in {"write", "cursor"} => ~clear'.since \/ scan'.whole
                         /\ scan'.pc = "flags" => ~clear'.since
  BY <1>0, <1>1 DEF JobBatch
<1>2. ~ClearIndex
  BY <1>0, ClearIs
<1>3. clear'.since => clear.since
  <2>1. CASE ReindexBegins \/ WriteCursor \/ WriteFlags
    BY <1>0, <2>1, BeginsIs, CursorIs, FlagsIs
  <2>2. CASE Prune
    BY <1>0, <2>2, PruneIs
  <2> QED BY <1>0, <1>2, <2>1, <2>2, OthersLeave
<1>4. CASE WriteFlags /\ scan.who = "reindex"
  <2>1. reindex.status = "running" /\ reindex'.cleared = reindex.cleared /\ clear' = clear /\ scan.pc = "flags"
        /\ scan'.who = "none"
    BY <1>0, <1>4, FlagsIs DEF JobBatch
  <2> QED BY <1>0, <1>4, <2>1 DEF JobBatch
<1>5. CASE StartReindex /\ reindex'.first /\ scan.who # "reindex"
  <2>1. scan'.who # "reindex"
    BY <1>5 DEF StartReindex
  <2> QED BY <1>5, <2>1
<1>6. CASE reindex' = reindex
  <2>1. ~reindex'.first => ~clear'.since
    BY <1>0, <1>3, <1>6 DEF JobBatch
  <2>2. ASSUME scan'.who = "reindex", scan'.pc = "walk" PROVE ~clear'.since \/ state'.cursor[sc.scope] = Root
    <3>1. CASE ReindexBegins
      <4>1. reindex.first => state'.cursor[sc.scope] = Root
        BY <1>0, <3>1, BeginsIs
      <4> QED BY <2>1, <4>1, <1>6
    <3>2. CASE scan' = scan
      <4>1. ~clear.since \/ state.cursor[sc.scope] = Root
        BY <1>0, <1>6, <2>2, <3>2 DEF JobBatch
      <4>2. ~ReindexBegins /\ ~WriteCursor /\ ~WriteFlags /\ ~Prune
        BY <1>0, <2>2, <3>2, BeginsIs, CursorIs, FlagsIs, PruneIs
      <4> QED BY <1>0, <1>2, <4>1, <4>2, OthersLeave
    <3> QED BY <1>0, <1>2, <2>2, <3>1, <3>2, WhoStays
  <2>3. ASSUME scan'.who = "reindex", scan'.pc \in {"write", "cursor"} PROVE ~clear'.since \/ scan'.whole
    <3>1. CASE Walk
      <4>1. scan.who = "reindex" /\ scan.pc = "walk" /\ scan.root = sc.scope /\ clear' = clear
        BY <1>0, <2>3, <3>1 DEF Walk, Scan, HolderFits
      <4>2. scan'.whole = (state.cursor[sc.scope] = Root)
        BY <1>0, <3>1, <4>1, WalkReads
      <4> QED BY <1>0, <1>6, <4>1, <4>2 DEF JobBatch
    <3>2. CASE Write
      <4>1. scan.who = "reindex" /\ scan.pc = "write" /\ scan'.whole = scan.whole /\ clear' = clear
        BY <1>0, <2>3, <3>2 DEF Write, Goto, Scan
      <4> QED BY <1>0, <1>6, <4>1 DEF JobBatch
    <3>3. CASE RefreshReads \/ WriteCursor \/ WriteFlags
      BY <1>0, <2>3, <3>3, CursorIs, FlagsIs DEF RefreshReads, Scanner, Scan, NoScan
    <3>4. CASE scan' = scan /\ clear'.since = clear.since
      BY <1>0, <1>6, <2>3, <3>4 DEF JobBatch
    <3> QED BY <1>0, <1>2, <2>3, <3>1, <3>2, <3>3, <3>4, BatchKept
  <2>4. ASSUME scan'.who = "reindex", scan'.pc = "flags" PROVE ~clear'.since
    <3>1. CASE WriteCursor
      <4>1. scan.who = "reindex" /\ scan.pc = "cursor" /\ scan.root = sc.scope
        BY <1>0, <2>4, <3>1, CursorIs DEF Scan, HolderFits
      <4>2. ~clear.since \/ scan.whole
        BY <1>0, <1>6, <4>1 DEF JobBatch
      <4> QED BY <1>0, <3>1, <4>1, <4>2, CursorIs
    <3>2. CASE Walk \/ Write
      BY <1>0, <2>4, <3>2 DEF Walk, Write, Goto, Scan
    <3>3. CASE RefreshReads \/ WriteFlags
      BY <1>0, <2>4, <3>3, FlagsIs DEF RefreshReads, Scan, NoScan
    <3>4. CASE scan' = scan /\ clear'.since = clear.since
      BY <1>0, <1>6, <2>4, <3>4 DEF JobBatch
    <3> QED BY <1>0, <1>2, <2>4, <3>1, <3>2, <3>3, <3>4, BatchKept
  <2> QED BY <2>1, <2>2, <2>3, <2>4
<1> QED BY <1>0, <1>2, <1>4, <1>5, <1>6, JobChanges

\* What counts as scanned is in the index.
LEMMA ScannedStep == ASSUME Resting PROVE Scanned'
<1>0. /\ sc' = sc /\ scan \in Scan /\ HolderFits /\ Records /\ [Next]_vars /\ JobBatch /\ Batch /\ SyncBatch /\ Scanned
  BY ItemsFixed DEF Resting, Records, IndexFits
<1>1. ASSUME ~ClearIndex, ~(ReindexBegins /\ reindex.first), AllFresh PROVE AllFresh'
  BY <1>1, ItemsFixed
<1>2. ASSUME Prune, ~clear'.since, clear.since PROVE AllFresh'
  <2>1. scan.who = "sync" /\ scan.whole /\ scan.end /\ scan.pc = "prune" /\ ~ClearIndex /\ ~ReindexBegins
    BY <1>0, <1>2, PruneIs, ClearIs, BeginsIs
  <2> QED BY <1>0, <1>1, <2>1 DEF SyncBatch
<1>3. ASSUME rows' = rows, AllFresh PROVE AllFresh'
  BY <1>3, ItemsFixed DEF Resting, AllFresh
<1>4. ASSUME ~clear'.since, sc.scope = Root, state'.scanned, state'.cursor[Root] = Root PROVE AllFresh'
  <2>0. ~ClearIndex
    BY <1>0, <1>4, ClearIs
  <2>1. CASE ReindexBegins
    <3>1. ~reindex.first /\ ~clear.since /\ state'.cursor = state.cursor /\ state'.scanned = state.scanned
      BY <1>0, <1>4, <2>1, BeginsIs
    <3> QED BY <1>0, <1>1, <1>4, <2>0, <3>1 DEF Scanned
  <2>2. CASE WriteCursor
    <3>1. /\ Scanning("cursor") /\ (scan.whole \/ ~clear.since) /\ rows' = rows
          /\ (IF scan.end THEN Root ELSE scan.last) = Root
      BY <1>0, <1>4, <2>2, CursorIs DEF Scanning
    <3>2. scan.end
      BY <1>0, <3>1, PathIsSeq DEF Batch
    <3> QED BY <1>0, <1>3, <3>1, <3>2 DEF Batch, UpTo, AllFresh
  <2>3. CASE WriteFlags
    <3>1. Scanning("flags") /\ ~clear.since /\ state.cursor[sc.scope] = Root /\ rows' = rows
      BY <1>0, <1>4, <2>3, FlagsIs DEF Scanning, HolderFits
    <3> QED BY <1>0, <1>3, <3>1 DEF Batch
  <2>4. CASE Prune
    <3>1. state'.cursor = state.cursor /\ state'.scanned = state.scanned /\ ~ReindexBegins
      BY <1>0, <2>4, PruneIs, BeginsIs
    <3> QED BY <1>0, <1>1, <1>2, <1>4, <2>0, <2>4, <3>1 DEF Scanned
  <2>5. CASE ~ReindexBegins /\ ~WriteCursor /\ ~WriteFlags /\ ~Prune
    <3>1. state'.cursor = state.cursor /\ state'.scanned = state.scanned /\ clear'.since = clear.since
      BY <1>0, <2>0, <2>5, OthersLeave
    <3> QED BY <1>0, <1>1, <1>4, <2>0, <2>5, <3>1 DEF Scanned
  <2> QED BY <2>1, <2>2, <2>3, <2>4, <2>5
<1>5. ASSUME ~clear'.since, sc.events \cap {"fault", "crash"} = {}, scan'.who # "reindex", state'.complete, sc.scope # Root
      PROVE  AllFresh'
  <2>0. ~ClearIndex /\ ~ReindexBegins /\ ~ScanFails /\ ~Crash
    BY <1>0, <1>5, ClearIs, BeginsIs DEF ScanFails, Crash
  <2>1. CASE WriteCursor
    <3>1. scan.who = "indexer" /\ scan.root = Root /\ rows' = rows
      BY <1>0, <1>5, <2>1, CursorIs DEF HolderFits, Scan
    <3>2. ~clear.since /\ state.complete
      BY <1>0, <1>5, <2>1, <3>1, CursorIs
    <3> QED BY <1>0, <1>3, <1>5, <3>1, <3>2 DEF Scanned
  <2>2. CASE WriteFlags
    <3>1. ~clear.since /\ state.complete /\ rows' = rows /\ scan.who \in {"indexer", "reindex"} /\ scan.pc = "flags"
      BY <1>0, <1>5, <2>2, FlagsIs
    <3>2. CASE scan.who = "indexer"
      BY <1>0, <1>3, <1>5, <3>1, <3>2 DEF Scanned
    <3>3. CASE scan.who = "reindex"
      <4>1. Scanning("flags")
        BY <1>0, <3>1, <3>3 DEF Scanning, HolderFits
      <4> QED BY <1>0, <1>3, <1>5, <3>1, <4>1 DEF Batch
    <3> QED BY <3>1, <3>2, <3>3
  <2>3. CASE Prune
    <3>1. CASE scan.who = "sync"
      <4>1. scan.end /\ scan.pc = "prune" /\ (scan.whole \/ ~clear.since)
        BY <1>0, <1>5, <2>3, <3>1, PruneIs DEF HolderFits
      <4> QED BY <1>0, <1>1, <2>0, <3>1, <4>1 DEF SyncBatch
    <3>2. CASE scan.who = "indexer"
      <4>1. ~clear.since /\ state.complete
        BY <1>0, <1>5, <2>3, <3>2, PruneIs
      <4> QED BY <1>0, <1>1, <1>5, <2>0, <3>2, <4>1 DEF Scanned
    <3> QED BY <1>0, <2>3, <3>1, <3>2, PruneIs
  <2>4. CASE ~WriteCursor /\ ~WriteFlags /\ ~Prune
    <3>1. state'.complete = state.complete /\ clear'.since = clear.since
      BY <1>0, <2>0, <2>4, OthersLeave
    <3>2. scan.who # "reindex"
      BY <1>0, <1>5, <2>0, <2>4, WhoStays
    <3> QED BY <1>0, <1>1, <1>5, <2>0, <3>1, <3>2 DEF Scanned
  <2> QED BY <2>1, <2>2, <2>3, <2>4
<1>6. ASSUME reindex'.status = "done", ~reindex'.cleared PROVE AllFresh'
  <2>0. ~ClearIndex
    BY <1>0, <1>6, ClearIs
  <2>1. CASE reindex' = reindex
    <3>1. ~ReindexBegins
      BY <1>0, <1>6, <2>1, BeginsIs
    <3> QED BY <1>0, <1>1, <1>6, <2>0, <2>1, <3>1 DEF Scanned
  <2>2. CASE WriteFlags /\ scan.who = "reindex"
    <3>1. reindex.status = "running" /\ ~reindex.cleared /\ scan.pc = "flags" /\ scan.end /\ rows' = rows
      BY <1>0, <1>6, <2>2, FlagsIs DEF JobBatch
    <3>2. Scanning("flags") /\ ~clear.since
      BY <1>0, <2>2, <3>1 DEF JobBatch, Scanning, HolderFits
    <3> QED BY <1>0, <1>3, <3>1, <3>2 DEF Batch
  <2> QED BY <1>0, <1>6, <2>0, <2>1, <2>2, JobChanges
<1> QED BY <1>0, <1>4, <1>5, <1>6 DEF Scanned

\* While no file changes, every step of a scan keeps the claims.
LEMMA IndexStep ==
  ASSUME Records, Rests, ~Edited, IndexFits, [Next]_vars
  PROVE  IndexFits'
<1>1. Resting
  BY DEF Resting
<1> QED BY <1>1, BehindStep, BatchStep, SyncBatchStep, RefreshBatchStep, JobBatchStep, ScannedStep DEF IndexFits

-----------------------------------------------------------------------------
(* The theorems.                                                           *)

\* What holds in every state, whatever users, downloads and other programs do.
Inv == Records /\ IsTree /\ TargetHeld /\ MovedAway /\ MarksLead /\ PagesFit
\* What holds as well while the files rest.
IndexInv == Inv /\ (Edited \/ (Rests /\ IndexFits))

\* The invariant holds at the start and through every step.
LEMMA InvInit == ASSUME Init PROVE Inv
<1>1. Records /\ IsTree
  BY InitRecords, TreeInit
<1>2. op.kind = "none" /\ marks = {} /\ download.status = "none" /\ stamp = 0 /\ cache = NoPage /\ reader = NoPage
  BY DEF Init, NoDownload
<1>3. TargetHeld /\ MovedAway /\ MarksLead
  BY <1>2 DEF TargetHeld, MovedAway, MarksLead, HasTarget
<1>4. PagesFit
  BY <1>2 DEF PagesFit, NoPage
<1> QED BY <1>1, <1>3, <1>4 DEF Inv

\* Every step keeps the invariant, part by part.
LEMMA InvStep == ASSUME Inv, [Next]_vars PROVE Inv'
BY RecordsStep, TreeStep, TargetStep, MovedAwayStep, MarksLeadStep, PagesFitStep DEF Inv

\* The invariant holds in every behaviour.
LEMMA InvHolds == Spec => []Inv
<1>1. Inv /\ [Next]_vars => Inv'
  BY InvStep
<1>2. Init => Inv
  BY InvInit
<1> QED BY <1>1, <1>2, PTL DEF Spec

\* So does what the index says.
LEMMA IndexInvStep == ASSUME IndexInv, [Next]_vars PROVE IndexInv'
<1>1. Inv /\ Inv' /\ Records /\ sc' = sc
  BY InvStep, Frames DEF IndexInv, Inv
<1>2. CASE Edited
  BY <1>1, <1>2 DEF IndexInv, Edited
<1>3. CASE ~Edited
  <2>1. Rests /\ IndexFits
    BY <1>3 DEF IndexInv
  <2>2. Rests'
    BY <1>1, <1>3, <2>1, RestsStep
  <2>3. IndexFits'
    BY <1>1, <1>3, <2>1, IndexStep
  <2> QED BY <1>1, <2>2, <2>3 DEF IndexInv
<1> QED BY <1>2, <1>3

\* Every variable keeps its type, and no two objects ever have one path.
THEOREM Typing == Spec => []TypeOK
<1>1. ASSUME Inv PROVE TypeOK
  <2>1. at \in [Objects -> Paths \cup {Gone}] /\ left \in 0..sc.requests
        /\ rows \in [Paths -> {"absent", "stale", "fresh"}]
        /\ scan \in Scan /\ state \in ScanStates /\ marks \subseteq Seq(Names) \X Objects
    BY <1>1 DEF Inv, Records, Placed
  <2>2. scan.records \subseteq Paths /\ scan.pc \in {"free", "walk", "write", "cursor", "flags", "prune"}
    BY <2>1 DEF Scan
  <2>3. state.cursor \in [{Root, sc.scope} -> Paths \cup {Root}]
    BY <2>1 DEF ScanStates, Cursors
  <2>4. \A o, x \in Objects : There(o) /\ at[o] = at[x] => o = x
    BY <1>1 DEF Inv, IsTree
  <2>5. \A m \in marks : m[1] \in Seq(Names)
    BY <2>1
  <2> QED BY <2>1, <2>2, <2>3, <2>4, <2>5 DEF TypeOK
<1> QED BY <1>1, InvHolds, PTL

\* Favorites, notes and target directories follow their object through every
\* rename, move and deletion made here, in every tree.
\* update_target_dir_prefix, update_favorite_path_prefix
THEOREM MarksFollowTheirObjects == Spec => []MarksFollow
<1>1. ASSUME Inv PROVE MarksFollow
  <2> SUFFICES ASSUME Calm, op.kind = "none"
               PROVE  /\ \A m \in marks : at[m[2]] = m[1]
                      /\ HasTarget => download.path = at[download.of]
    BY DEF MarksFollow, Calm
  <2>1. \A p : Settled(p) = p
    BY DEF Settled
  <2> QED BY <1>1, <2>1 DEF Inv, MarksLead
<1> QED BY <1>1, InvHolds, PTL

\* No rename, move or deletion takes what an active download writes to, is in
\* or contains, whenever the job became active, except the operation that had
\* looked for active jobs before and changed the disk after it.
\* has_active_jobs_under
THEOREM ActiveTargetsStay == Spec => ActiveUnmoved
<1>1. ASSUME Inv, [Next]_vars, NEW o \in Objects, download.status \in {"expected", "active"}, ~download.beside,
             "external" \notin sc.events, There(o),
             IsAt(at[o], download.path) \/ IsAt(download.path, at[o])
      PROVE  at'[o] = at[o]
  BY <1>1, NothingMoves DEF Inv
<1>2. ASSUME Inv, [Next]_vars
      PROVE  [\A o \in Objects :
                /\ download.status \in {"expected", "active"} /\ ~download.beside /\ "external" \notin sc.events
                /\ There(o) /\ (IsAt(at[o], download.path) \/ IsAt(download.path, at[o]))
                => at'[o] = at[o]]_vars
  BY <1>1, <1>2
<1> QED BY <1>2, InvHolds, PTL DEF Spec, ActiveUnmoved

\* A kept page is current, whatever happens to the files and whenever.
\* cached_selected_folder_live_items
THEOREM KeptPagesAreCurrent == Spec => []KeptIsCurrent
<1>1. ASSUME Inv PROVE KeptIsCurrent
  BY <1>1 DEF Inv, PagesFit, KeptIsCurrent, Entries
<1> QED BY <1>1, InvHolds, PTL

\* The library's claims are true of every tree and every size of a batch,
\* through every interleaving of batches, syncs, reindex jobs, refreshes and
\* clears of the index, with failed scans and restarts: an item is missed only
\* if the cursor of a batch can go past it, or after a clear until the next
\* walk from the beginning.  library_index_scope_complete,
\* run_library_reindex_job, clear_library_index
THEOREM ClaimsHold == Spec => []ClaimsAreTrue
<1>1. Init => IndexInv
  BY InvInit, IndexInit DEF IndexInv
<1>2. ASSUME IndexInv PROVE ClaimsAreTrue
  <2>1. KeptIsCurrent
    BY <1>2 DEF IndexInv, Inv, PagesFit, KeptIsCurrent, Entries
  <2>2. ASSUME ~Edited PROVE Scanned
    BY <1>2, <2>2 DEF IndexInv, IndexFits
  <2>3. ASSUME AllFresh, NEW p \in Items(sc.scope) PROVE p \in Fresh \/ Overtaken(sc.scope, p)
    <3>1. p \in Paths
      BY <1>2, WantedAre DEF IndexInv, Inv
    <3> QED BY <2>3, <3>1 DEF AllFresh, Wanted, Fresh
  <2>4. ReindexedIsIndexed
    BY <2>2, <2>3 DEF ReindexedIsIndexed, Scanned
  <2>5. EmptyIsEmpty
    <3> SUFFICES ASSUME ~Edited, scan.who = "none", ~clear.since,
                        sc.scope = Root \/ sc.events \cap {"fault", "crash"} = {},
                        PageStatus(sc.scope) = "empty", NEW p \in Items(sc.scope)
                 PROVE  Overtaken(sc.scope, p)
      BY DEF EmptyIsEmpty
    <3>1. (~\E q \in Fresh : IsAt(sc.scope, q)) /\ ScopeComplete(sc.scope)
      <4>1. ScopeComplete(sc.scope) \in BOOLEAN
        BY <1>2 DEF ScopeComplete, IndexInv, Inv, Records, ScanStates
      <4>2. ~\E q \in Fresh : IsAt(sc.scope, q)
        BY DEF PageStatus
      <4> QED BY <4>1, <4>2 DEF PageStatus
    <3>2. AllFresh
      BY <2>2, <3>1 DEF Scanned, ScopeComplete
    <3>3. IsAt(sc.scope, p)
      BY DEF Items
    <3> QED BY <2>3, <3>1, <3>2, <3>3
  <2> QED BY <2>1, <2>4, <2>5 DEF ClaimsAreTrue
<1>3. IndexInv /\ [Next]_vars => IndexInv'
  BY IndexInvStep
<1> QED BY <1>1, <1>2, <1>3, PTL DEF Spec
=============================================================================
