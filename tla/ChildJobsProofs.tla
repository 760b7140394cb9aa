-------------------------- MODULE ChildJobsProofs --------------------------
(***************************************************************************)
(* Jobs that create jobs, for every number of parents and items and every  *)
(* page: a listing accounts for every item and calls nothing queued that   *)
(* has no job, no job is created of an item that is being fetched unless   *)
(* somebody asked for it since the look, and fresh failures rest.          *)
(***************************************************************************)
EXTENDS ChildJobs, FiniteSetTheorems, TLAPS

Looking == {"preflight", "create"}

(* The variables have their types.                                         *)
Entry == [status : EntryStatuses, child : Nat]
Entries == [Items -> Entry]
Parent == [status : {"queued", "running", "done", "failed", "cleared"},
           pc : {"rest", "loop", "preflight", "create", "written"},
           at : Nat \ {0}, entries : Entries]
Child == [item : Items, status : RowStatuses, recent : BOOLEAN]
Request == [pc : {"none", "loop", "create"}, of : Parents \cup {NoMeta},
            item : Items \cup {NoMeta}, left : SUBSET Items, entries : Entries]
Typed ==
  /\ sc \in Scenarios /\ onDisk \subseteq Items
  /\ rows \in Seq(Child) /\ parent \in [Parents -> Parent]
  /\ meta \in [Parents -> Entries \cup {NoMeta}]
  /\ api \in Request /\ batch \in [Parents -> Nat]

(* Rows are created by the parents' runs, and by confirm requests.         *)
Bounded == Len(rows) <= MaxRows /\ \A p \in Parents : batch[p] <= Len(rows)

(* One parent's thread at a time.                                          *)
OneParent ==
  /\ \A p \in Parents : parent[p].pc # "rest" => parent[p].status = "running"
  /\ \A p, q \in Parents : parent[p].pc # "rest" /\ parent[q].pc # "rest" => p = q

(* The request is one of a listing.                                        *)
RequestFits ==
  /\ api.pc # "none" => api.of \in Parents /\ sc.family = "listing" /\ "confirm" \in sc.events
  /\ api.pc = "create" => api.item \in Items

(* What a run has done so far: r is its row, page the items of its page.   *)
SeenOf(r) == {i \in Items : r.entries[i].status # "none"}
Accounts(r, page, s) ==
  \A k \in 1..Len(page) : k < r.at =>
    \/ page[k] \in SeenOf(r)
    \/ s.family = "listing" /\ Cardinality(SeenOf(r)) = s.limit
RunFits(r, page, s) ==
  /\ \A i \in SeenOf(r) : \E k \in 1..Len(page) : page[k] = i
  /\ s.family = "listing" => Cardinality(SeenOf(r)) <= s.limit
  /\ r.pc # "rest" => Accounts(r, page, s)
  /\ r.pc \in Looking => r.at <= Len(page) /\ page[r.at] \notin SeenOf(r)
  /\ r.pc = "preflight" => s.family = "image"
  /\ r.pc = "create" /\ s.family = "listing" =>
       s.mode # "confirm" /\ Cardinality(SeenOf(r)) < s.limit
  /\ r.pc = "written" => r.at > Len(page)
RunsFit == \A p \in Parents : RunFits(parent[p], Page(p), sc)

(* What is called queued has its job, in the run, the file and the request. *)
HasChildren(e, m) ==
  \A i \in Items : e[i].status = "queued" => e[i].child \in 1..Len(m) /\ m[e[i].child].item = i
ChildrenKnown ==
  /\ \A p \in Parents : /\ HasChildren(parent[p].entries, rows)
                        /\ meta[p] # NoMeta => HasChildren(meta[p], rows)
  /\ HasChildren(api.entries, rows)

Inv ==
  /\ Typed /\ Bounded /\ OneParent /\ RequestFits /\ RunsFit
  /\ ChildrenKnown /\ ItemsAccounted

(* No live row where one is about to be created, unless somebody else made *)
(* one live since the look.                                                *)
Live(r) == r.status = "active" \/ (sc.family = "listing" /\ r.status = "done")
NoneLive(i) == \A n \in 1..Len(rows) : rows[n].item = i => ~Live(rows[n])
LookHolds(i) == NoneLive(i) \/ i \in crossed
LooksHold ==
  /\ \A p \in Parents : parent[p].pc \in Looking => LookHolds(Item(p))
  /\ api.pc = "create" => LookHolds(api.item)

(* No failure is fresh where a version is about to be asked for.           *)
Rested(r) == r.status = "cleared" \/ (r.status # "gone_for_good" /\ ~r.recent)
NoneFresh ==
  \A p \in Parents : sc.family = "image" /\ parent[p].pc \in Looking =>
    \A n \in 1..Len(rows) : rows[n].item = Item(p) => Rested(rows[n])

-----------------------------------------------------------------------------
(* How a parent's row changes.                                             *)

Others(p) == \A q \in Parents \ {p} : parent'[q] = parent[q]

\* The scenario: a page is a sequence of items.
LEMMA Scenario ==
  ASSUME Typed, NEW p \in Parents
  PROVE  /\ Page(p) \in Seq(Items) /\ Len(Page(p)) \in Nat /\ sc.limit \in Nat
         /\ sc.family \in {"listing", "image"} /\ sc.mode \in {"auto", "confirm"}
         /\ parent[p] \in Parent
BY ScenarioAssumption DEF Typed, Page, Families

\* A row without entries.
LEMMA AtRestTyped ==
  ASSUME NEW status \in {"queued", "running", "done", "failed", "cleared"}
  PROVE  /\ AtRest(status) \in Parent /\ AtRest(status).status = status
         /\ AtRest(status).pc = "rest" /\ AtRest(status).at = 1
         /\ AtRest(status).entries = NoEntries
         /\ NoEntries \in Entries /\ SeenOf(AtRest(status)) = {}
<1>1. NoEntries \in Entries BY DEF NoEntries, Entries, Entry, EntryStatuses
<1>2. \A i \in Items : NoEntries[i].status = "none" BY DEF NoEntries
<1>3. AtRest(status) \in Parent BY <1>1 DEF AtRest, Parent
<1>4. AtRest(status).entries = NoEntries BY DEF AtRest
<1>5. SeenOf(AtRest(status)) = {} BY <1>2, <1>4 DEF SeenOf
<1> QED BY <1>1, <1>3, <1>4, <1>5 DEF AtRest

\* An update of one parent.
LEMMA Moved ==
  ASSUME Typed, NEW p \in Parents, NEW e \in Parent, Move(p, e)
  PROVE  parent' \in [Parents -> Parent] /\ parent'[p] = e /\ Others(p)
BY DEF Typed, Move, Others

\* A thread that goes to another place.
LEMMA Placed ==
  ASSUME Typed, NEW p \in Parents, NEW pc \in {"loop", "preflight", "create", "written"},
         NEW e, e = [parent[p] EXCEPT !.pc = pc]
  PROVE  /\ e \in Parent /\ e.pc = pc /\ e.status = parent[p].status
         /\ e.at = parent[p].at /\ e.entries = parent[p].entries
BY Scenario DEF Parent

\* A thread that has an answer for its item.
LEMMA Answers ==
  ASSUME Typed, NEW p \in Parents, NEW st \in EntryStatuses, NEW c \in Nat,
         parent[p].at <= Len(Page(p)), NEW e, e = Advanced(p, st, c)
  PROVE  /\ Item(p) \in Items /\ Item(p) = Page(p)[parent[p].at]
         /\ e \in Parent /\ e.pc = "loop" /\ e.status = parent[p].status
         /\ e.at = parent[p].at + 1
         /\ e.entries[Item(p)].status = st /\ e.entries[Item(p)].child = c
         /\ \A i \in Items \ {Item(p)} : e.entries[i] = parent[p].entries[i]
<1>1. parent[p] \in Parent /\ parent[p].at \in Nat \ {0} /\ parent[p].entries \in Entries
  BY Scenario DEF Parent
<1>2. PICK i : i = Item(p) OBVIOUS
<1>3. i = Page(p)[parent[p].at] BY <1>2 DEF Item
<1>4. i \in Items BY <1>1, <1>3, Scenario
<1>5. PICK x : x = [status |-> st, child |-> c] OBVIOUS
<1>6. x \in Entry BY <1>5 DEF Entry
<1>7. [parent[p].entries EXCEPT ![i] = x] \in Entries BY <1>1, <1>4, <1>6 DEF Entries
<1>8. parent[p].at + 1 \in Nat \ {0} BY <1>1
<1>9. [parent[p] EXCEPT !.pc = "loop", !.at = @ + 1] \in Parent
  <2>1. [parent[p] EXCEPT !.pc = "loop"] \in Parent BY <1>1 DEF Parent
  <2>2. [parent[p] EXCEPT !.pc = "loop", !.at = parent[p].at + 1] \in Parent
    BY <1>8, <2>1 DEF Parent
  <2> QED BY <1>1, <2>2 DEF Parent
<1>10. e = [parent[p] EXCEPT !.pc = "loop", !.at = @ + 1, !.entries[i] = x]
  BY <1>2, <1>5 DEF Advanced
<1>11. e = [parent[p] EXCEPT !.pc = "loop", !.at = @ + 1, !.entries = [parent[p].entries EXCEPT ![i] = x]]
  BY <1>1, <1>10 DEF Parent
<1>12. e \in Parent BY <1>7, <1>9, <1>11 DEF Parent
<1>13. e.entries = [parent[p].entries EXCEPT ![i] = x] /\ e.pc = "loop"
       /\ e.status = parent[p].status /\ e.at = parent[p].at + 1
  BY <1>1, <1>11 DEF Parent
<1>14. e.entries[i] = x /\ \A k \in Items \ {i} : e.entries[k] = parent[p].entries[k]
  BY <1>1, <1>4, <1>13 DEF Entries
<1> QED BY <1>2, <1>3, <1>4, <1>5, <1>12, <1>13, <1>14

\* What is known of an item is one of these.
LEMMA Known ==
  ASSUME NEW i
  PROVE  /\ GalleryState(i) \in {"none", "present", "already_queued"}
         /\ ResourceState(i) \in {"none", "present", "already_queued", "unavailable", "retry_deferred"}
         /\ ExistingState(i) \in EntryStatuses \ {"queued"}
<1>1. GalleryState(i) \in {"none", "present", "already_queued"} BY DEF GalleryState
<1>2. FailedState(i) \in {"none", "unavailable", "retry_deferred"} BY DEF FailedState
<1>3. ResourceState(i) \in {"none", "present", "already_queued", "unavailable", "retry_deferred"}
  BY <1>2 DEF ResourceState
<1> QED BY <1>1, <1>3 DEF ExistingState, EntryStatuses

\* What a step of a parent's thread does to its row.
LEMMA ThreadRow ==
  ASSUME Typed, NEW p \in Parents, ParentStep(p)
  PROVE  \/ ParentStarts(p) \/ DiscoveryFails(p) \/ ParentDone(p)
         \/ /\ InLoop(p) /\ Item(p) \in Seen(p)
            /\ Move(p, [parent[p] EXCEPT !.at = @ + 1])
         \/ /\ InLoop(p) /\ sc.family = "listing" /\ Full(p)
            /\ Move(p, [parent[p] EXCEPT !.at = Len(Page(p)) + 1])
         \/ /\ InLoop(p) /\ Item(p) \notin Seen(p) /\ (sc.family = "listing" => ~Full(p))
            /\ \E st \in EntryStatuses \ {"none", "queued"} : Move(p, Advanced(p, st, 0))
         \/ /\ InLoop(p) /\ Item(p) \notin Seen(p) /\ ExistingState(Item(p)) = "none"
            /\ \/ /\ sc.family = "listing" /\ ~Full(p) /\ sc.mode # "confirm"
                  /\ Move(p, [parent[p] EXCEPT !.pc = "create"])
               \/ sc.family = "image" /\ Move(p, [parent[p] EXCEPT !.pc = "preflight"])
         \/ /\ parent[p].pc = "preflight"
            /\ \/ \E st \in {"unavailable", "skipped_limit"} : Move(p, Advanced(p, st, 0))
               \/ Move(p, [parent[p] EXCEPT !.pc = "create"])
         \/ /\ parent[p].pc = "create" /\ CreateJob(Item(p))
            /\ Move(p, Advanced(p, "queued", NewId))
         \/ /\ parent[p].pc = "loop" /\ parent[p].at > Len(Page(p))
            /\ Move(p, [parent[p] EXCEPT !.pc = "written"])
<1>1. CASE SkipSeen(p) BY <1>1 DEF SkipSeen
<1>2. CASE ListingLimit(p) BY <1>2 DEF ListingLimit
<1>3. CASE CheckGallery(p)
  <2>1. PICK x : x = ExistingState(Item(p)) OBVIOUS
  <2>2. x \in EntryStatuses \ {"queued"} BY <2>1, Known
  <2>3. Move(p, IF x # "none" THEN Advanced(p, x, 0)
                 ELSE IF sc.mode = "confirm" THEN Advanced(p, "discovered", 0)
                 ELSE [parent[p] EXCEPT !.pc = "create"])
    BY <1>3, <2>1 DEF CheckGallery
  <2>4. InLoop(p) /\ sc.family = "listing" /\ Item(p) \notin Seen(p) /\ ~Full(p)
    BY <1>3 DEF CheckGallery
  <2>5. CASE x # "none" BY <2>2, <2>3, <2>4, <2>5
  <2>6. CASE x = "none" /\ sc.mode = "confirm"
    <3>1. "discovered" \in EntryStatuses \ {"none", "queued"} BY DEF EntryStatuses
    <3> QED BY <2>3, <2>4, <2>6, <3>1
  <2>7. CASE x = "none" /\ sc.mode # "confirm" BY <2>1, <2>3, <2>4, <2>7
  <2> QED BY <2>5, <2>6, <2>7
<1>4. CASE CheckResource(p)
  <2>1. PICK x : x = ExistingState(Item(p)) OBVIOUS
  <2>2. x \in EntryStatuses \ {"queued"} BY <2>1, Known
  <2>3. Move(p, IF x # "none" THEN Advanced(p, x, 0) ELSE [parent[p] EXCEPT !.pc = "preflight"])
    BY <1>4, <2>1 DEF CheckResource
  <2>4. InLoop(p) /\ sc.family = "image" /\ Item(p) \notin Seen(p) BY <1>4 DEF CheckResource
  <2>5. CASE x # "none" BY <2>2, <2>3, <2>4, <2>5
  <2>6. CASE x = "none" BY <2>1, <2>3, <2>4, <2>6
  <2> QED BY <2>5, <2>6
<1>5. CASE PreflightResource(p) BY <1>5 DEF PreflightResource
<1>6. CASE CreateGalleryJob(p) \/ CreateResourceJob(p)
  BY <1>6 DEF CreateGalleryJob, CreateResourceJob, CreateChild
<1>7. CASE WriteListing(p) BY <1>7 DEF WriteListing
<1> QED BY <1>1, <1>2, <1>3, <1>4, <1>5, <1>6, <1>7 DEF ParentStep

-----------------------------------------------------------------------------
(* The rows of the children.                                               *)

RowsKept ==
  /\ rows' \in Seq(Child) /\ Len(rows) <= Len(rows')
  /\ \A n \in 1..Len(rows) : rows'[n].item = rows[n].item

\* A job is created as a new row.
LEMMA Creates ==
  ASSUME Typed, NEW i \in Items, CreateJob(i)
  PROVE  /\ RowsKept /\ Len(rows') = Len(rows) + 1
         /\ \A n \in 1..Len(rows) : rows'[n] = rows[n]
         /\ rows'[Len(rows) + 1] = [item |-> i, status |-> "active", recent |-> FALSE]
         /\ NewId \in Nat /\ NewId = Len(rows) + 1
<1>1. [item |-> i, status |-> "active", recent |-> FALSE] \in Child BY DEF Child, RowStatuses
<1>2. /\ rows' \in Seq(Child) /\ Len(rows') = Len(rows) + 1
      /\ \A n \in 1..Len(rows) : rows'[n] = rows[n]
      /\ rows'[Len(rows) + 1] = [item |-> i, status |-> "active", recent |-> FALSE]
  BY <1>1 DEF CreateJob, Typed
<1>3. Len(rows) \in Nat BY DEF Typed
<1> QED BY <1>2, <1>3 DEF RowsKept, NewId

\* A child ends: it was active, and is in a family's way of ending.
LEMMA EndsRow ==
  ASSUME Typed, NEW n, ChildEnds(n)
  PROVE  /\ RowsKept /\ Len(rows') = Len(rows) /\ n \in 1..Len(rows)
         /\ rows[n].status = "active" /\ SlotFree
         /\ rows'[n].status \in {"done", "failed", "gone_for_good"}
         /\ \A k \in 1..Len(rows) \ {n} : rows'[k] = rows[k]
         /\ onDisk' \subseteq Items
<1>1. n \in 1..Len(rows) /\ rows[n] \in Child /\ rows \in Seq(Child) BY DEF Typed, ChildEnds
<1>2. PICK status \in Ends :
        /\ rows' = [rows EXCEPT ![n].status = status,
                              ![n].recent = (sc.family = "image" /\ status = "failed")]
        /\ onDisk' = IF sc.family = "image" /\ status = "done" THEN onDisk \cup {rows[n].item} ELSE onDisk
  BY DEF ChildEnds
<1>3. status \in {"done", "failed", "gone_for_good"} BY DEF Ends
<1>4. PICK e : e = [rows[n] EXCEPT !.status = status, !.recent = (sc.family = "image" /\ status = "failed")]
  OBVIOUS
<1>5. [rows[n] EXCEPT !.status = status] \in Child BY <1>1, <1>3 DEF Child, RowStatuses
<1>6. (sc.family = "image" /\ status = "failed") \in BOOLEAN OBVIOUS
<1>7. e \in Child BY <1>4, <1>5, <1>6 DEF Child
<1>8. rows' = [rows EXCEPT ![n] = e] BY <1>1, <1>2, <1>4 DEF Child
<1>9. /\ rows' \in Seq(Child) /\ Len(rows') = Len(rows) /\ rows'[n] = e
      /\ \A k \in 1..Len(rows) \ {n} : rows'[k] = rows[k]
  BY <1>1, <1>7, <1>8
<1>10. e.item = rows[n].item /\ e.status = status BY <1>1, <1>4 DEF Child
<1>11. Len(rows) \in Nat BY <1>1
<1>12. onDisk' \subseteq Items BY <1>1, <1>2 DEF Typed, Child
<1> QED BY <1>1, <1>3, <1>9, <1>10, <1>11, <1>12 DEF RowsKept, ChildEnds

\* A cooldown ends, or the history is cleared.
LEMMA RestsRow ==
  ASSUME Typed, (\E n \in 1..MaxRows : CooldownElapses(n)) \/ ClearHistory
  PROVE  /\ RowsKept /\ Len(rows') = Len(rows)
         /\ \A n \in 1..Len(rows) : /\ rows'[n].status \in {rows[n].status, "cleared"}
                                    /\ Rested(rows[n]) => Rested(rows'[n])
<1> DEFINE Fine(n, e) == /\ e \in Child /\ e.item = rows[n].item
                         /\ e.status \in {rows[n].status, "cleared"}
                         /\ Rested(rows[n]) => Rested(e)
<1>1. rows \in Seq(Child) /\ Len(rows) \in Nat BY DEF Typed
<1>2. ASSUME NEW n \in 1..Len(rows) PROVE Fine(n, rows[n]) BY <1>1
<1>3. ASSUME NEW n \in 1..Len(rows), NEW e, e = [rows[n] EXCEPT !.recent = FALSE]
      PROVE  Fine(n, e)
  <2>1. rows[n] \in Child BY <1>1
  <2>2. e \in Child BY <1>3, <2>1 DEF Child
  <2>3. e.item = rows[n].item /\ e.status = rows[n].status /\ e.recent = FALSE
    BY <1>3, <2>1 DEF Child
  <2> QED BY <2>2, <2>3 DEF Rested
<1>4. ASSUME NEW n \in 1..Len(rows), NEW e,
             e = [rows[n] EXCEPT !.status = "cleared", !.recent = FALSE]
      PROVE  Fine(n, e)
  <2>1. rows[n] \in Child BY <1>1
  <2>2. [rows[n] EXCEPT !.status = "cleared"] \in Child BY <2>1 DEF Child, RowStatuses
  <2>3. e \in Child BY <1>4, <2>2 DEF Child
  <2>4. e.item = rows[n].item /\ e.status = "cleared" BY <1>4, <2>1 DEF Child
  <2> QED BY <2>3, <2>4 DEF Rested
<1>5. ASSUME NEW f \in [1..Len(rows) -> Child], rows' = f,
             \A n \in 1..Len(rows) : Fine(n, f[n])
      PROVE  /\ RowsKept /\ Len(rows') = Len(rows)
             /\ \A n \in 1..Len(rows) : /\ rows'[n].status \in {rows[n].status, "cleared"}
                                        /\ Rested(rows[n]) => Rested(rows'[n])
  <2>1. rows' \in Seq(Child) /\ Len(rows') = Len(rows) BY <1>1, <1>5
  <2> QED BY <1>1, <1>5, <2>1 DEF RowsKept
<1>6. CASE \E n \in 1..MaxRows : CooldownElapses(n)
  <2>1. PICK n : CooldownElapses(n) BY <1>6
  <2>2. n \in 1..Len(rows) BY <1>1, <2>1 DEF CooldownElapses
  <2>3. PICK e : e = [rows[n] EXCEPT !.recent = FALSE] OBVIOUS
  <2>4. rows' = [rows EXCEPT ![n] = e] BY <2>1, <2>3 DEF CooldownElapses
  <2>5. rows \in [1..Len(rows) -> Child] BY <1>1
  <2>6. Fine(n, e) BY <1>3, <2>2, <2>3
  <2>7. rows' \in [1..Len(rows) -> Child] BY <2>4, <2>5, <2>6
  <2>8. \A k \in 1..Len(rows) : Fine(k, rows'[k])
    <3> SUFFICES ASSUME NEW k \in 1..Len(rows) PROVE Fine(k, rows'[k]) OBVIOUS
    <3> HIDE DEF Fine
    <3>1. CASE k = n BY <2>4, <2>5, <2>6, <3>1
    <3>2. CASE k # n BY <1>2, <2>4, <2>5, <3>2
    <3> QED BY <3>1, <3>2
  <2> HIDE DEF Fine
  <2> QED BY <1>5, <2>7, <2>8
<1>7. CASE ClearHistory
  <2>1. rows' = [n \in DOMAIN rows |-> IF rows[n].status = "active" THEN rows[n]
                                       ELSE [rows[n] EXCEPT !.status = "cleared", !.recent = FALSE]]
    BY <1>7 DEF ClearHistory
  <2>2. DOMAIN rows = 1..Len(rows) BY <1>1
  <2>3. ASSUME NEW n \in 1..Len(rows) PROVE Fine(n, rows'[n])
    <3> HIDE DEF Fine
    <3>1. CASE rows[n].status = "active" BY <1>2, <2>1, <2>2, <3>1
    <3>2. CASE rows[n].status # "active" BY <1>4, <2>1, <2>2, <3>2
    <3> QED BY <3>1, <3>2
  <2>4. rows' \in [1..Len(rows) -> Child] BY <2>1, <2>2, <2>3
  <2> HIDE DEF Fine
  <2> QED BY <1>5, <2>3, <2>4
<1> QED BY <1>6, <1>7

\* A child is retried: it failed, and rests no longer.
LEMMA RetriesRow ==
  ASSUME Typed, NEW n, RetryChild(n)
  PROVE  /\ RowsKept /\ Len(rows') = Len(rows) /\ n \in 1..Len(rows)
         /\ \A k \in 1..Len(rows) \ {n} : rows'[k] = rows[k]
         /\ \A k \in 1..Len(rows) : Rested(rows[k]) => Rested(rows'[k])
<1>1. n \in 1..Len(rows) /\ rows[n] \in Child /\ rows \in Seq(Child) BY DEF Typed, RetryChild
<1>2. PICK e : e = [rows[n] EXCEPT !.status = "active", !.recent = FALSE] OBVIOUS
<1>3. [rows[n] EXCEPT !.status = "active"] \in Child BY <1>1 DEF Child, RowStatuses
<1>4. e \in Child BY <1>2, <1>3 DEF Child
<1>5. e.item = rows[n].item /\ e.status = "active" /\ ~e.recent BY <1>1, <1>2 DEF Child
<1>6. rows' = [rows EXCEPT ![n] = e] BY <1>1, <1>2 DEF RetryChild
<1>7. /\ rows' \in Seq(Child) /\ Len(rows') = Len(rows) /\ rows'[n] = e
      /\ \A k \in 1..Len(rows) \ {n} : rows'[k] = rows[k]
  BY <1>1, <1>4, <1>6
<1>8. Len(rows) \in Nat BY <1>1
<1>9. Rested(e) BY <1>5 DEF Rested
<1>10. \A k \in 1..Len(rows) : Rested(rows[k]) => Rested(rows'[k]) BY <1>7, <1>9
<1> QED BY <1>1, <1>5, <1>7, <1>8, <1>10 DEF RowsKept

-----------------------------------------------------------------------------
(* The variables keep their types.                                         *)

\* The run of a parent goes on, or leaves its place.
LEMMA RunMoves ==
  ASSUME Typed, NEW p \in Parents, NEW n \in Nat \ {0}, NEW e, e = [parent[p] EXCEPT !.at = n]
  PROVE  /\ e \in Parent /\ e.at = n /\ e.pc = parent[p].pc /\ e.status = parent[p].status
         /\ e.entries = parent[p].entries
BY Scenario DEF Parent

\* A step of a parent's thread, of its request or of its end leaves the other
\* parents alone.
LEMMA ParentTyped ==
  ASSUME Inv, NEW p \in Parents, ParentStep(p) \/ RetryParent(p)
  PROVE  /\ parent' \in [Parents -> Parent] /\ Others(p)
         /\ parent'[p].pc # "rest" => parent'[p].status = "running"
         /\ parent'[p].pc # "rest" => (parent[p].pc # "rest" \/ (ParentStarts(p) /\ SlotFree))
         /\ parent'[p].status = "done" => ParentDone(p)
<1>1. Typed /\ parent[p] \in Parent /\ Page(p) \in Seq(Items) /\ Len(Page(p)) \in Nat
  BY Scenario DEF Inv
<1>2. parent[p].pc # "rest" => parent[p].status = "running" BY DEF Inv, OneParent
<1>3. parent[p].at \in Nat \ {0} BY <1>1 DEF Parent
<1>4. ASSUME NEW e \in Parent, Move(p, e), (e.pc = "rest" /\ e.status # "done") \/ (e.status = parent[p].status /\ parent[p].pc # "rest")
      PROVE  /\ parent' \in [Parents -> Parent] /\ Others(p)
             /\ parent'[p].pc # "rest" => parent'[p].status = "running"
             /\ parent'[p].pc # "rest" => parent[p].pc # "rest"
             /\ parent'[p].status # "done"
  BY <1>1, <1>2, <1>4, Moved
<1>5. CASE ParentStarts(p)
  <2>1. PICK e : e = [AtRest("running") EXCEPT !.pc = "loop"] OBVIOUS
  <2>2. e \in Parent /\ e.status = "running" BY <2>1, AtRestTyped DEF Parent
  <2>3. Move(p, e) BY <1>5, <2>1 DEF ParentStarts, Move
  <2> QED BY <1>1, <1>5, <2>2, <2>3, Moved DEF ParentStarts
<1>6. CASE DiscoveryFails(p)
  <2>1. Move(p, AtRest("failed")) BY <1>6 DEF DiscoveryFails, Move
  <2> QED BY <1>4, <2>1, AtRestTyped
<1>7. CASE RetryParent(p)
  BY <1>4, <1>7, AtRestTyped DEF RetryParent
<1>8. CASE ParentDone(p)
  <2>1. PICK e : e = [AtRest("done") EXCEPT !.entries = parent[p].entries] OBVIOUS
  <2>2. e \in Parent /\ e.pc = "rest"
    BY <1>1, <2>1, AtRestTyped DEF Parent
  <2> QED BY <1>1, <1>8, <2>1, <2>2, Moved DEF ParentDone
<1>9. ASSUME InLoop(p), NEW n \in Nat \ {0}, Move(p, [parent[p] EXCEPT !.at = n])
      PROVE  /\ parent' \in [Parents -> Parent] /\ Others(p)
             /\ parent'[p].pc # "rest" => parent'[p].status = "running"
             /\ parent'[p].pc # "rest" => parent[p].pc # "rest"
             /\ parent'[p].status # "done"
  BY <1>1, <1>4, <1>9, RunMoves DEF InLoop
<1>10. CASE InLoop(p) /\ Move(p, [parent[p] EXCEPT !.at = @ + 1])
  <2>1. parent[p].at + 1 \in Nat \ {0} BY <1>3
  <2> QED BY <1>9, <1>10, <2>1
<1>11. CASE InLoop(p) /\ Move(p, [parent[p] EXCEPT !.at = Len(Page(p)) + 1])
  <2>1. Len(Page(p)) + 1 \in Nat \ {0} BY <1>1
  <2> QED BY <1>9, <1>11, <2>1
<1>12. ASSUME parent[p].pc # "rest", parent[p].at <= Len(Page(p)),
              NEW st \in EntryStatuses, NEW c \in Nat, Move(p, Advanced(p, st, c))
       PROVE  /\ parent' \in [Parents -> Parent] /\ Others(p)
              /\ parent'[p].pc # "rest" => parent'[p].status = "running"
              /\ parent'[p].pc # "rest" => parent[p].pc # "rest"
             /\ parent'[p].status # "done"
             /\ parent'[p].status # "done"
  BY <1>1, <1>4, <1>12, Answers
<1>13. ASSUME parent[p].pc # "rest", NEW pc \in {"loop", "preflight", "create", "written"},
              Move(p, [parent[p] EXCEPT !.pc = pc])
       PROVE  /\ parent' \in [Parents -> Parent] /\ Others(p)
              /\ parent'[p].pc # "rest" => parent'[p].status = "running"
              /\ parent'[p].pc # "rest" => parent[p].pc # "rest"
             /\ parent'[p].status # "done"
             /\ parent'[p].status # "done"
  BY <1>1, <1>4, <1>13, Placed
<1>14. parent[p].pc \in Looking => parent[p].at <= Len(Page(p))
  BY DEF Inv, RunsFit, RunFits
<1>15. \A st \in EntryStatuses \ {"none", "queued"} : st \in EntryStatuses OBVIOUS
<1>16. /\ "unavailable" \in EntryStatuses /\ "skipped_limit" \in EntryStatuses
       /\ "queued" \in EntryStatuses /\ NewId \in Nat
  BY <1>1 DEF EntryStatuses, NewId, Typed
<1>17. CASE InLoop(p) /\ \E st \in EntryStatuses \ {"none", "queued"} : Move(p, Advanced(p, st, 0))
  BY <1>12, <1>15, <1>17 DEF InLoop
<1>18. CASE InLoop(p) /\ \/ Move(p, [parent[p] EXCEPT !.pc = "create"])
                         \/ Move(p, [parent[p] EXCEPT !.pc = "preflight"])
  BY <1>13, <1>18 DEF InLoop
<1>19. CASE /\ parent[p].pc = "preflight"
            /\ \/ \E st \in {"unavailable", "skipped_limit"} : Move(p, Advanced(p, st, 0))
               \/ Move(p, [parent[p] EXCEPT !.pc = "create"])
  BY <1>12, <1>13, <1>14, <1>16, <1>19 DEF Looking
<1>20. CASE parent[p].pc = "create" /\ Move(p, Advanced(p, "queued", NewId))
  BY <1>12, <1>14, <1>16, <1>20 DEF Looking
<1>21. CASE parent[p].pc = "loop" /\ Move(p, [parent[p] EXCEPT !.pc = "written"])
  BY <1>13, <1>21
<1> QED
  BY <1>1, <1>5, <1>6, <1>7, <1>8, <1>10, <1>11, <1>17, <1>18, <1>19, <1>20, <1>21, ThreadRow

\* The request.
LEMMA RequestTyped ==
  ASSUME Inv, ConfirmStep \/ Crash \/ \E p \in Parents, ids \in SUBSET Items : ConfirmReads(p, ids)
  PROVE  api' \in Request /\ RequestFits'
<1>1. Typed /\ api \in Request /\ RequestFits BY DEF Inv, Typed
<1>2. NoRequest \in Request
  <2>1. NoEntries \in Entries BY AtRestTyped
  <2> QED BY <2>1 DEF NoRequest, Request
<1>3. ASSUME NEW i \in Items, NEW e, e = Answered(i)
      PROVE  e \in Request /\ e.pc = "loop" /\ e.of = api.of /\ e.entries = api.entries
  <2>1. [api EXCEPT !.left = @ \ {i}] \in Request BY <1>1 DEF Request
  <2>2. [api EXCEPT !.left = @ \ {i}, !.item = NoMeta] \in Request BY <2>1 DEF Request
  <2>3. e \in Request BY <1>3, <2>2 DEF Answered, Request
  <2> QED BY <1>1, <1>3, <2>3 DEF Answered, Request
<1>4. CASE \E p \in Parents, ids \in SUBSET Items : ConfirmReads(p, ids)
  <2>1. PICK p \in Parents, ids \in SUBSET Items : ConfirmReads(p, ids) BY <1>4
  <2>2. PICK l : l = {i \in IF ids = {} THEN Items ELSE ids : meta[p][i].status # "none"} OBVIOUS
  <2>3. l \in SUBSET Items BY <2>2
  <2>4. meta[p] \in Entries BY <1>1, <2>1 DEF ConfirmReads, Typed
  <2>5. api' = [pc |-> "loop", of |-> p, item |-> NoMeta, entries |-> meta[p], left |-> l]
    BY <2>1, <2>2 DEF ConfirmReads
  <2>6. api' \in Request BY <2>3, <2>4, <2>5 DEF Request
  <2>7. api'.pc = "loop" /\ api'.of = p BY <2>5
  <2> QED BY <2>1, <2>6, <2>7 DEF ConfirmReads, RequestFits
<1>5. CASE \E i \in Items : ConfirmChecks(i)
  <2>1. PICK i \in Items : ConfirmChecks(i) BY <1>5
  <2>2. PICK st : st = GalleryState(i) OBVIOUS
  <2>3. st \in EntryStatuses BY <2>2, Known DEF EntryStatuses
  <2>4. PICK e : e = Answered(i) OBVIOUS
  <2>5. api' = IF AlreadyAsked(i) THEN e ELSE IF st # "none" THEN [e EXCEPT !.entries[i].status = st]
                 ELSE [api EXCEPT !.pc = "create", !.item = i]
    BY <2>1, <2>2, <2>4 DEF ConfirmChecks
  <2>6. e \in Request /\ e.pc = "loop" /\ e.of = api.of BY <1>3, <2>4
  <2>7. CASE api' = e BY <1>1, <2>1, <2>6, <2>7 DEF RequestFits, ConfirmChecks
  <2>8. CASE api' = [e EXCEPT !.entries[i].status = st]
    <3>1. e.entries \in Entries BY <2>6 DEF Request
    <3>2. PICK f : f = [e.entries EXCEPT ![i].status = st] OBVIOUS
    <3>3. f \in Entries
      <4>1. PICK x : x = [e.entries[i] EXCEPT !.status = st] OBVIOUS
      <4>2. e.entries[i] \in Entry BY <3>1 DEF Entries
      <4>3. x \in Entry BY <2>3, <4>1, <4>2 DEF Entry
      <4>4. f = [e.entries EXCEPT ![i] = x] BY <3>2, <4>1
      <4> QED BY <3>1, <4>3, <4>4 DEF Entries
    <3>4. api' = [e EXCEPT !.entries = f] BY <2>8, <3>2
    <3>5. api' \in Request BY <2>6, <3>3, <3>4 DEF Request
    <3>6. api'.pc = "loop" /\ api'.of = api.of BY <2>6, <3>4 DEF Request
    <3> QED BY <1>1, <2>1, <3>5, <3>6 DEF RequestFits, ConfirmChecks
  <2>9. CASE api' = [api EXCEPT !.pc = "create", !.item = i]
    <3>1. [api EXCEPT !.pc = "create"] \in Request BY <1>1 DEF Request
    <3>2. api' \in Request BY <2>9, <3>1 DEF Request
    <3>3. api'.of = api.of /\ api'.item = i BY <1>1, <2>9 DEF Request
    <3> QED BY <1>1, <2>1, <3>2, <3>3 DEF RequestFits, ConfirmChecks
  <2> QED BY <2>5, <2>7, <2>8, <2>9
<1>6. CASE ConfirmCreates
  <2>1. PICK i : i = api.item OBVIOUS
  <2>2. i \in Items BY <1>1, <1>6, <2>1 DEF ConfirmCreates, RequestFits
  <2>3. PICK e : e = Answered(i) OBVIOUS
  <2>4. PICK x : x = [status |-> "queued", child |-> NewId] OBVIOUS
  <2>5. e \in Request /\ e.pc = "loop" /\ e.of = api.of BY <1>3, <2>2, <2>3
  <2>6. x \in Entry BY <1>1, <2>4 DEF Entry, EntryStatuses, NewId, Typed
  <2>7. e.entries \in Entries BY <2>5 DEF Request
  <2>8. PICK f : f = [e.entries EXCEPT ![i] = x] OBVIOUS
  <2>9. f \in Entries BY <2>2, <2>6, <2>7, <2>8 DEF Entries
  <2>10. api' = [e EXCEPT !.entries = f]
    BY <1>6, <2>1, <2>3, <2>4, <2>8 DEF ConfirmCreates
  <2>11. api' \in Request BY <2>5, <2>9, <2>10 DEF Request
  <2>12. api'.pc = "loop" /\ api'.of = api.of BY <2>5, <2>10 DEF Request
  <2> QED BY <1>1, <1>6, <2>11, <2>12 DEF RequestFits, ConfirmCreates
<1>7. CASE ConfirmWrites \/ Crash
  <2>1. api' = NoRequest BY <1>7 DEF ConfirmWrites, Crash
  <2>2. api'.pc = "none" BY <2>1 DEF NoRequest
  <2> QED BY <1>2, <2>1, <2>2 DEF RequestFits
<1> QED BY <1>4, <1>5, <1>6, <1>7 DEF ConfirmStep

\* A step of a parent, and the steps of the request, the children and the user:
\* what each leaves alone.
LEMMA TypedNext ==
  ASSUME Inv, Next
  PROVE  Typed' /\ RowsKept /\ Bounded' /\ RequestFits' /\ sc' = sc
<1>1. /\ Typed /\ Bounded /\ RequestFits /\ rows \in Seq(Child) /\ Len(rows) \in Nat
      /\ MaxRows \in Nat
  BY MaxRowsAssumption DEF Inv, Typed
<1>2. ASSUME rows' = rows PROVE RowsKept BY <1>1, <1>2 DEF RowsKept
<1>3. CASE \E p \in Parents : ParentStep(p) \/ RetryParent(p)
  <2>1. PICK p \in Parents : ParentStep(p) \/ RetryParent(p) BY <1>3
  <2>2. parent' \in [Parents -> Parent] BY <2>1, ParentTyped
  <2>3. UNCHANGED <<sc, onDisk, api>>
    BY <2>1 DEF ParentStep, RetryParent, ParentStarts, DiscoveryFails, SkipSeen, ListingLimit,
                CheckGallery, CheckResource, PreflightResource, CreateChild,
                CreateGalleryJob, CreateResourceJob, WriteListing, ParentDone
  <2>4. RequestFits' BY <1>1, <2>3 DEF RequestFits
  <2>5. CASE CreateChild(p)
    <3>1. Item(p) \in Items
      <4>1. parent[p].at <= Len(Page(p)) BY <2>5 DEF Inv, RunsFit, RunFits, Looking, CreateChild
      <4>2. Page(p) \in Seq(Items) /\ parent[p].at \in Nat \ {0} BY <1>1, Scenario DEF Parent
      <4> QED BY <4>1, <4>2 DEF Item
    <3>2. RowsKept /\ Len(rows') = Len(rows) + 1 BY <1>1, <2>5, <3>1, Creates DEF CreateChild
    <3>3. batch' = [batch EXCEPT ![p] = @ + 1] /\ batch \in [Parents -> Nat]
      BY <1>1, <2>5 DEF CreateChild, Typed
    <3>4. batch' \in [Parents -> Nat] BY <3>3
    <3>5. Len(rows) < MaxRows BY <2>5 DEF CreateChild
    <3>6. ASSUME NEW q \in Parents PROVE batch'[q] <= Len(rows')
      <4>1. batch'[q] <= batch[q] + 1 /\ batch[q] <= Len(rows) /\ batch[q] \in Nat
        BY <1>1, <3>3 DEF Bounded
      <4> QED BY <1>1, <3>2, <3>4, <4>1
    <3>7. Bounded' BY <1>1, <3>2, <3>5, <3>6 DEF Bounded
    <3>8. meta' = meta BY <2>5 DEF CreateChild
    <3> QED BY <1>1, <2>2, <2>3, <2>4, <3>2, <3>4, <3>7, <3>8 DEF Typed, RowsKept
  <2>6. CASE ~CreateChild(p)
    <3>1. rows' = rows
      BY <2>1, <2>6 DEF ParentStep, RetryParent, ParentStarts, DiscoveryFails, SkipSeen,
           ListingLimit, CheckGallery, CheckResource, PreflightResource, CreateGalleryJob,
           CreateResourceJob, WriteListing, ParentDone
    <3>2. batch' = batch \/ batch' = [batch EXCEPT ![p] = 0]
      BY <2>1, <2>6 DEF ParentStep, RetryParent, ParentStarts, DiscoveryFails, SkipSeen,
           ListingLimit, CheckGallery, CheckResource, PreflightResource, CreateGalleryJob,
           CreateResourceJob, WriteListing, ParentDone
    <3>3. meta' = meta \/ meta' = [meta EXCEPT ![p] = parent[p].entries]
      BY <2>1, <2>6 DEF ParentStep, RetryParent, ParentStarts, DiscoveryFails, SkipSeen,
           ListingLimit, CheckGallery, CheckResource, PreflightResource, CreateGalleryJob,
           CreateResourceJob, WriteListing, ParentDone
    <3>4. parent[p].entries \in Entries BY <1>1, Scenario DEF Parent
    <3>5. meta' \in [Parents -> Entries \cup {NoMeta}] BY <1>1, <3>3, <3>4 DEF Typed
    <3>6. batch' \in [Parents -> Nat] /\ \A q \in Parents : batch'[q] <= Len(rows)
      BY <1>1, <3>2 DEF Typed, Bounded
    <3> QED BY <1>1, <1>2, <2>2, <2>3, <2>4, <3>1, <3>5, <3>6 DEF Typed, Bounded
  <2> QED BY <2>5, <2>6
<1>4. CASE ConfirmCreates
  <2>1. api' \in Request /\ RequestFits' BY <1>4, RequestTyped DEF ConfirmStep
  <2>2. api.item \in Items BY <1>1, <1>4 DEF ConfirmCreates, RequestFits
  <2>3. RowsKept /\ Len(rows') = Len(rows) + 1 BY <1>1, <1>4, <2>2, Creates DEF ConfirmCreates
  <2>4. UNCHANGED <<sc, onDisk, parent, meta, batch>> /\ Len(rows) < MaxRows
    BY <1>4 DEF ConfirmCreates
  <2>5. Typed' BY <1>1, <2>1, <2>3, <2>4 DEF Typed, RowsKept
  <2>6. ASSUME NEW q \in Parents PROVE batch'[q] <= Len(rows')
    <3>1. batch[q] \in Nat /\ batch[q] <= Len(rows) BY <1>1 DEF Typed, Bounded
    <3> QED BY <1>1, <2>3, <2>4, <3>1
  <2>7. Bounded' BY <1>1, <2>3, <2>4, <2>6 DEF Bounded
  <2> QED BY <2>1, <2>3, <2>4, <2>5, <2>7
<1>5. CASE \/ \E p \in Parents, ids \in SUBSET Items : ConfirmReads(p, ids)
           \/ (\E i \in Items : ConfirmChecks(i)) \/ ConfirmWrites
  <2>1. api' \in Request /\ RequestFits' BY <1>5, RequestTyped DEF ConfirmStep
  <2>2. UNCHANGED <<sc, rows, onDisk, parent, batch>>
    BY <1>5 DEF ConfirmReads, ConfirmChecks, ConfirmWrites
  <2>3. meta' = meta \/ (ConfirmWrites /\ meta' = [meta EXCEPT ![api.of] = api.entries])
    BY <1>5 DEF ConfirmReads, ConfirmChecks, ConfirmWrites
  <2>4. api.entries \in Entries BY <1>1 DEF Typed, Request
  <2>5. meta' \in [Parents -> Entries \cup {NoMeta}] BY <1>1, <2>3, <2>4 DEF Typed
  <2> QED BY <1>1, <1>2, <2>1, <2>2, <2>5 DEF Typed, Bounded
<1>6. CASE \E n \in 1..MaxRows : ChildEnds(n)
  <2>1. PICK n : ChildEnds(n) BY <1>6
  <2>2. RowsKept /\ Len(rows') = Len(rows) /\ onDisk' \subseteq Items BY <1>1, <2>1, EndsRow
  <2>3. UNCHANGED <<sc, parent, meta, api, batch>> BY <2>1 DEF ChildEnds
  <2> QED BY <1>1, <2>2, <2>3 DEF Typed, Bounded, RequestFits, RowsKept
<1>10. CASE \E n \in 1..MaxRows : RetryChild(n)
  <2>1. PICK n : RetryChild(n) BY <1>10
  <2>2. RowsKept /\ Len(rows') = Len(rows) BY <1>1, <2>1, RetriesRow
  <2>3. UNCHANGED <<sc, onDisk, parent, meta, api, batch>> BY <2>1 DEF RetryChild
  <2> QED BY <1>1, <2>2, <2>3 DEF Typed, Bounded, RequestFits, RowsKept
<1>7. CASE (\E n \in 1..MaxRows : CooldownElapses(n)) \/ ClearHistory
  <2>1. RowsKept /\ Len(rows') = Len(rows) BY <1>1, <1>7, RestsRow
  <2>2. UNCHANGED <<sc, onDisk, meta, api, batch>> BY <1>7 DEF CooldownElapses, ClearHistory
  <2>3. parent' \in [Parents -> Parent]
    <3>1. CASE parent' = parent BY <1>1, <3>1 DEF Typed
    <3>2. CASE ClearHistory
      BY <1>1, <3>2, AtRestTyped DEF ClearHistory, Typed
    <3> QED BY <1>7, <3>1, <3>2 DEF CooldownElapses
  <2> QED BY <1>1, <2>1, <2>2, <2>3 DEF Typed, Bounded, RequestFits, RowsKept
<1>8. CASE \E i \in Items : FileRemoved(i)
  BY <1>1, <1>2, <1>8 DEF FileRemoved, Typed, Bounded, RequestFits
<1>9. CASE Crash
  <2>1. api' \in Request /\ RequestFits' BY <1>9, RequestTyped
  <2>2. parent' \in [Parents -> Parent] BY <1>1, <1>9, AtRestTyped DEF Crash, Typed
  <2> QED BY <1>1, <1>2, <1>9, <2>1, <2>2 DEF Crash, Typed, Bounded
<1> QED BY <1>3, <1>4, <1>5, <1>6, <1>7, <1>8, <1>9, <1>10 DEF Next, ConfirmStep

\* Every other step leaves a parent's row as it is or puts it to rest.
LEMMA OtherParents ==
  ASSUME Inv, Next, NEW p \in Parents, ~(ParentStep(p) \/ RetryParent(p))
  PROVE  \/ parent'[p] = parent[p]
         \/ /\ parent[p].status # "queued"
            /\ \E status \in {"queued", "cleared"} : parent'[p] = AtRest(status)
<1>1. CASE \E q \in Parents : ParentStep(q) \/ RetryParent(q)
  BY <1>1, ParentTyped DEF Others
<1>2. CASE ClearHistory \/ Crash BY <1>2 DEF ClearHistory, Crash
<1>3. CASE UNCHANGED parent BY <1>3
<1> QED
  BY <1>1, <1>2, <1>3 DEF Next, ConfirmStep, ConfirmReads, ConfirmChecks, ConfirmCreates,
     ConfirmWrites, ChildEnds, RetryChild, CooldownElapses, FileRemoved

\* One parent runs at a time.
LEMMA OneParentNext ==
  ASSUME Inv, Next
  PROVE  OneParent'
<1> USE AtRestTyped
<1>1. ASSUME NEW p \in Parents
      PROVE  /\ parent'[p].pc # "rest" => parent'[p].status = "running"
             /\ parent'[p].pc # "rest" => (parent[p].pc # "rest" \/ (ParentStarts(p) /\ SlotFree))
  <2>1. CASE ParentStep(p) \/ RetryParent(p) BY <2>1, ParentTyped
  <2>2. CASE ~(ParentStep(p) \/ RetryParent(p))
    BY <2>2, OtherParents DEF Inv, OneParent
  <2> QED BY <2>1, <2>2
<1>2. ASSUME NEW p \in Parents, NEW q \in Parents, parent'[p].pc # "rest", parent'[q].pc # "rest"
      PROVE  p = q
  <2>1. CASE parent[p].pc # "rest" /\ parent[q].pc # "rest" BY <2>1 DEF Inv, OneParent
  <2>2. CASE parent[p].pc = "rest" /\ SlotFree /\ ParentStarts(p)
    <3>1. parent[q].pc = "rest" BY <2>2 DEF SlotFree
    <3>2. Others(p) BY <2>2, ParentTyped DEF ParentStep
    <3> QED BY <1>2, <3>1, <3>2 DEF Others
  <2>3. CASE parent[q].pc = "rest" /\ SlotFree /\ ParentStarts(q)
    <3>1. parent[p].pc = "rest" BY <2>3 DEF SlotFree
    <3>2. Others(q) BY <2>3, ParentTyped DEF ParentStep
    <3> QED BY <1>2, <3>1, <3>2 DEF Others
  <2> QED BY <1>1, <1>2, <2>1, <2>2, <2>3
<1> QED BY <1>1, <1>2 DEF OneParent

-----------------------------------------------------------------------------
(* The runs of the parents.                                                *)

\* What a listing has seen is finite.
LEMMA SeenFinite ==
  ASSUME NEW r
  PROVE  IsFiniteSet(SeenOf(r)) /\ Cardinality(SeenOf(r)) \in Nat
<1>1. SeenOf(r) \in SUBSET Items BY DEF SeenOf
<1> QED BY <1>1, ItemsAssumption, FS_Subset, FS_CardinalityType

\* A row at rest fits.
LEMMA RestFits ==
  ASSUME Typed, NEW p \in Parents, NEW status \in {"queued", "running", "done", "failed", "cleared"}
  PROVE  RunFits(AtRest(status), Page(p), sc)
<1>1. SeenOf(AtRest(status)) = {} /\ AtRest(status).pc = "rest" BY AtRestTyped
<1>2. sc.limit \in Nat BY Scenario
<1>3. Cardinality({}) = 0 BY FS_EmptySet
<1> QED BY <1>1, <1>2, <1>3 DEF RunFits, Looking

\* A run with the same entries fits another place.
LEMMA PlaceFits ==
  ASSUME NEW r, NEW e, NEW page, NEW s, RunFits(r, page, s), e.entries = r.entries, r.pc # "rest",
         e.at = r.at \/ (r.pc = "loop" /\ \A k \in 1..Len(page) : k < e.at =>
                          \/ k < r.at \/ page[k] \in SeenOf(r)
                          \/ s.family = "listing" /\ Cardinality(SeenOf(r)) = s.limit),
         e.pc \in Looking => e.at <= Len(page) /\ page[e.at] \notin SeenOf(r),
         e.pc = "preflight" => s.family = "image",
         e.pc = "create" /\ s.family = "listing" =>
           s.mode # "confirm" /\ Cardinality(SeenOf(r)) < s.limit,
         e.pc = "written" => e.at > Len(page)
  PROVE  RunFits(e, page, s)
<1>1. SeenOf(e) = SeenOf(r) BY DEF SeenOf
<1>2. Accounts(r, page, s) BY DEF RunFits
<1>3. Accounts(e, page, s) BY <1>1, <1>2 DEF Accounts
<1> QED BY <1>1, <1>3 DEF RunFits

\* A run that has an answer for the item at its place goes on to the next.
LEMMA AnswerFits ==
  ASSUME Inv, NEW p \in Parents, NEW st \in EntryStatuses \ {"none"}, NEW c \in Nat,
         parent[p].pc # "rest", parent[p].at <= Len(Page(p)), Item(p) \notin Seen(p),
         sc.family = "listing" => Cardinality(Seen(p)) < sc.limit,
         NEW e, e = Advanced(p, st, c)
  PROVE  RunFits(e, Page(p), sc)
<1> DEFINE r == parent[p]
           page == Page(p)
           i == Item(p)
<1>1. /\ Typed /\ RunFits(r, page, sc) /\ page \in Seq(Items) /\ Len(page) \in Nat
      /\ sc.limit \in Nat /\ r.at \in Nat \ {0}
  BY Scenario DEF Inv, RunsFit, Parent
<1>2. /\ i \in Items /\ i = page[r.at] /\ e.pc = "loop" /\ e.at = r.at + 1
      /\ e.entries[i].status = st
      /\ \A k \in Items \ {i} : e.entries[k] = r.entries[k]
  BY <1>1, Answers
<1>3. SeenOf(e) = SeenOf(r) \cup {i} /\ i \notin SeenOf(r)
  BY <1>2 DEF SeenOf, Seen
<1>4. Cardinality(SeenOf(e)) = Cardinality(SeenOf(r)) + 1
  BY <1>3, SeenFinite, FS_AddElement
<1>5. sc.family = "listing" => Cardinality(SeenOf(e)) <= sc.limit
  <2>1. Seen(p) = SeenOf(r) BY DEF Seen, SeenOf
  <2>2. Cardinality(SeenOf(r)) \in Nat BY SeenFinite
  <2> QED BY <1>1, <1>4, <2>1, <2>2
<1>6. \A k \in SeenOf(e) : \E l \in 1..Len(page) : page[l] = k
  <2>1. r.at \in 1..Len(page) BY <1>1
  <2> QED BY <1>1, <1>2, <1>3, <2>1 DEF RunFits
<1>7. Accounts(e, page, sc)
  <2> SUFFICES ASSUME NEW k \in 1..Len(page), k < e.at PROVE page[k] \in SeenOf(e)
    BY DEF Accounts
  <2>1. CASE k = r.at BY <1>2, <1>3, <2>1
  <2>2. CASE k < r.at
    <3>1. Accounts(r, page, sc) BY <1>1 DEF RunFits
    <3>2. ~(sc.family = "listing" /\ Cardinality(SeenOf(r)) = sc.limit)
      <4>1. Seen(p) = SeenOf(r) BY DEF Seen, SeenOf
      <4>2. Cardinality(SeenOf(r)) \in Nat BY SeenFinite
      <4> QED BY <1>1, <4>1, <4>2
    <3> QED BY <1>3, <2>2, <3>1, <3>2 DEF Accounts
  <2> QED BY <1>1, <1>2, <2>1, <2>2
<1> QED BY <1>2, <1>5, <1>6, <1>7 DEF RunFits, Looking

\* A parent's thread stays in its page.
LEMMA ThreadFits ==
  ASSUME Inv, NEW p \in Parents, ParentStep(p) \/ RetryParent(p)
  PROVE  RunFits(parent'[p], Page(p), sc)
<1>1. /\ Typed /\ parent[p] \in Parent /\ Page(p) \in Seq(Items) /\ Len(Page(p)) \in Nat
      /\ parent[p].at \in Nat \ {0} /\ RunFits(parent[p], Page(p), sc) /\ sc.limit \in Nat
      /\ sc.family \in {"listing", "image"}
  BY Scenario DEF Inv, RunsFit, Parent
<1>2. Seen(p) = SeenOf(parent[p]) /\ Cardinality(Seen(p)) \in Nat
  BY SeenFinite DEF Seen, SeenOf
<1>3. CASE ParentStarts(p)
  <2>1. PICK e : e = [AtRest("running") EXCEPT !.pc = "loop"] OBVIOUS
  <2>2. e \in Parent /\ e.pc = "loop" /\ e.at = 1 /\ e.entries = NoEntries
    BY <2>1, AtRestTyped DEF Parent
  <2>3. parent'[p] = e BY <1>1, <1>3, <2>1, <2>2, Moved DEF ParentStarts, Move
  <2>4. SeenOf(e) = {} BY <2>2 DEF SeenOf, NoEntries
  <2>5. Cardinality({}) = 0 BY FS_EmptySet
  <2>6. Accounts(e, Page(p), sc) BY <1>1, <2>2 DEF Accounts
  <2> QED BY <1>1, <2>2, <2>3, <2>4, <2>5, <2>6 DEF RunFits, Looking
<1>4. CASE DiscoveryFails(p) \/ RetryParent(p)
  <2>1. PICK status \in {"failed", "queued"} : Move(p, AtRest(status))
    BY <1>4 DEF DiscoveryFails, RetryParent, Move
  <2>2. parent'[p] = AtRest(status) BY <1>1, <2>1, AtRestTyped, Moved
  <2> QED BY <1>1, <2>2, RestFits
<1>5. CASE ParentDone(p)
  <2>1. PICK e : e = [AtRest("done") EXCEPT !.entries = parent[p].entries] OBVIOUS
  <2>2. e \in Parent /\ e.pc = "rest" /\ e.entries = parent[p].entries
    BY <1>1, <2>1, AtRestTyped DEF Parent
  <2>3. parent'[p] = e BY <1>1, <1>5, <2>1, <2>2, Moved DEF ParentDone
  <2>4. SeenOf(e) = SeenOf(parent[p]) BY <2>2 DEF SeenOf
  <2> QED BY <1>1, <2>2, <2>3, <2>4 DEF RunFits, Looking
<1>6. CASE InLoop(p) /\ Item(p) \in Seen(p) /\ Move(p, [parent[p] EXCEPT !.at = @ + 1])
  <2>1. PICK e : e = [parent[p] EXCEPT !.at = @ + 1] OBVIOUS
  <2>2. parent[p].at + 1 \in Nat \ {0} BY <1>1
  <2>3. /\ e \in Parent /\ e.at = parent[p].at + 1 /\ e.pc = parent[p].pc
        /\ e.entries = parent[p].entries
    BY <1>1, <2>1, <2>2, RunMoves
  <2>4. parent'[p] = e BY <1>1, <1>6, <2>1, <2>3, Moved
  <2>5. \A k \in 1..Len(Page(p)) : k < e.at => k < parent[p].at \/ Page(p)[k] \in SeenOf(parent[p])
    BY <1>1, <1>2, <1>6, <2>3 DEF Item
  <2>6. parent[p].pc = "loop" BY <1>6 DEF InLoop
  <2> QED BY <1>1, <2>3, <2>4, <2>5, <2>6, PlaceFits DEF Looking
<1>7. CASE InLoop(p) /\ sc.family = "listing" /\ Full(p) /\ Move(p, [parent[p] EXCEPT !.at = Len(Page(p)) + 1])
  <2>1. PICK e : e = [parent[p] EXCEPT !.at = Len(Page(p)) + 1] OBVIOUS
  <2>2. Len(Page(p)) + 1 \in Nat \ {0} BY <1>1
  <2>3. /\ e \in Parent /\ e.at = Len(Page(p)) + 1 /\ e.pc = parent[p].pc
        /\ e.entries = parent[p].entries
    BY <1>1, <2>1, <2>2, RunMoves
  <2>4. parent'[p] = e BY <1>1, <1>7, <2>1, <2>3, Moved
  <2>5. Cardinality(SeenOf(parent[p])) = sc.limit BY <1>1, <1>2, <1>7 DEF Full, RunFits
  <2>6. parent[p].pc = "loop" BY <1>7 DEF InLoop
  <2> QED BY <1>1, <1>7, <2>3, <2>4, <2>5, <2>6, PlaceFits DEF Looking
<1>8. parent[p].pc \in Looking => parent[p].at <= Len(Page(p)) /\ Item(p) \notin Seen(p)
  BY <1>1, <1>2 DEF RunFits, Item
<1>9. ASSUME parent[p].pc # "rest", parent[p].at <= Len(Page(p)), Item(p) \notin Seen(p),
             sc.family = "listing" => ~Full(p),
             NEW st \in EntryStatuses \ {"none"}, NEW c \in Nat, Move(p, Advanced(p, st, c))
      PROVE  RunFits(parent'[p], Page(p), sc)
  <2>1. PICK e : e = Advanced(p, st, c) OBVIOUS
  <2>2. e \in Parent BY <1>1, <1>9, <2>1, Answers
  <2>3. parent'[p] = e BY <1>1, <1>9, <2>1, <2>2, Moved
  <2>4. sc.family = "listing" => Cardinality(Seen(p)) < sc.limit BY <1>1, <1>2, <1>9 DEF Full
  <2> QED BY <1>9, <2>1, <2>3, <2>4, AnswerFits
<1>10. ASSUME parent[p].pc # "rest", NEW pc \in {"preflight", "create", "written"},
              Move(p, [parent[p] EXCEPT !.pc = pc]),
              pc \in Looking => parent[p].at <= Len(Page(p)) /\ Item(p) \notin Seen(p),
              pc = "preflight" => sc.family = "image",
              pc = "create" /\ sc.family = "listing" => sc.mode # "confirm" /\ ~Full(p),
              pc = "written" => parent[p].at > Len(Page(p))
       PROVE  RunFits(parent'[p], Page(p), sc)
  <2>1. PICK e : e = [parent[p] EXCEPT !.pc = pc] OBVIOUS
  <2>2. e \in Parent /\ e.pc = pc /\ e.at = parent[p].at /\ e.entries = parent[p].entries
    BY <1>1, <2>1, Placed
  <2>3. parent'[p] = e BY <1>1, <1>10, <2>1, <2>2, Moved
  <2>4. ~Full(p) => Cardinality(SeenOf(parent[p])) < sc.limit BY <1>1, <1>2 DEF Full
  <2>5. Item(p) = Page(p)[parent[p].at] BY DEF Item
  <2> QED BY <1>1, <1>2, <1>10, <2>2, <2>3, <2>4, <2>5, PlaceFits
<1>11. CASE /\ InLoop(p) /\ Item(p) \notin Seen(p) /\ (sc.family = "listing" => ~Full(p))
            /\ \E st \in EntryStatuses \ {"none", "queued"} : Move(p, Advanced(p, st, 0))
  <2>1. PICK st \in EntryStatuses \ {"none", "queued"} : Move(p, Advanced(p, st, 0)) BY <1>11
  <2>2. st \in EntryStatuses \ {"none"} BY <2>1
  <2> QED BY <1>9, <1>11, <2>1, <2>2 DEF InLoop
<1>12. CASE /\ InLoop(p) /\ Item(p) \notin Seen(p)
            /\ \/ /\ sc.family = "listing" /\ ~Full(p) /\ sc.mode # "confirm"
                  /\ Move(p, [parent[p] EXCEPT !.pc = "create"])
               \/ sc.family = "image" /\ Move(p, [parent[p] EXCEPT !.pc = "preflight"])
  BY <1>10, <1>12 DEF InLoop
<1>13. CASE /\ parent[p].pc = "preflight"
            /\ \/ \E st \in {"unavailable", "skipped_limit"} : Move(p, Advanced(p, st, 0))
               \/ Move(p, [parent[p] EXCEPT !.pc = "create"])
  <2>1. sc.family = "image" BY <1>1, <1>13 DEF RunFits
  <2>2. {"unavailable", "skipped_limit"} \subseteq EntryStatuses \ {"none"} BY DEF EntryStatuses
  <2> QED BY <1>8, <1>9, <1>10, <1>13, <2>1, <2>2 DEF Looking
<1>14. CASE parent[p].pc = "create" /\ Move(p, Advanced(p, "queued", NewId))
  <2>1. "queued" \in EntryStatuses \ {"none"} /\ NewId \in Nat
    BY <1>1 DEF EntryStatuses, NewId, Typed
  <2>2. sc.family = "listing" => ~Full(p) BY <1>1, <1>2, <1>14 DEF RunFits, Full
  <2> QED BY <1>8, <1>9, <1>14, <2>1, <2>2 DEF Looking
<1>15. CASE parent[p].pc = "loop" /\ parent[p].at > Len(Page(p)) /\ Move(p, [parent[p] EXCEPT !.pc = "written"])
  BY <1>10, <1>15 DEF Looking
<1> QED
  BY <1>1, <1>3, <1>4, <1>5, <1>6, <1>7, <1>11, <1>12, <1>13, <1>14, <1>15, ThreadRow

\* Every step leaves the runs of the parents in their pages.
LEMMA RunsFitNext ==
  ASSUME Inv, Next, sc' = sc
  PROVE  RunsFit'
<1>1. SUFFICES ASSUME NEW p \in Parents PROVE RunFits(parent'[p], Page(p), sc)
  BY DEF RunsFit, Page
<1>2. CASE ParentStep(p) \/ RetryParent(p) BY <1>2, ThreadFits
<1>3. CASE parent'[p] = parent[p] BY <1>3 DEF Inv, RunsFit
<1>4. CASE \E status \in {"queued", "cleared"} : parent'[p] = AtRest(status)
  BY <1>4, RestFits DEF Inv
<1> QED BY <1>2, <1>3, <1>4, OtherParents

-----------------------------------------------------------------------------
(* What became of the items of a page.                                     *)

AccountedFor(r, p) ==
  LET on == {Page(p)[i] : i \in DOMAIN Page(p)}
      missing == {i \in on : r.entries[i].status = "none"}
  IN  missing # {} => sc.family = "listing" /\ Cardinality(on \ missing) = sc.limit

\* A run that has written its page accounts for its items.
LEMMA WrittenAccounts ==
  ASSUME Inv, NEW p \in Parents, parent[p].pc = "written",
         NEW r, r.entries = parent[p].entries
  PROVE  AccountedFor(r, p)
<1> DEFINE page == Page(p)
           on == {page[i] : i \in DOMAIN page}
           missing == {i \in on : r.entries[i].status = "none"}
<1>1. /\ page \in Seq(Items) /\ Len(page) \in Nat /\ parent[p].at \in Nat
      /\ RunFits(parent[p], page, sc)
  BY Scenario DEF Inv, RunsFit, Parent
<1>2. parent[p].at > Len(page) /\ Accounts(parent[p], page, sc) BY <1>1 DEF RunFits
<1>3. DOMAIN page = 1..Len(page) /\ on \subseteq Items BY <1>1
<1>4. SeenOf(parent[p]) \subseteq on BY <1>1, <1>3 DEF RunFits
<1>5. on \ missing = SeenOf(parent[p]) BY <1>3, <1>4 DEF SeenOf
<1>6. ASSUME missing # {} PROVE sc.family = "listing" /\ Cardinality(SeenOf(parent[p])) = sc.limit
  <2>1. PICK i \in missing : TRUE BY <1>6
  <2>2. PICK k \in 1..Len(page) : page[k] = i BY <1>3, <2>1
  <2>3. i \notin SeenOf(parent[p]) /\ k < parent[p].at BY <1>1, <1>2, <2>1, <2>2 DEF SeenOf
  <2> QED BY <1>2, <2>2, <2>3 DEF Accounts
<1> QED BY <1>5, <1>6 DEF AccountedFor

\* Every step accounts for the items of a page.
LEMMA AccountedNext ==
  ASSUME Inv, Next, sc' = sc
  PROVE  ItemsAccounted'
<1>1. SUFFICES ASSUME NEW p \in Parents, parent'[p].status = "done"
               PROVE  AccountedFor(parent'[p], p)
  BY DEF ItemsAccounted, AccountedFor, Page
<1>2. CASE ParentStep(p) \/ RetryParent(p)
  <2>1. ParentDone(p) BY <1>1, <1>2, ParentTyped
  <2>2. PICK e : e = [AtRest("done") EXCEPT !.entries = parent[p].entries] OBVIOUS
  <2>3. Typed /\ parent[p] \in Parent BY Scenario DEF Inv
  <2>4. e \in Parent /\ e.entries = parent[p].entries BY <2>2, <2>3, AtRestTyped DEF Parent
  <2>5. parent'[p] = e BY <2>1, <2>2, <2>3, <2>4, Moved DEF ParentDone
  <2> QED BY <2>1, <2>4, <2>5, WrittenAccounts DEF ParentDone
<1>3. CASE parent'[p] = parent[p]
  BY <1>1, <1>3 DEF Inv, ItemsAccounted, AccountedFor
<1>4. CASE \E status \in {"queued", "cleared"} : parent'[p] = AtRest(status)
  BY <1>1, <1>4 DEF AtRest
<1> QED BY <1>2, <1>3, <1>4, OtherParents

-----------------------------------------------------------------------------
(* What is called queued has its job.                                      *)

\* Jobs are not lost.
LEMMA ChildrenKept ==
  ASSUME Typed, RowsKept, NEW e, HasChildren(e, rows)
  PROVE  HasChildren(e, rows')
<1>1. Len(rows) \in Nat /\ Len(rows') \in Nat BY DEF Typed, RowsKept
<1>2. \A n \in 1..Len(rows) : n \in 1..Len(rows') /\ rows'[n].item = rows[n].item
  BY <1>1 DEF RowsKept
<1> QED BY <1>2 DEF HasChildren

\* Nothing is queued in a row without entries.
LEMMA NothingQueued == ASSUME NEW m PROVE HasChildren(NoEntries, m)
BY DEF NoEntries, HasChildren

\* An answer that is not of a new job.
LEMMA AnswerKnown ==
  ASSUME NEW e, NEW m, HasChildren(e, m), NEW i \in Items,
         NEW f, \A k \in Items \ {i} : f[k] = e[k],
         f[i].status = "queued" => f[i].child \in 1..Len(m) /\ m[f[i].child].item = i
  PROVE  HasChildren(f, m)
<1> SUFFICES ASSUME NEW k \in Items, f[k].status = "queued"
             PROVE  f[k].child \in 1..Len(m) /\ m[f[k].child].item = k
  BY DEF HasChildren
<1>1. CASE k = i BY <1>1
<1>2. CASE k # i BY <1>2 DEF HasChildren
<1> QED BY <1>1, <1>2

\* The children a parent's thread names have rows.
LEMMA ThreadKnown ==
  ASSUME Inv, RowsKept, NEW p \in Parents, ParentStep(p) \/ RetryParent(p)
  PROVE  HasChildren(parent'[p].entries, rows')
<1>1. /\ Typed /\ parent[p] \in Parent /\ Page(p) \in Seq(Items) /\ Len(Page(p)) \in Nat
      /\ parent[p].at \in Nat \ {0} /\ parent[p].entries \in Entries
  BY Scenario DEF Inv, Parent
<1>2. HasChildren(parent[p].entries, rows) BY DEF Inv, ChildrenKnown
<1>3. HasChildren(parent[p].entries, rows') BY <1>1, <1>2, ChildrenKept
<1>4. ASSUME NEW e \in Parent, Move(p, e), e.entries = parent[p].entries \/ e.entries = NoEntries
      PROVE  HasChildren(parent'[p].entries, rows')
  BY <1>1, <1>3, <1>4, Moved, NothingQueued
<1>5. CASE ParentStarts(p)
  <2>1. PICK e : e = [AtRest("running") EXCEPT !.pc = "loop"] OBVIOUS
  <2>2. e \in Parent /\ e.entries = NoEntries BY <2>1, AtRestTyped DEF Parent
  <2>3. Move(p, e) BY <1>5, <2>1 DEF ParentStarts, Move
  <2> QED BY <1>4, <2>2, <2>3
<1>6. CASE DiscoveryFails(p) \/ RetryParent(p)
  <2>1. PICK status \in {"failed", "queued"} : Move(p, AtRest(status))
    BY <1>6 DEF DiscoveryFails, RetryParent, Move
  <2> QED BY <1>4, <2>1, AtRestTyped
<1>7. CASE ParentDone(p)
  <2>1. PICK e : e = [AtRest("done") EXCEPT !.entries = parent[p].entries] OBVIOUS
  <2>2. e \in Parent /\ e.entries = parent[p].entries BY <1>1, <2>1, AtRestTyped DEF Parent
  <2> QED BY <1>4, <1>7, <2>1, <2>2 DEF ParentDone
<1>8. ASSUME NEW n \in Nat \ {0}, Move(p, [parent[p] EXCEPT !.at = n])
      PROVE  HasChildren(parent'[p].entries, rows')
  BY <1>1, <1>4, <1>8, RunMoves
<1>9. CASE Move(p, [parent[p] EXCEPT !.at = @ + 1])
  <2>1. parent[p].at + 1 \in Nat \ {0} BY <1>1
  <2> QED BY <1>8, <1>9, <2>1
<1>10. CASE Move(p, [parent[p] EXCEPT !.at = Len(Page(p)) + 1])
  <2>1. Len(Page(p)) + 1 \in Nat \ {0} BY <1>1
  <2> QED BY <1>8, <1>10, <2>1
<1>11. ASSUME NEW pc \in {"preflight", "create", "written"}, Move(p, [parent[p] EXCEPT !.pc = pc])
       PROVE  HasChildren(parent'[p].entries, rows')
  BY <1>1, <1>4, <1>11, Placed
<1>12. ASSUME parent[p].at <= Len(Page(p)), NEW st \in EntryStatuses, NEW c \in Nat,
              Move(p, Advanced(p, st, c)),
              st = "queued" => c \in 1..Len(rows') /\ rows'[c].item = Item(p)
       PROVE  HasChildren(parent'[p].entries, rows')
  <2>1. PICK e : e = Advanced(p, st, c) OBVIOUS
  <2>2. /\ Item(p) \in Items /\ e \in Parent
        /\ e.entries[Item(p)].status = st /\ e.entries[Item(p)].child = c
        /\ \A i \in Items \ {Item(p)} : e.entries[i] = parent[p].entries[i]
    BY <1>1, <1>12, <2>1, Answers
  <2>3. parent'[p] = e BY <1>1, <1>12, <2>1, <2>2, Moved
  <2>4. HasChildren(e.entries, rows') BY <1>3, <1>12, <2>2, AnswerKnown
  <2> QED BY <2>3, <2>4
<1>13. parent[p].pc \in Looking => parent[p].at <= Len(Page(p))
  BY DEF Inv, RunsFit, RunFits
<1>14. CASE InLoop(p) /\ \E st \in EntryStatuses \ {"none", "queued"} : Move(p, Advanced(p, st, 0))
  <2>1. PICK st \in EntryStatuses \ {"none", "queued"} : Move(p, Advanced(p, st, 0)) BY <1>14
  <2> QED BY <1>12, <1>14, <2>1 DEF InLoop
<1>15. CASE /\ parent[p].pc = "preflight"
            /\ \/ \E st \in {"unavailable", "skipped_limit"} : Move(p, Advanced(p, st, 0))
               \/ Move(p, [parent[p] EXCEPT !.pc = "create"])
  <2>1. {"unavailable", "skipped_limit"} \subseteq EntryStatuses \ {"queued"} BY DEF EntryStatuses
  <2> QED BY <1>11, <1>12, <1>13, <1>15, <2>1 DEF Looking
<1>16. CASE parent[p].pc = "create" /\ CreateJob(Item(p)) /\ Move(p, Advanced(p, "queued", NewId))
  <2>1. parent[p].at <= Len(Page(p)) BY <1>13, <1>16 DEF Looking
  <2>2. Item(p) \in Items BY <1>1, <2>1 DEF Item
  <2>3. PICK c : c = NewId OBVIOUS
  <2>4. /\ c \in Nat /\ c = Len(rows) + 1 /\ Len(rows') = Len(rows) + 1
        /\ rows'[c].item = Item(p)
    <3>1. /\ NewId \in Nat /\ NewId = Len(rows) + 1 /\ Len(rows') = Len(rows) + 1
          /\ rows'[Len(rows) + 1] = [item |-> Item(p), status |-> "active", recent |-> FALSE]
      BY <1>1, <1>16, <2>2, Creates
    <3> QED BY <2>3, <3>1
  <2>5. c \in 1..Len(rows') BY <1>1, <2>4 DEF Typed
  <2>6. "queued" \in EntryStatuses BY DEF EntryStatuses
  <2> QED BY <1>12, <1>16, <2>1, <2>3, <2>4, <2>5, <2>6
<1> QED
  BY <1>1, <1>5, <1>6, <1>7, <1>9, <1>10, <1>11, <1>14, <1>15, <1>16, ThreadRow

\* The request: what it creates, and what it finds.
LEMMA RequestKnown ==
  ASSUME Inv, RowsKept,
         ConfirmStep \/ Crash \/ \E p \in Parents, ids \in SUBSET Items : ConfirmReads(p, ids)
  PROVE  HasChildren(api'.entries, rows')
<1>1. Typed /\ api \in Request /\ RequestFits BY DEF Inv, Typed
<1>2. HasChildren(api.entries, rows') BY <1>1, ChildrenKept DEF Inv, ChildrenKnown
<1>3. ASSUME NEW i, NEW e, e = Answered(i) PROVE e.entries = api.entries /\ DOMAIN e = DOMAIN api
  BY <1>1, <1>3 DEF Answered, Request
<1>4. api.entries \in Entries BY <1>1 DEF Request
<1>5. CASE \E p \in Parents, ids \in SUBSET Items : ConfirmReads(p, ids)
  <2>1. PICK p \in Parents, ids \in SUBSET Items : ConfirmReads(p, ids) BY <1>5
  <2>2. HasChildren(meta[p], rows') BY <1>1, <2>1, ChildrenKept DEF ConfirmReads, Inv, ChildrenKnown
  <2>3. api'.entries = meta[p] BY <2>1 DEF ConfirmReads
  <2> QED BY <2>2, <2>3
<1>6. CASE \E i \in Items : ConfirmChecks(i)
  <2>1. PICK i \in Items : ConfirmChecks(i) BY <1>6
  <2>2. PICK st : st = GalleryState(i) OBVIOUS
  <2>3. PICK e : e = Answered(i) OBVIOUS
  <2>4. api' = IF AlreadyAsked(i) THEN e ELSE IF st # "none" THEN [e EXCEPT !.entries[i].status = st]
                 ELSE [api EXCEPT !.pc = "create", !.item = i]
    BY <2>1, <2>2, <2>3 DEF ConfirmChecks
  <2>5. e.entries = api.entries /\ DOMAIN e = DOMAIN api BY <1>3, <2>3
  <2>6. DOMAIN api = {"pc", "of", "item", "left", "entries"} BY <1>1 DEF Request
  <2>7. CASE api' = e BY <1>2, <2>5, <2>7
  <2>8. CASE api' = [e EXCEPT !.entries[i].status = st]
    <3>1. PICK f : f = [e.entries EXCEPT ![i].status = st] OBVIOUS
    <3>2. api'.entries = f BY <2>5, <2>6, <2>8, <3>1
    <3>3. f[i].status = st /\ \A k \in Items \ {i} : f[k] = api.entries[k]
      BY <1>4, <2>5, <3>1 DEF Entries, Entry
    <3>4. st # "queued" BY <2>2, Known
    <3> QED BY <1>2, <3>2, <3>3, <3>4, AnswerKnown
  <2>9. CASE api' = [api EXCEPT !.pc = "create", !.item = i]
    <3>1. api'.entries = api.entries BY <1>1, <2>9 DEF Request
    <3> QED BY <1>2, <3>1
  <2> QED BY <2>4, <2>7, <2>8, <2>9
<1>7. CASE ConfirmCreates
  <2>1. PICK i : i = api.item OBVIOUS
  <2>2. i \in Items BY <1>1, <1>7, <2>1 DEF ConfirmCreates, RequestFits
  <2>3. PICK e : e = Answered(i) OBVIOUS
  <2>4. PICK c : c = NewId OBVIOUS
  <2>5. api' = [e EXCEPT !.entries[i] = [status |-> "queued", child |-> c]]
    BY <1>7, <2>1, <2>3, <2>4 DEF ConfirmCreates
  <2>6. PICK f : f = [e.entries EXCEPT ![i] = [status |-> "queued", child |-> c]] OBVIOUS
  <2>7. e.entries = api.entries /\ DOMAIN e = {"pc", "of", "item", "left", "entries"}
    BY <1>1, <1>3, <2>3 DEF Request
  <2>8. api'.entries = f BY <2>5, <2>6, <2>7
  <2>9. f[i].child = c /\ \A k \in Items \ {i} : f[k] = api.entries[k]
    BY <1>4, <2>2, <2>6, <2>7 DEF Entries
  <2>10. c = Len(rows) + 1 /\ Len(rows') = Len(rows) + 1 /\ rows'[c].item = i
    <3>1. CreateJob(i) BY <1>7, <2>1 DEF ConfirmCreates
    <3>2. /\ NewId = Len(rows) + 1 /\ Len(rows') = Len(rows) + 1
          /\ rows'[Len(rows) + 1] = [item |-> i, status |-> "active", recent |-> FALSE]
      BY <1>1, <2>2, <3>1, Creates
    <3> QED BY <2>4, <3>2
  <2>11. c \in 1..Len(rows') BY <1>1, <2>10 DEF Typed
  <2> QED BY <1>2, <2>2, <2>8, <2>9, <2>10, <2>11, AnswerKnown
<1>8. CASE ConfirmWrites \/ Crash
  <2>1. api' = NoRequest BY <1>8 DEF ConfirmWrites, Crash
  <2>2. api'.entries = NoEntries BY <2>1 DEF NoRequest
  <2> QED BY <2>2, NothingQueued
<1> QED BY <1>5, <1>6, <1>7, <1>8 DEF ConfirmStep

\* No step makes a parent name a child without a row.
LEMMA ChildrenNext ==
  ASSUME Inv, Next, RowsKept
  PROVE  ChildrenKnown'
<1>1. Typed BY DEF Inv
<1>2. ASSUME NEW e, HasChildren(e, rows) PROVE HasChildren(e, rows')
  BY <1>1, <1>2, ChildrenKept
<1>3. ASSUME NEW p \in Parents PROVE HasChildren(parent'[p].entries, rows')
  <2>1. CASE ParentStep(p) \/ RetryParent(p) BY <2>1, ThreadKnown
  <2>2. CASE parent'[p] = parent[p] BY <1>2, <2>2 DEF Inv, ChildrenKnown
  <2>3. CASE \E status \in {"queued", "cleared"} : parent'[p] = AtRest(status)
    BY <2>3, NothingQueued DEF AtRest
  <2> QED BY <2>1, <2>2, <2>3, OtherParents
<1>4. ASSUME NEW p \in Parents, meta'[p] # NoMeta PROVE HasChildren(meta'[p], rows')
  <2>1. CASE meta'[p] = meta[p] BY <1>2, <1>4, <2>1 DEF Inv, ChildrenKnown
  <2>2. CASE \E q \in Parents : WriteListing(q)
    BY <1>1, <1>2, <2>1, <2>2 DEF WriteListing, Inv, ChildrenKnown, Typed
  <2>3. CASE ConfirmWrites
    BY <1>1, <1>2, <2>1, <2>3 DEF ConfirmWrites, Inv, ChildrenKnown, Typed
  <2>4. CASE UNCHANGED meta BY <2>1, <2>4
  <2> QED
    BY <2>2, <2>3, <2>4 DEF Next, ParentStep, RetryParent, ParentStarts, DiscoveryFails, SkipSeen,
       ListingLimit, CheckGallery, CheckResource, PreflightResource, CreateChild,
       CreateGalleryJob, CreateResourceJob, ParentDone,
       ConfirmReads, ConfirmStep, ConfirmChecks, ConfirmCreates, ChildEnds, RetryChild, CooldownElapses,
       FileRemoved, ClearHistory, Crash
<1>5. HasChildren(api'.entries, rows')
  <2>1. CASE \/ ConfirmStep \/ Crash
             \/ \E p \in Parents, ids \in SUBSET Items : ConfirmReads(p, ids)
    BY <2>1, RequestKnown
  <2>2. CASE UNCHANGED api BY <1>2, <2>2 DEF Inv, ChildrenKnown
  <2> QED
    BY <2>1, <2>2 DEF Next, ParentStep, RetryParent, ParentStarts, DiscoveryFails, SkipSeen,
       ListingLimit, CheckGallery, CheckResource, PreflightResource, CreateChild,
       CreateGalleryJob, CreateResourceJob, WriteListing,
       ParentDone, ChildEnds, RetryChild, CooldownElapses, FileRemoved, ClearHistory
<1> QED BY <1>3, <1>4, <1>5 DEF ChildrenKnown

-----------------------------------------------------------------------------
(* The invariant.                                                          *)

\* The invariant holds at first.
LEMMA InitInv ==
  ASSUME Init
  PROVE  Inv
<1>1. ASSUME NEW p \in Parents PROVE parent[p] = AtRest("queued")
  BY DEF Init
<1>2. NoEntries \in Entries /\ AtRest("queued") \in Parent BY AtRestTyped
<1>3. NoRequest \in Request BY <1>2 DEF NoRequest, Request
<1>4. rows \in Seq(Child) /\ Len(rows) = 0 BY DEF Init
<1>5. parent \in [Parents -> Parent] BY <1>2 DEF Init
<1>6. meta \in [Parents -> Entries \cup {NoMeta}] /\ batch \in [Parents -> Nat] BY DEF Init
<1>7. Typed BY <1>3, <1>4, <1>5, <1>6 DEF Init, Typed
<1>8. Bounded BY <1>4, MaxRowsAssumption DEF Init, Bounded
<1>9. OneParent BY <1>1 DEF AtRest, OneParent
<1>10. RequestFits BY DEF Init, NoRequest, RequestFits
<1>11. RunsFit BY <1>1, <1>7, RestFits DEF RunsFit
<1>12. \A p \in Parents : HasChildren(parent[p].entries, rows)
  BY <1>1, NothingQueued DEF AtRest
<1>13. HasChildren(api.entries, rows) BY NothingQueued DEF Init, NoRequest
<1>14. \A p \in Parents : meta[p] = NoMeta BY DEF Init
<1>15. ChildrenKnown BY <1>12, <1>13, <1>14 DEF ChildrenKnown
<1>16. ItemsAccounted BY <1>1 DEF AtRest, ItemsAccounted
<1> QED BY <1>7, <1>8, <1>9, <1>10, <1>11, <1>15, <1>16 DEF Inv

\* Every step keeps the invariant.
LEMMA NextInv ==
  ASSUME Inv, [Next]_vars
  PROVE  Inv'
<1>1. CASE Next
  <2>1. Typed' /\ RowsKept /\ Bounded' /\ RequestFits' /\ sc' = sc BY <1>1, TypedNext
  <2>2. OneParent' BY <1>1, OneParentNext
  <2>3. RunsFit' BY <1>1, <2>1, RunsFitNext
  <2>4. ChildrenKnown' BY <1>1, <2>1, ChildrenNext
  <2>5. ItemsAccounted' BY <1>1, <2>1, AccountedNext
  <2> QED BY <2>1, <2>2, <2>3, <2>4, <2>5 DEF Inv
<1>2. CASE UNCHANGED vars
  <2>1. Typed' /\ Bounded' /\ OneParent' /\ RequestFits'
    BY <1>2 DEF vars, Inv, Typed, Bounded, OneParent, RequestFits
  <2>2. RunsFit' BY <1>2 DEF vars, Inv, RunsFit, Page
  <2>3. ChildrenKnown' BY <1>2 DEF vars, Inv, ChildrenKnown
  <2>4. ItemsAccounted'
    <3>1. sc' = sc /\ parent' = parent BY <1>2 DEF vars
    <3> QED BY <3>1 DEF Inv, ItemsAccounted, Page
  <2> QED BY <2>1, <2>2, <2>3, <2>4 DEF Inv
<1> QED BY <1>1, <1>2

\* The invariant always holds.
LEMMA InvAlways == Spec => []Inv
<1>1. Init => Inv BY InitInv
<1>2. Inv /\ [Next]_vars => Inv' BY NextInv
<1> QED BY <1>1, <1>2, PTL DEF Spec

(* A parent that is done has accounted for every item of its page, and     *)
(* what the listing's file calls queued has a job of that gallery.         *)
THEOREM ListingHolds == Spec => []ListingIsTrue
<1>1. ASSUME Inv PROVE ListingIsTrue
  <2>1. \A p \in Parents : meta[p] # NoMeta => HasChildren(meta[p], rows) /\ DOMAIN rows = 1..Len(rows)
    BY <1>1 DEF Inv, ChildrenKnown, Typed
  <2>2. QueuedHasChild BY <2>1 DEF QueuedHasChild, HasChildren
  <2> QED BY <1>1, <2>2 DEF Inv, ListingIsTrue
<1>2. Inv => ListingIsTrue BY <1>1
<1> QED BY <1>2, InvAlways, PTL

\* An item that is crossed is one.
LEMMA CrossedTyped ==
  ASSUME Inv, crossed \subseteq Items, [Next]_vars
  PROVE  (crossed \subseteq Items)'
<1>1. AwaitedByRequest \subseteq Items BY DEF Inv, RequestFits, AwaitedByRequest
<1>2. AwaitedByParents \subseteq Items
  <2> SUFFICES ASSUME NEW p \in Parents, parent[p].pc \in Looking PROVE Item(p) \in Items
    BY DEF AwaitedByParents, Looking
  <2>1. parent[p].at <= Len(Page(p)) BY DEF Inv, RunsFit, RunFits
  <2> QED BY <2>1, Scenario DEF Inv, Item, Parent
<1>3. \/ crossed' \subseteq crossed
      \/ crossed' \subseteq crossed \cup AwaitedByParents \cup AwaitedByRequest
  BY DEF vars, Next, ParentStep, RetryParent, ParentStarts, DiscoveryFails, SkipSeen,
     ListingLimit, CheckGallery, CheckResource, PreflightResource, CreateChild,
     CreateGalleryJob, CreateResourceJob, WriteListing, ParentDone, ConfirmReads, ConfirmStep,
     ConfirmChecks, ConfirmCreates, ConfirmWrites, ChildEnds, RetryChild, CooldownElapses,
     FileRemoved, ClearHistory, Crash
<1> QED BY <1>1, <1>2, <1>3

(* The variables keep their types, and no run creates more jobs than there *)
(* are rows.                                                               *)
THEOREM Typing == Spec => []TypeOK
<1>1. ASSUME Inv, crossed \subseteq Items PROVE TypeOK
  <2>1. Typed /\ Bounded BY <1>1 DEF Inv
  <2>2. \A n \in DOMAIN rows : rows[n].item \in Items /\ rows[n].status \in RowStatuses
    <3>1. \A n \in DOMAIN rows : rows[n] \in Child BY <2>1 DEF Typed
    <3> QED BY <3>1 DEF Child
  <2>3. \A p \in Parents : batch[p] \in 0..MaxRows
    BY <2>1, MaxRowsAssumption DEF Typed, Bounded
  <2>4. ASSUME NEW p \in Parents
        PROVE  /\ parent[p].status \in {"queued", "running", "done", "failed", "cleared"}
               /\ parent[p].pc \in {"rest", "loop", "preflight", "create", "written"}
               /\ \A i \in Items : parent[p].entries[i].status \in EntryStatuses
    <3>1. parent[p] \in Parent BY <2>1 DEF Typed
    <3>2. parent[p].entries \in Entries BY <3>1 DEF Parent
    <3>3. \A i \in Items : parent[p].entries[i] \in Entry BY <3>2 DEF Entries
    <3> QED BY <3>1, <3>3 DEF Parent, Entry
  <2>5. api.pc \in {"none", "loop", "create"} /\ api.left \subseteq Items
    BY <2>1 DEF Typed, Request
  <2>6. sc \in Scenarios /\ onDisk \subseteq Items BY <2>1 DEF Typed
  <2> QED BY <1>1, <2>2, <2>3, <2>4, <2>5, <2>6 DEF TypeOK
<1>2. Inv /\ crossed \subseteq Items => TypeOK BY <1>1
<1>3. Init => crossed \subseteq Items BY DEF Init
<1>4. Inv /\ crossed \subseteq Items /\ [Next]_vars => (crossed \subseteq Items)'
  BY CrossedTyped
<1> QED BY <1>2, <1>3, <1>4, InvAlways, PTL DEF Spec

-----------------------------------------------------------------------------
(* Between the look at an item and the job that is created for it.         *)

\* The item a parent is at has not changed while it looks, and no row has:
\* it has just found nothing of it, or was looking before.
LEMMA LooksOn ==
  ASSUME Inv, NEW p \in Parents, ParentStep(p) \/ RetryParent(p), parent'[p].pc \in Looking
  PROVE  /\ rows' = rows /\ parent'[p].at = parent[p].at
         /\ \/ parent[p].pc \in Looking
            \/ ExistingState(Item(p)) = "none"
<1>1. /\ Typed /\ parent[p] \in Parent /\ Page(p) \in Seq(Items) /\ Len(Page(p)) \in Nat
      /\ parent[p].at \in Nat \ {0}
  BY Scenario DEF Inv, Parent
<1>2. parent[p].pc \in Looking => parent[p].at <= Len(Page(p))
  BY DEF Inv, RunsFit, RunFits
<1>3. ASSUME NEW e \in Parent, Move(p, e), e.pc \notin Looking PROVE FALSE
  BY <1>1, <1>3, Moved
<1>4. ASSUME parent[p].at <= Len(Page(p)), NEW st \in EntryStatuses, NEW c \in Nat,
             Move(p, Advanced(p, st, c))
      PROVE  FALSE
  BY <1>1, <1>3, <1>4, Answers DEF Looking
<1>5. ~ParentStarts(p)
  <2> SUFFICES ASSUME ParentStarts(p) PROVE FALSE OBVIOUS
  <2>1. PICK e : e = [AtRest("running") EXCEPT !.pc = "loop"] OBVIOUS
  <2>2. e \in Parent /\ e.pc = "loop" BY <2>1, AtRestTyped DEF Parent
  <2>3. Move(p, e) BY <2>1 DEF ParentStarts, Move
  <2> QED BY <1>3, <2>2, <2>3 DEF Looking
<1>6. ~(DiscoveryFails(p) \/ RetryParent(p))
  <2> SUFFICES ASSUME NEW status \in {"failed", "queued"}, Move(p, AtRest(status)) PROVE FALSE
    BY DEF DiscoveryFails, RetryParent, Move
  <2> QED BY <1>3, AtRestTyped DEF Looking
<1>7. ~ParentDone(p)
  <2> SUFFICES ASSUME ParentDone(p) PROVE FALSE OBVIOUS
  <2>1. PICK e : e = [AtRest("done") EXCEPT !.entries = parent[p].entries] OBVIOUS
  <2>2. e \in Parent /\ e.pc = "rest" BY <1>1, <2>1, AtRestTyped DEF Parent
  <2> QED BY <1>3, <2>1, <2>2 DEF ParentDone, Looking
<1>8. ASSUME NEW n \in Nat \ {0}, parent[p].pc = "loop", Move(p, [parent[p] EXCEPT !.at = n])
      PROVE  FALSE
  BY <1>1, <1>3, <1>8, RunMoves DEF Looking
<1>9. ASSUME InLoop(p) /\ (Move(p, [parent[p] EXCEPT !.at = @ + 1]) \/ Move(p, [parent[p] EXCEPT !.at = Len(Page(p)) + 1]))
      PROVE  FALSE
  <2>1. parent[p].at + 1 \in Nat \ {0} /\ Len(Page(p)) + 1 \in Nat \ {0} BY <1>1
  <2> QED BY <1>8, <1>9, <2>1 DEF InLoop
<1>10. ASSUME InLoop(p) /\ \E st \in EntryStatuses \ {"none", "queued"} : Move(p, Advanced(p, st, 0))
       PROVE  FALSE
  <2>1. PICK st \in EntryStatuses \ {"none", "queued"} : Move(p, Advanced(p, st, 0)) BY <1>10
  <2> QED BY <1>4, <1>10, <2>1 DEF InLoop
<1>11. ASSUME parent[p].pc = "preflight" /\ \E st \in {"unavailable", "skipped_limit"} : Move(p, Advanced(p, st, 0))
       PROVE  FALSE
  <2>1. PICK st \in {"unavailable", "skipped_limit"} : Move(p, Advanced(p, st, 0)) BY <1>11
  <2>2. st \in EntryStatuses BY <2>1 DEF EntryStatuses
  <2> QED BY <1>2, <1>4, <1>11, <2>1, <2>2 DEF Looking
<1>12. ASSUME parent[p].pc = "create" /\ Move(p, Advanced(p, "queued", NewId)) PROVE FALSE
  <2>1. "queued" \in EntryStatuses /\ NewId \in Nat BY <1>1 DEF EntryStatuses, NewId, Typed
  <2> QED BY <1>2, <1>4, <1>12, <2>1 DEF Looking
<1>13. ASSUME Move(p, [parent[p] EXCEPT !.pc = "written"]) PROVE FALSE
  BY <1>1, <1>3, <1>13, Placed DEF Looking
<1>14. ParentStep(p) BY <1>6
<1>15. PICK pc \in {"create", "preflight"} :
         /\ Move(p, [parent[p] EXCEPT !.pc = pc])
         /\ parent[p].pc = "preflight" \/ ExistingState(Item(p)) = "none"
  BY <1>1, <1>5, <1>6, <1>7, <1>9, <1>10, <1>11, <1>12, <1>13, <1>14, ThreadRow
<1>16. parent'[p].at = parent[p].at BY <1>1, <1>15, Placed, Moved
<1>17. ~CreateChild(p) /\ ~WriteListing(p) BY <1>12, <1>13 DEF CreateChild, WriteListing
<1>18. rows' = rows
  BY <1>5, <1>7, <1>14, <1>17 DEF ParentStep, DiscoveryFails, SkipSeen,
     ListingLimit, CheckGallery, CheckResource, PreflightResource, CreateGalleryJob, CreateResourceJob
<1> QED BY <1>15, <1>16, <1>18 DEF Looking

\* What a step does to the rows.
LEMMA RowSteps ==
  ASSUME Inv, Next
  PROVE  \/ rows' = rows
         \/ \E p \in Parents : CreateChild(p)
         \/ ConfirmCreates
         \/ \E n \in 1..MaxRows : ChildEnds(n)
         \/ \E n \in 1..MaxRows : RetryChild(n)
         \/ (\E n \in 1..MaxRows : CooldownElapses(n)) \/ ClearHistory
BY DEF Next, ParentStep, RetryParent, ParentStarts, DiscoveryFails, SkipSeen, ListingLimit,
   CheckGallery, CheckResource, PreflightResource, CreateGalleryJob, CreateResourceJob,
   WriteListing, ParentDone, ConfirmReads,
   ConfirmStep, ConfirmChecks, ConfirmWrites, FileRemoved, Crash

\* Who looks before a step, and after it.
LEMMA LooksBefore ==
  ASSUME Inv, Next, NEW p \in Parents, parent'[p].pc \in Looking
  PROVE  /\ parent'[p].at = parent[p].at
         /\ \/ parent[p].pc \in Looking
            \/ ExistingState(Item(p)) = "none" /\ rows' = rows
<1>1. CASE ParentStep(p) \/ RetryParent(p) BY <1>1, LooksOn
<1>2. CASE parent'[p] = parent[p] BY <1>2
<1>3. CASE \E status \in {"queued", "cleared"} : parent'[p] = AtRest(status)
  BY <1>3 DEF AtRest, Looking
<1> QED BY <1>1, <1>2, <1>3, OtherParents

\* A parent that is creating a job looks no longer, and no other parent does.
LEMMA CreatesAlone ==
  ASSUME Inv, NEW q \in Parents, CreateChild(q), NEW p \in Parents, parent'[p].pc \in Looking
  PROVE  FALSE
<1>1. parent[q].pc = "create" BY DEF CreateChild
<1>2. ParentStep(q)
  <2>1. sc.family \in {"listing", "image"} BY Scenario DEF Inv
  <2> QED BY <2>1 DEF ParentStep, CreateGalleryJob, CreateResourceJob
<1>3. CASE p = q
  <2>1. rows' = rows BY <1>2, <1>3, LooksOn
  <2>2. Typed /\ Len(rows) \in Nat BY DEF Inv, Typed
  <2>3. rows' = Append(rows, [item |-> Item(q), status |-> "active", recent |-> FALSE])
    BY DEF CreateChild, CreateJob
  <2> QED BY <2>1, <2>2, <2>3 DEF Typed
<1>4. CASE p # q
  <2>1. parent'[p] = parent[p] BY <1>2, <1>4, ParentTyped DEF Others
  <2>2. parent[p].pc # "rest" /\ parent[q].pc # "rest" BY <1>1, <2>1 DEF Looking
  <2> QED BY <1>4, <2>2 DEF Inv, OneParent
<1> QED BY <1>3, <1>4

\* A version of which nothing is known has no failure that is fresh.
LEMMA NothingFailed ==
  ASSUME Typed, NEW i \in Items, sc.family = "image", ExistingState(i) = "none"
  PROVE  \A n \in 1..Len(rows) : rows[n].item = i => Rested(rows[n])
<1>1. FailedState(i) = "none" BY DEF ExistingState, ResourceState
<1>2. PICK failed : failed = {n \in RowsOf(i) : rows[n].status = "gone_for_good" \/ rows[n].recent}
  OBVIOUS
<1>3. failed = {} BY <1>1, <1>2 DEF FailedState
<1>4. DOMAIN rows = 1..Len(rows) BY DEF Typed
<1> QED BY <1>2, <1>3, <1>4 DEF RowsOf, Rested

\* Where a version is about to be asked for, no failure is fresh.
LEMMA NoneFreshNext ==
  ASSUME Inv, NoneFresh, Next
  PROVE  NoneFresh'
<1>1. Typed /\ RequestFits /\ sc' = sc BY TypedNext DEF Inv
<1>2. SUFFICES ASSUME NEW p \in Parents, sc.family = "image", parent'[p].pc \in Looking,
                      NEW n \in 1..Len(rows'), rows'[n].item = Item(p)'
               PROVE  Rested(rows'[n])
  BY <1>1 DEF NoneFresh
<1>3. Item(p)' = Item(p) BY <1>1, <1>2, LooksBefore DEF Item, Page
<1>4. Item(p) \in Items
  <2>1. parent'[p].at <= Len(Page(p)') BY <1>2, NextInv DEF Inv, RunsFit, RunFits
  <2>2. parent[p].at <= Len(Page(p)) BY <1>1, <1>2, <2>1, LooksBefore DEF Page
  <2> QED BY <1>1, <2>2, Scenario DEF Item, Parent
<1>5. CASE rows' = rows
  <2>1. CASE parent[p].pc \in Looking BY <1>2, <1>3, <1>5, <2>1 DEF NoneFresh
  <2>2. CASE ExistingState(Item(p)) = "none" BY <1>1, <1>2, <1>3, <1>4, <1>5, <2>2, NothingFailed
  <2> QED BY <1>2, <2>1, <2>2, LooksBefore
<1>6. CASE \E q \in Parents : CreateChild(q) BY <1>2, <1>6, CreatesAlone
<1>7. CASE ConfirmCreates BY <1>1, <1>2, <1>7 DEF ConfirmCreates, RequestFits
<1>8. ASSUME rows' # rows PROVE parent[p].pc \in Looking BY <1>2, <1>8, LooksBefore
<1>9. CASE \E m \in 1..MaxRows : ChildEnds(m)
  <2>1. SlotFree BY <1>9 DEF ChildEnds
  <2>2. parent[p].pc = "rest" BY <2>1 DEF SlotFree
  <2> QED BY <1>5, <1>8, <2>2 DEF Looking
<1>10. CASE (\E m \in 1..MaxRows : CooldownElapses(m)) \/ ClearHistory
  <2>1. /\ RowsKept /\ Len(rows') = Len(rows)
        /\ \A m \in 1..Len(rows) : Rested(rows[m]) => Rested(rows'[m])
    BY <1>1, <1>10, RestsRow
  <2>2. n \in 1..Len(rows) /\ rows[n].item = Item(p) BY <1>2, <1>3, <2>1 DEF RowsKept
  <2>3. CASE parent[p].pc \in Looking BY <1>2, <2>1, <2>2, <2>3 DEF NoneFresh
  <2> QED BY <1>5, <1>8, <2>3
<1>11. CASE \E m \in 1..MaxRows : RetryChild(m)
  <2>1. /\ RowsKept /\ Len(rows') = Len(rows)
        /\ \A m \in 1..Len(rows) : Rested(rows[m]) => Rested(rows'[m])
    BY <1>1, <1>11, RetriesRow
  <2>2. n \in 1..Len(rows) /\ rows[n].item = Item(p) BY <1>2, <1>3, <2>1 DEF RowsKept
  <2>3. CASE parent[p].pc \in Looking BY <1>2, <2>1, <2>2, <2>3 DEF NoneFresh
  <2> QED BY <1>5, <1>8, <2>3
<1> QED BY <1>5, <1>6, <1>7, <1>9, <1>10, <1>11, RowSteps

(* No version is asked for again while a failure of it is fresh, nor after *)
(* it failed for good.                                                     *)
THEOREM FailuresRestAlways == Spec => FailuresRest
<1>1. Init => NoneFresh BY DEF Init, AtRest, NoneFresh, Looking
<1>2. Inv /\ NoneFresh /\ [Next]_vars => NoneFresh'
  <2>1. CASE UNCHANGED vars BY <2>1 DEF vars, NoneFresh, Item, Page
  <2> QED BY <2>1, NoneFreshNext
<1>3. Inv /\ NoneFresh /\ [Next]_vars =>
        \A n \in DOMAIN rows' \ DOMAIN rows :
          sc.family = "image" =>
            \A k \in RowsOf(rows'[n].item) : ~rows[k].recent /\ rows[k].status # "gone_for_good"
  <2> SUFFICES ASSUME Inv, NoneFresh, [Next]_vars, NEW n \in DOMAIN rows' \ DOMAIN rows,
                      sc.family = "image", NEW k \in RowsOf(rows'[n].item)
               PROVE  ~rows[k].recent /\ rows[k].status # "gone_for_good"
    OBVIOUS
  <2>1. /\ Typed /\ RequestFits /\ Len(rows) \in Nat /\ DOMAIN rows = 1..Len(rows)
        /\ k \in 1..Len(rows) /\ rows[k].status # "cleared" /\ rows[k].item = rows'[n].item
    BY DEF Inv, Typed, RowsOf
  <2>2. Next BY DEF vars
  <2>3. CASE \E p \in Parents : CreateChild(p)
    <3>1. PICK p \in Parents : CreateChild(p) BY <2>3
    <3>2. parent[p].pc \in Looking BY <3>1 DEF CreateChild, Looking
    <3>3. rows' = Append(rows, [item |-> Item(p), status |-> "active", recent |-> FALSE])
      BY <3>1 DEF CreateChild, CreateJob
    <3>4. n = Len(rows) + 1 /\ rows'[n].item = Item(p) BY <2>1, <3>3
    <3>5. Rested(rows[k]) BY <2>1, <3>2, <3>4 DEF NoneFresh
    <3> QED BY <2>1, <3>5 DEF Rested
  <2>4. CASE ConfirmCreates BY <2>1, <2>4 DEF ConfirmCreates, RequestFits
  <2>5. CASE DOMAIN rows' = DOMAIN rows BY <2>5
  <2>6. CASE \E m \in 1..MaxRows : ChildEnds(m)
    <3>1. RowsKept /\ Len(rows') = Len(rows) BY <2>1, <2>6, EndsRow
    <3> QED BY <2>1, <3>1 DEF RowsKept
  <2>7. CASE (\E m \in 1..MaxRows : CooldownElapses(m)) \/ ClearHistory
    <3>1. RowsKept /\ Len(rows') = Len(rows) BY <2>1, <2>7, RestsRow
    <3> QED BY <2>1, <3>1 DEF RowsKept
  <2>8. CASE \E m \in 1..MaxRows : RetryChild(m)
    <3>1. RowsKept /\ Len(rows') = Len(rows) BY <2>1, <2>8, RetriesRow
    <3> QED BY <2>1, <3>1 DEF RowsKept
  <2> QED BY <2>2, <2>3, <2>4, <2>5, <2>6, <2>7, <2>8, RowSteps
<1> QED BY <1>1, <1>2, <1>3, InvAlways, PTL DEF Spec, FailuresRest

-----------------------------------------------------------------------------
(* One job of an item at a time.                                           *)

\* An item of which nothing is known has no live row.
LEMMA NothingLive ==
  ASSUME Typed, NEW i \in Items, ExistingState(i) = "none"
  PROVE  NoneLive(i)
<1>1. DOMAIN rows = 1..Len(rows) /\ sc.family \in {"listing", "image"}
  BY ScenarioAssumption DEF Typed, Families
<1>2. CASE sc.family = "listing"
  <2>1. GalleryState(i) = "none" BY <1>2 DEF ExistingState
  <2>2. PICK known : known = {n \in RowsOf(i) : rows[n].status \in {"active", "done"}} OBVIOUS
  <2>3. known = {} BY <2>1, <2>2 DEF GalleryState
  <2> QED BY <1>1, <2>2, <2>3 DEF RowsOf, NoneLive, Live
<1>3. CASE sc.family = "image"
  <2>1. ~Active(i) BY <1>3 DEF ExistingState, ResourceState
  <2> QED BY <1>1, <1>3, <2>1 DEF Active, RowsOf, NoneLive, Live
<1> QED BY <1>1, <1>2, <1>3

\* What a step does to the items that were crossed.
LEMMA CrossedSteps ==
  ASSUME Inv, Next
  PROVE  \A i : i \in crossed /\ i \notin crossed' => i \in Items /\ NoneLive(i) /\ rows' = rows
<1>1. Typed /\ sc' = sc /\ RequestFits BY TypedNext DEF Inv
<1>2. ASSUME NEW p \in Parents, CheckGallery(p) \/ CheckResource(p),
             NEW i \in crossed, i \notin crossed'
      PROVE  i \in Items /\ ExistingState(i) = "none" /\ rows' = rows
  <2>1. i = Item(p) /\ ExistingState(Item(p)) = "none" /\ rows' = rows /\ InLoop(p)
    BY <1>2 DEF CheckGallery, CheckResource
  <2>2. Item(p) \in Items BY <1>1, <2>1, Scenario DEF Item, InLoop, Parent
  <2> QED BY <2>1, <2>2
<1>3. ASSUME NEW k \in Items, ConfirmChecks(k), NEW i \in crossed, i \notin crossed'
      PROVE  i \in Items /\ ExistingState(i) = "none" /\ rows' = rows
  <2>1. i = k /\ GalleryState(k) = "none" /\ rows' = rows /\ api.pc = "loop" BY <1>3 DEF ConfirmChecks
  <2> QED BY <1>1, <2>1 DEF RequestFits, ExistingState
<1>4. CASE \E p \in Parents : CheckGallery(p) \/ CheckResource(p)
  BY <1>1, <1>2, <1>4, NothingLive
<1>5. CASE \E k \in Items : ConfirmChecks(k) BY <1>1, <1>3, <1>5, NothingLive
<1>6. CASE crossed \subseteq crossed' BY <1>6
<1> QED
  BY <1>4, <1>5, <1>6 DEF Next, ParentStep, RetryParent, ParentStarts, DiscoveryFails, SkipSeen,
     ListingLimit, PreflightResource, CreateChild, CreateGalleryJob, CreateResourceJob,
     WriteListing, ParentDone, ConfirmReads, ConfirmStep, ConfirmCreates, ConfirmWrites,
     ChildEnds, RetryChild, CooldownElapses, FileRemoved, ClearHistory, Crash

\* A live row was live before.
LEMMA LiveShrinks ==
  ASSUME Typed, sc' = sc, RowsKept, Len(rows') = Len(rows), NEW i, NoneLive(i),
         \A n \in 1..Len(rows) : rows'[n].item = i => (Live(rows[n])' => Live(rows[n]))
  PROVE  NoneLive(i)'
BY DEF RowsKept, NoneLive

\* A job of another item is created.
LEMMA LiveElsewhere ==
  ASSUME Typed, sc' = sc, NEW i, NoneLive(i), NEW j \in Items, j # i, CreateJob(j)
  PROVE  NoneLive(i)'
<1>1. /\ Len(rows') = Len(rows) + 1 /\ Len(rows) \in Nat
      /\ \A n \in 1..Len(rows) : rows'[n] = rows[n]
      /\ rows'[Len(rows) + 1].item = j
  <2>1. /\ Len(rows') = Len(rows) + 1
        /\ \A n \in 1..Len(rows) : rows'[n] = rows[n]
        /\ rows'[Len(rows) + 1] = [item |-> j, status |-> "active", recent |-> FALSE]
    BY Creates
  <2>2. Len(rows) \in Nat BY DEF Typed
  <2> QED BY <2>1, <2>2
<1>2. \A k \in 1..Len(rows') : k \in 1..Len(rows) \/ k = Len(rows) + 1 BY <1>1
<1>3. \A k \in 1..Len(rows) : Live(rows[k])' => Live(rows[k]) BY <1>1 DEF Live
<1>4. \A k \in 1..Len(rows) : rows[k].item = i => ~Live(rows[k])' BY <1>3 DEF NoneLive
<1> QED BY <1>1, <1>2, <1>4 DEF NoneLive

\* What was found stays so for an item whose job is awaited, or it is crossed.
LEMMA LookKept ==
  ASSUME Inv, Next, NEW i, LookHolds(i), i \in AwaitedByParents \cup AwaitedByRequest,
         ConfirmCreates => i \in AwaitedByParents,
         \A p \in Parents : CreateChild(p) => i \in AwaitedByRequest
  PROVE  LookHolds(i)'
<1>1. Typed /\ RequestFits /\ sc' = sc BY TypedNext DEF Inv
<1>2. CASE i \in crossed /\ i \notin crossed'
  <2>1. NoneLive(i) /\ rows' = rows BY <1>2, CrossedSteps
  <2> QED BY <1>1, <2>1 DEF LookHolds, NoneLive, Live
<1>3. CASE i \in crossed' BY <1>3 DEF LookHolds
<1>4. CASE i \notin crossed /\ i \notin crossed'
  <2>1. NoneLive(i) BY <1>4 DEF LookHolds
  <2>2. CASE rows' = rows BY <1>1, <2>1, <2>2 DEF LookHolds, NoneLive, Live
  <2>3. CASE \E p \in Parents : CreateChild(p)
    <3>1. PICK p \in Parents : CreateChild(p) BY <2>3
    <3>2. Item(p) # i BY <1>4, <3>1 DEF CreateChild
    <3>3. Item(p) \in Items
      <4>1. parent[p].at <= Len(Page(p)) BY <3>1 DEF Inv, RunsFit, RunFits, Looking, CreateChild
      <4> QED BY <1>1, <4>1, Scenario DEF Item, Parent
    <3> QED BY <1>1, <2>1, <3>1, <3>2, <3>3, LiveElsewhere DEF CreateChild, LookHolds
  <2>4. CASE ConfirmCreates
    <3>1. api.item # i /\ api.item \in Items /\ CreateJob(api.item)
      BY <1>1, <1>4, <2>4 DEF ConfirmCreates, RequestFits
    <3> QED BY <1>1, <2>1, <3>1, LiveElsewhere DEF LookHolds
  <2>5. CASE \E n \in 1..MaxRows : ChildEnds(n)
    <3>1. PICK n : ChildEnds(n) BY <2>5
    <3>2. /\ RowsKept /\ Len(rows') = Len(rows) /\ rows[n].status = "active"
          /\ \A k \in 1..Len(rows) \ {n} : rows'[k] = rows[k]
      BY <1>1, <3>1, EndsRow
    <3>3. \A k \in 1..Len(rows) : Live(rows[k])' => Live(rows[k]) BY <1>1, <3>2 DEF Live
    <3> QED BY <1>1, <2>1, <3>2, <3>3, LiveShrinks DEF LookHolds
  <2>6. CASE \E n \in 1..MaxRows : RetryChild(n)
    <3>1. PICK n : RetryChild(n) BY <2>6
    <3>2. /\ RowsKept /\ Len(rows') = Len(rows) /\ n \in 1..Len(rows)
          /\ \A k \in 1..Len(rows) \ {n} : rows'[k] = rows[k]
      BY <1>1, <3>1, RetriesRow
    <3>3. rows[n].item # i BY <1>4, <3>1 DEF RetryChild
    <3>4. rows'[n].item # i BY <3>2, <3>3 DEF RowsKept
    <3>5. \A k \in 1..Len(rows) : rows'[k].item = i => (Live(rows[k])' => Live(rows[k]))
      BY <1>1, <3>2, <3>4 DEF Live
    <3> QED BY <1>1, <2>1, <3>2, <3>5, LiveShrinks DEF LookHolds
  <2>7. CASE (\E n \in 1..MaxRows : CooldownElapses(n)) \/ ClearHistory
    <3>1. /\ RowsKept /\ Len(rows') = Len(rows)
          /\ \A n \in 1..Len(rows) : rows'[n].status \in {rows[n].status, "cleared"}
      BY <1>1, <2>7, RestsRow
    <3>2. \A k \in 1..Len(rows) : Live(rows[k])' => Live(rows[k]) BY <1>1, <3>1 DEF Live
    <3> QED BY <1>1, <2>1, <3>1, <3>2, LiveShrinks DEF LookHolds
  <2> QED BY <2>2, <2>3, <2>4, <2>5, <2>6, <2>7, RowSteps
<1> QED BY <1>2, <1>3, <1>4

\* The request has found nothing of the gallery it asks for next.
LEMMA RequestLooks ==
  ASSUME Inv, Next, api'.pc = "create"
  PROVE  \/ rows' = rows /\ NoneLive(api'.item)
         \/ api' = api /\ ~ConfirmCreates
<1>1. Typed /\ RequestFits /\ api \in Request BY DEF Inv, Typed
<1>2. ASSUME NEW i, NEW e, e = Answered(i) PROVE e.pc = "loop"
  BY <1>1, <1>2 DEF Answered, Request
<1>3. CASE \E p \in Parents, ids \in SUBSET Items : ConfirmReads(p, ids)
  BY <1>3 DEF ConfirmReads
<1>4. CASE \E i \in Items : ConfirmChecks(i)
  <2>1. PICK i \in Items : ConfirmChecks(i) BY <1>4
  <2>2. PICK st : st = GalleryState(i) OBVIOUS
  <2>3. PICK e : e = Answered(i) OBVIOUS
  <2>4. api' = IF AlreadyAsked(i) THEN e ELSE IF st # "none" THEN [e EXCEPT !.entries[i].status = st]
                 ELSE [api EXCEPT !.pc = "create", !.item = i]
    BY <2>1, <2>2, <2>3 DEF ConfirmChecks
  <2>5. e.pc = "loop" /\ DOMAIN e = {"pc", "of", "item", "left", "entries"}
    BY <1>1, <1>2, <2>3 DEF Answered, Request
  <2>6. api' # e /\ api' # [e EXCEPT !.entries[i].status = st] BY <2>5
  <2>7. st = "none" /\ api' = [api EXCEPT !.pc = "create", !.item = i] BY <2>4, <2>6
  <2>8. api'.item = i BY <1>1, <2>7 DEF Request
  <2>9. sc.family = "listing" BY <1>1, <2>1 DEF ConfirmChecks, RequestFits
  <2>10. ExistingState(i) = "none" BY <2>2, <2>7, <2>9 DEF ExistingState
  <2>11. rows' = rows BY <2>1 DEF ConfirmChecks
  <2> QED BY <1>1, <2>8, <2>10, <2>11, NothingLive
<1>5. CASE ConfirmCreates
  <2>1. PICK i : i = api.item OBVIOUS
  <2>2. PICK e : e = Answered(i) OBVIOUS
  <2>3. api' = [e EXCEPT !.entries[i] = [status |-> "queued", child |-> NewId]]
    BY <1>5, <2>1, <2>2 DEF ConfirmCreates
  <2>4. e.pc = "loop" /\ DOMAIN e = {"pc", "of", "item", "left", "entries"}
    BY <1>1, <1>2, <2>2 DEF Answered, Request
  <2> QED BY <2>3, <2>4
<1>6. CASE ConfirmWrites \/ Crash BY <1>6 DEF ConfirmWrites, Crash, NoRequest
<1>7. CASE UNCHANGED api /\ ~ConfirmCreates BY <1>7
<1> QED
  BY <1>3, <1>4, <1>5, <1>6, <1>7 DEF Next, ConfirmStep, ParentStep, RetryParent, ParentStarts,
     DiscoveryFails, SkipSeen, ListingLimit, CheckGallery, CheckResource, PreflightResource,
     CreateChild, CreateGalleryJob, CreateResourceJob, WriteListing, ParentDone, ChildEnds,
     RetryChild, CooldownElapses, FileRemoved, ClearHistory

\* Every step keeps it.
LEMMA LooksHoldNext ==
  ASSUME Inv, LooksHold, Next
  PROVE  LooksHold'
<1>1. Typed /\ RequestFits /\ sc' = sc /\ Inv' BY TypedNext, NextInv DEF Inv
<1>2. ASSUME NEW p \in Parents, parent'[p].pc \in Looking
      PROVE  LookHolds(Item(p))'
  <2>1. Item(p)' = Item(p) /\ Item(p) \in Items
    <3>1. Item(p)' = Item(p) BY <1>1, <1>2, LooksBefore DEF Item, Page
    <3>2. parent'[p].at <= Len(Page(p)') BY <1>1, <1>2 DEF Inv, RunsFit, RunFits
    <3>3. parent[p].at <= Len(Page(p)) BY <1>1, <1>2, <3>2, LooksBefore DEF Page
    <3> QED BY <1>1, <3>1, <3>3, Scenario DEF Item, Parent
  <2>2. PICK i : i = Item(p) OBVIOUS
  <2>3. LookHolds(i)'
    <3>1. CASE parent[p].pc \in Looking
      <4>1. i \in AwaitedByParents BY <2>2, <3>1 DEF AwaitedByParents, Looking
      <4>2. \A q \in Parents : ~CreateChild(q) BY <1>2, CreatesAlone
      <4> QED BY <2>2, <3>1, <4>1, <4>2, LookKept DEF LooksHold
    <3>2. CASE ExistingState(i) = "none" /\ rows' = rows
      BY <1>1, <2>1, <2>2, <3>2, NothingLive DEF LookHolds, NoneLive, Live
    <3> QED BY <1>2, <2>2, <3>1, <3>2, LooksBefore
  <2> QED BY <2>1, <2>2, <2>3 DEF LookHolds, NoneLive
<1>3. ASSUME api'.pc = "create" PROVE LookHolds(api.item)'
  <2>1. PICK i : i = api'.item OBVIOUS
  <2>2. LookHolds(i)'
    <3>1. CASE rows' = rows /\ NoneLive(api'.item)
      BY <1>1, <2>1, <3>1 DEF LookHolds, NoneLive, Live
    <3>2. CASE api' = api /\ ~ConfirmCreates
      <4>1. api.pc = "create" /\ i = api.item /\ i \in AwaitedByRequest
        BY <1>3, <2>1, <3>2 DEF AwaitedByRequest
      <4> QED BY <3>2, <4>1, LookKept DEF LooksHold
    <3> QED BY <1>3, <3>1, <3>2, RequestLooks
  <2> QED BY <2>1, <2>2 DEF LookHolds, NoneLive
<1> QED BY <1>2, <1>3 DEF LooksHold

(* No job is created of an item that is being fetched, nor of a gallery    *)
(* that is there, in whatever order parents, requests, retries, clears and *)
(* crashes come, unless somebody else made a job of the item active        *)
(* between the look that found nothing and this creation.                  *)
THEOREM NothingTwice == Spec => NoDuplicateChildren
<1>1. Init => LooksHold BY DEF Init, AtRest, NoRequest, LooksHold, Looking
<1>2. Inv /\ LooksHold /\ [Next]_vars => LooksHold'
  <2>1. CASE UNCHANGED vars
    BY <2>1 DEF vars, LooksHold, LookHolds, NoneLive, Live, Item, Page
  <2> QED BY <2>1, LooksHoldNext
<1>3. Inv /\ LooksHold /\ [Next]_vars =>
        \A n \in DOMAIN rows' \ DOMAIN rows :
          (\E k \in RowsOf(rows'[n].item) : rows[k].status \in LiveStatuses)
             => rows'[n].item \in crossed
  <2> SUFFICES ASSUME Inv, LooksHold, [Next]_vars, NEW n \in DOMAIN rows' \ DOMAIN rows,
                      NEW k \in RowsOf(rows'[n].item), rows[k].status \in LiveStatuses
               PROVE  rows'[n].item \in crossed
    OBVIOUS
  <2>1. /\ Typed /\ RequestFits /\ Len(rows) \in Nat /\ DOMAIN rows = 1..Len(rows)
        /\ k \in 1..Len(rows) /\ rows[k].item = rows'[n].item /\ Live(rows[k])
    BY DEF Inv, Typed, RowsOf, LiveStatuses, Live
  <2>2. Next BY DEF vars
  <2>3. SUFFICES LookHolds(rows'[n].item) BY <2>1 DEF LookHolds, NoneLive
  <2>4. CASE \E p \in Parents : CreateChild(p)
    <3>1. PICK p \in Parents : CreateChild(p) BY <2>4
    <3>2. parent[p].pc \in Looking BY <3>1 DEF CreateChild, Looking
    <3>3. rows' = Append(rows, [item |-> Item(p), status |-> "active", recent |-> FALSE])
      BY <3>1 DEF CreateChild, CreateJob
    <3>4. n = Len(rows) + 1 BY <2>1, <3>3
    <3>5. rows'[n] = [item |-> Item(p), status |-> "active", recent |-> FALSE]
      BY <2>1, <3>3, <3>4 DEF Typed
    <3> QED BY <3>2, <3>5 DEF LooksHold
  <2>5. CASE ConfirmCreates
    <3>1. rows' = Append(rows, [item |-> api.item, status |-> "active", recent |-> FALSE])
      BY <2>5 DEF ConfirmCreates, CreateJob
    <3>2. n = Len(rows) + 1 BY <2>1, <3>1
    <3>3. rows'[n] = [item |-> api.item, status |-> "active", recent |-> FALSE]
      BY <2>1, <3>1, <3>2 DEF Typed
    <3> QED BY <2>5, <3>3 DEF LooksHold, ConfirmCreates
  <2>6. CASE DOMAIN rows' = DOMAIN rows BY <2>6
  <2>7. CASE \E m \in 1..MaxRows : ChildEnds(m)
    <3>1. RowsKept /\ Len(rows') = Len(rows) BY <2>1, <2>7, EndsRow
    <3> QED BY <2>1, <3>1 DEF RowsKept
  <2>8. CASE (\E m \in 1..MaxRows : CooldownElapses(m)) \/ ClearHistory
    <3>1. RowsKept /\ Len(rows') = Len(rows) BY <2>1, <2>8, RestsRow
    <3> QED BY <2>1, <3>1 DEF RowsKept
  <2>9. CASE \E m \in 1..MaxRows : RetryChild(m)
    <3>1. RowsKept /\ Len(rows') = Len(rows) BY <2>1, <2>9, RetriesRow
    <3> QED BY <2>1, <3>1 DEF RowsKept
  <2> QED BY <2>2, <2>4, <2>5, <2>6, <2>7, <2>8, <2>9, RowSteps
<1> QED BY <1>1, <1>2, <1>3, InvAlways, PTL DEF Spec, NoDuplicateChildren

=============================================================================
