------------------------------ MODULE ChildJobs ------------------------------
(***************************************************************************)
(* Download jobs that create download jobs: a Hitomi listing queues a job  *)
(* per gallery, at once ("auto") or after the user confirms ("confirm"),   *)
(* and a Civitai image page queues a job per model version it was made     *)
(* with.  Both look first for a job or a file of the item, and create the  *)
(* child in a later step; the confirm request and a crash come between.    *)
(*                                                                         *)
(* Parents run one at a time and keep the slot their children wait for:    *)
(* both are in one provider bucket, whose limit is 1 by default (module    *)
(* DownloadQueue).                                                         *)
(***************************************************************************)
EXTENDS Integers, Sequences, FiniteSets

CONSTANTS
  Parents, Items,
  MaxRows,      \* bound: children ever created
  Scenarios,    \* family, page of each parent, the limit, queue mode, events
  NoMeta

Families == {"listing", "image"}
RowStatuses == {"active", "done", "failed", "gone_for_good", "cleared"}
EntryStatuses == {"none", "queued", "discovered", "already_queued", "present",
                  "unavailable", "retry_deferred", "skipped_limit"}

ASSUME MaxRowsAssumption == MaxRows \in Nat \ {0}
ASSUME ScenarioAssumption ==
  \A s \in Scenarios :
     /\ s.family \in Families /\ s.mode \in {"auto", "confirm"} /\ s.limit \in Nat
     /\ s.page \in [Parents -> Seq(Items)]
ASSUME ItemsAssumption == IsFiniteSet(Items)

VARIABLES
  sc,       \* the scenario, chosen once
  rows,     \* child rows: item, status, and whether a failure is in its cooldown
  onDisk,   \* items with a model file beside a sidecar
  parent,   \* parent[p]: status of the row and where its thread is
  meta,     \* meta[p]: _hitomi_listing_metadata.json, or NoMeta
  api,      \* the confirm request being served, one at a time
  batch,    \* children each run of a parent has created
  crossed   \* items of which a job became active between another's look and its creation

vars == <<sc, rows, onDisk, parent, meta, api, batch, crossed>>

NoEntries == [i \in Items |-> [status |-> "none", child |-> 0]]
AtRest(status) == [status |-> status, pc |-> "rest", at |-> 1, entries |-> NoEntries]
NoRequest == [pc |-> "none", of |-> NoMeta, item |-> NoMeta, left |-> {}, entries |-> NoEntries]

Init ==
  /\ sc \in Scenarios
  /\ rows = <<>> /\ onDisk = {}
  /\ parent = [p \in Parents |-> AtRest("queued")]
  /\ meta = [p \in Parents |-> NoMeta]
  /\ api = NoRequest
  /\ batch = [p \in Parents |-> 0]
  /\ crossed = {}

-----------------------------------------------------------------------------
(* What is known of an item.  Hitomi looks at the newest rows only; what   *)
(* failed does not count.  Civitai looks at rows, then at files, and lets  *)
(* an item that failed for good, or a while ago, rest.                     *)

RowsOf(i) == {n \in DOMAIN rows : rows[n].item = i /\ rows[n].status # "cleared"}
Newest(S) == CHOOSE n \in S : \A k \in S : k <= n
Active(i) == \E n \in RowsOf(i) : rows[n].status = "active"

(* Mutant: a gallery that is being fetched does not count either. *)
GalleryPresentOnly(i) == IF \E n \in RowsOf(i) : rows[n].status = "done" THEN "present" ELSE "none"
GalleryState(i) ==
  LET known == {n \in RowsOf(i) : rows[n].status \in {"active", "done"}}
  IN  IF known = {} THEN "none"
      ELSE IF rows[Newest(known)].status = "done" THEN "present" ELSE "already_queued"

FailedState(i) ==
  LET failed == {n \in RowsOf(i) : rows[n].status = "gone_for_good" \/ rows[n].recent}
  IN  IF failed = {} THEN "none"
      ELSE IF rows[Newest(failed)].status = "gone_for_good" THEN "unavailable" ELSE "retry_deferred"
(* Mutant: a cooldown is not looked at. *)
ResourceStateAtOnce(i) ==
  IF i \in onDisk THEN "present" ELSE IF Active(i) THEN "already_queued" ELSE "none"
ResourceState(i) ==
  IF i \in onDisk THEN "present" ELSE IF Active(i) THEN "already_queued" ELSE FailedState(i)

ExistingState(i) == IF sc.family = "listing" THEN GalleryState(i) ELSE ResourceState(i)

CreateJob(i) == rows' = Append(rows, [item |-> i, status |-> "active", recent |-> FALSE])
(* Mutant: the id of the row before it. *)
LastId == Len(rows)
NewId == Len(rows) + 1

-----------------------------------------------------------------------------
(* The parent's thread.                                                    *)

SlotFree == \A p \in Parents : parent[p].pc = "rest"
Page(p) == sc.page[p]
Item(p) == Page(p)[parent[p].at]
Seen(p) == {i \in Items : parent[p].entries[i].status # "none"}
Counted(p) == Cardinality({i \in Items : parent[p].entries[i].status = "queued"})
(* Mutant: a repeated item counts. *)
FullByPosition(p) == parent[p].at > sc.limit
Full(p) == Cardinality(Seen(p)) >= sc.limit

(* Items found missing, whose job somebody is about to create. *)
AwaitedByParents == {Item(p) : p \in {q \in Parents : parent[q].pc \in {"preflight", "create"}}}
AwaitedByRequest == IF api.pc = "create" THEN {api.item} ELSE {}

ParentStarts(p) ==
  /\ parent[p].status = "queued" /\ SlotFree
  /\ parent' = [parent EXCEPT ![p] = [AtRest("running") EXCEPT !.pc = "loop"]]
  /\ batch' = [batch EXCEPT ![p] = 0]
  /\ UNCHANGED <<sc, rows, onDisk, meta, api, crossed>>

(* Discovery, or the page with its image, fails.                           *)
DiscoveryFails(p) ==
  /\ parent[p].pc = "loop" /\ parent[p].at = 1
  /\ parent' = [parent EXCEPT ![p] = AtRest("failed")]
  /\ UNCHANGED <<sc, rows, onDisk, meta, api, batch, crossed>>

InLoop(p) == parent[p].pc = "loop" /\ parent[p].at <= Len(Page(p))

Move(p, e) == parent' = [parent EXCEPT ![p] = e]
Advanced(p, status, child) ==
  [parent[p] EXCEPT !.pc = "loop", !.at = @ + 1, !.entries[Item(p)] = [status |-> status, child |-> child]]

SkipSeen(p) ==
  /\ InLoop(p) /\ Item(p) \in Seen(p)
  /\ Move(p, [parent[p] EXCEPT !.at = @ + 1])
  /\ UNCHANGED <<sc, rows, onDisk, meta, api, batch, crossed>>

(* A listing stops at its limit of entries, whatever they say. *)
ListingLimit(p) ==
  /\ InLoop(p) /\ sc.family = "listing" /\ Item(p) \notin Seen(p)
  /\ Full(p)
  /\ Move(p, [parent[p] EXCEPT !.at = Len(Page(p)) + 1])
  /\ UNCHANGED <<sc, rows, onDisk, meta, api, batch, crossed>>

(* Look for the gallery; in confirm mode write down that it is new. *)
CheckGallery(p) ==
  /\ InLoop(p) /\ sc.family = "listing" /\ Item(p) \notin Seen(p)
  /\ ~Full(p)
  /\ LET s == ExistingState(Item(p))
     IN  /\ Move(p, IF s # "none" THEN Advanced(p, s, 0)
                    ELSE IF sc.mode = "confirm" THEN Advanced(p, "discovered", 0)
                    ELSE [parent[p] EXCEPT !.pc = "create"])
         /\ crossed' = IF s = "none" THEN crossed \ {Item(p)} ELSE crossed
  /\ UNCHANGED <<sc, rows, onDisk, meta, api, batch>>

CheckResource(p) ==
  /\ InLoop(p) /\ sc.family = "image" /\ Item(p) \notin Seen(p)
  /\ LET s == ExistingState(Item(p))
     IN  /\ Move(p, IF s # "none" THEN Advanced(p, s, 0) ELSE [parent[p] EXCEPT !.pc = "preflight"])
         /\ crossed' = IF s = "none" THEN crossed \ {Item(p)} ELSE crossed
  /\ UNCHANGED <<sc, rows, onDisk, meta, api, batch>>

(* One request for the version: gone for good, or go on, a warning or a    *)
(* control stop of the parent included.  The limit counts queued items.    *)
PreflightResource(p) ==
  /\ parent[p].pc = "preflight"
  /\ \/ Move(p, Advanced(p, "unavailable", 0))
     \/ Move(p, IF Counted(p) >= sc.limit THEN Advanced(p, "skipped_limit", 0)
                ELSE [parent[p] EXCEPT !.pc = "create"])
  /\ UNCHANGED <<sc, rows, onDisk, meta, api, batch, crossed>>

CreateChild(p) ==
  /\ parent[p].pc = "create" /\ Len(rows) < MaxRows
  /\ CreateJob(Item(p))
  /\ Move(p, Advanced(p, "queued", NewId))
  /\ batch' = [batch EXCEPT ![p] = @ + 1]
  /\ crossed' = crossed \cup ({Item(p)} \cap AwaitedByRequest)
  /\ UNCHANGED <<sc, onDisk, meta, api>>

CreateGalleryJob(p) == sc.family = "listing" /\ CreateChild(p)
CreateResourceJob(p) == sc.family = "image" /\ CreateChild(p)

(* The metadata file replaces the one of an earlier run. *)
WriteListing(p) ==
  /\ parent[p].pc = "loop" /\ parent[p].at > Len(Page(p))
  /\ meta' = [meta EXCEPT ![p] = parent[p].entries]
  /\ Move(p, [parent[p] EXCEPT !.pc = "written"])
  /\ UNCHANGED <<sc, rows, onDisk, api, batch, crossed>>

(* Mutant: it waits for its children, which wait for its slot. *)
ParentDoneAfterChildren(p) ==
  /\ parent[p].pc = "written" /\ \A n \in DOMAIN rows : rows[n].status # "active"
  /\ Move(p, [AtRest("done") EXCEPT !.entries = parent[p].entries])
  /\ UNCHANGED <<sc, rows, onDisk, meta, api, batch, crossed>>
ParentDone(p) ==
  /\ parent[p].pc = "written"
  /\ Move(p, [AtRest("done") EXCEPT !.entries = parent[p].entries])
  /\ UNCHANGED <<sc, rows, onDisk, meta, api, batch, crossed>>

RetryParent(p) ==
  /\ "retry" \in sc.events /\ parent[p].status = "failed"
  /\ Move(p, AtRest("queued"))
  /\ UNCHANGED <<sc, rows, onDisk, meta, api, batch, crossed>>

-----------------------------------------------------------------------------
(* The confirm request: an async handler that never yields, so that no two *)
(* of them interleave.  It works on the file it read and writes it back.   *)

ConfirmReads(p, ids) ==
  /\ sc.family = "listing" /\ "confirm" \in sc.events
  /\ api.pc = "none" /\ meta[p] # NoMeta
  /\ api' = [pc |-> "loop", of |-> p, item |-> NoMeta, entries |-> meta[p],
             left |-> {i \in IF ids = {} THEN Items ELSE ids : meta[p][i].status # "none"}]
  /\ UNCHANGED <<sc, rows, onDisk, parent, meta, batch, crossed>>

(* An entry that has its child is passed over, also when the child failed. *)
AlreadyAsked(i) == api.entries[i].status = "queued" /\ api.entries[i].child # 0
Answered(i) == [api EXCEPT !.left = @ \ {i}, !.item = NoMeta, !.pc = "loop"]

ConfirmChecks(i) ==
  /\ api.pc = "loop" /\ i \in api.left
  /\ LET s == GalleryState(i)
     IN  /\ api' = IF AlreadyAsked(i) THEN Answered(i)
                   ELSE IF s # "none" THEN [Answered(i) EXCEPT !.entries[i].status = s]
                   ELSE [api EXCEPT !.pc = "create", !.item = i]
         /\ crossed' = IF ~AlreadyAsked(i) /\ s = "none" THEN crossed \ {i} ELSE crossed
  /\ UNCHANGED <<sc, rows, onDisk, parent, meta, batch>>

ConfirmCreates ==
  /\ api.pc = "create" /\ Len(rows) < MaxRows
  /\ CreateJob(api.item)
  /\ api' = [Answered(api.item) EXCEPT
               !.entries[api.item] = [status |-> "queued", child |-> NewId]]
  /\ crossed' = crossed \cup ({api.item} \cap AwaitedByParents)
  /\ UNCHANGED <<sc, onDisk, parent, meta, batch>>

ConfirmWrites ==
  /\ api.pc = "loop" /\ api.left = {}
  /\ meta' = [meta EXCEPT ![api.of] = api.entries]
  /\ api' = NoRequest
  /\ UNCHANGED <<sc, rows, onDisk, parent, batch, crossed>>

-----------------------------------------------------------------------------
(* The children, the clock, the history and restarts.                      *)

(* The ends that matter: a listing does not ask why a child failed. *)
Ends == IF "fail" \notin sc.events THEN {"done"}
        ELSE IF sc.family = "listing" THEN {"done", "failed"}
        ELSE {"done", "failed", "gone_for_good"}

ChildEnds(n) ==
  /\ n \in DOMAIN rows /\ rows[n].status = "active" /\ SlotFree
  /\ \E status \in Ends :
       /\ rows' = [rows EXCEPT ![n].status = status,
                             ![n].recent = (sc.family = "image" /\ status = "failed")]
       /\ onDisk' = IF sc.family = "image" /\ status = "done" THEN onDisk \cup {rows[n].item} ELSE onDisk
  /\ UNCHANGED <<sc, parent, meta, api, batch, crossed>>

(* The user retries a child that failed; nothing is looked for.            *)
RetryChild(n) ==
  /\ "retry" \in sc.events
  /\ n \in DOMAIN rows /\ rows[n].status \in {"failed", "gone_for_good"}
  /\ rows' = [rows EXCEPT ![n].status = "active", ![n].recent = FALSE]
  /\ crossed' = crossed \cup ({rows[n].item} \cap (AwaitedByParents \cup AwaitedByRequest))
  /\ UNCHANGED <<sc, onDisk, parent, meta, api, batch>>

CooldownElapses(n) ==
  /\ n \in DOMAIN rows /\ rows[n].recent
  /\ rows' = [rows EXCEPT ![n].recent = FALSE]
  /\ UNCHANGED <<sc, onDisk, parent, meta, api, batch, crossed>>

(* The files of an item are removed from the library. *)
FileRemoved(i) ==
  /\ "remove" \in sc.events /\ i \in onDisk
  /\ onDisk' = onDisk \ {i}
  /\ UNCHANGED <<sc, rows, parent, meta, api, batch, crossed>>

ClearHistory ==
  /\ "clear" \in sc.events
  /\ rows' = [n \in DOMAIN rows |-> IF rows[n].status = "active" THEN rows[n]
                                     ELSE [rows[n] EXCEPT !.status = "cleared", !.recent = FALSE]]
  /\ parent' = [p \in Parents |-> IF parent[p].status \in {"done", "failed"}
                                   THEN AtRest("cleared") ELSE parent[p]]
  /\ UNCHANGED <<sc, onDisk, meta, api, batch, crossed>>

Crash ==
  /\ "crash" \in sc.events
  /\ parent' = [p \in Parents |-> IF parent[p].status = "running" THEN AtRest("queued") ELSE parent[p]]
  /\ api' = NoRequest
  /\ UNCHANGED <<sc, rows, onDisk, meta, batch, crossed>>

-----------------------------------------------------------------------------
ParentStep(p) ==
  \/ ParentStarts(p) \/ DiscoveryFails(p) \/ SkipSeen(p) \/ ListingLimit(p) \/ CheckGallery(p)
  \/ CheckResource(p) \/ PreflightResource(p) \/ CreateGalleryJob(p)
  \/ CreateResourceJob(p) \/ WriteListing(p) \/ ParentDone(p)

ConfirmStep == (\E i \in Items : ConfirmChecks(i)) \/ ConfirmCreates \/ ConfirmWrites

Next ==
  \/ \E p \in Parents : ParentStep(p) \/ RetryParent(p)
  \/ \E p \in Parents, ids \in SUBSET Items : ConfirmReads(p, ids)
  \/ ConfirmStep
  \/ \E n \in 1..MaxRows : ChildEnds(n) \/ RetryChild(n) \/ CooldownElapses(n)
  \/ \E i \in Items : FileRemoved(i)
  \/ ClearHistory
  \/ Crash

Spec == Init /\ [][Next]_vars

(* Threads and the request go on, a child ends when it has the slot. *)
FairSpec ==
  /\ Spec /\ WF_vars(ConfirmStep)
  /\ \A p \in Parents : WF_vars(ParentStep(p))
  /\ \A n \in 1..MaxRows : WF_vars(ChildEnds(n))

-----------------------------------------------------------------------------
(* Properties.                                                             *)

(* Every variable has its type.                                            *)
TypeOK ==
  /\ sc \in Scenarios
  /\ \A n \in DOMAIN rows : rows[n].item \in Items /\ rows[n].status \in RowStatuses
  /\ onDisk \subseteq Items
  /\ \A p \in Parents :
       /\ parent[p].status \in {"queued", "running", "done", "failed", "cleared"}
       /\ parent[p].pc \in {"rest", "loop", "preflight", "create", "written"}
       /\ \A i \in Items : parent[p].entries[i].status \in EntryStatuses
       /\ batch[p] \in 0..MaxRows
  /\ api.pc \in {"none", "loop", "create"} /\ api.left \subseteq Items
  /\ crossed \subseteq Items

(* No job is created of an item that is being fetched, nor of a gallery    *)
(* that is there, whatever two parents with common items, crashes, clears  *)
(* and requests do.  One order of steps is not guarded by the code, and is *)
(* all that is excepted: between the look that found nothing and this      *)
(* creation somebody else, the confirm request beside a listing in its     *)
(* loop or the retry of a failed child, made a job of the item active.     *)
(* hitomi_existing_gallery_state, civitai_existing_resource_state          *)
LiveStatuses == IF sc.family = "listing" THEN {"active", "done"} ELSE {"active"}
NoDuplicateChildren ==
  [][\A n \in DOMAIN rows' \ DOMAIN rows :
       (\E k \in RowsOf(rows'[n].item) : rows[k].status \in LiveStatuses)
          => rows'[n].item \in crossed]_vars

(* A version is not asked for again while a failure of it is fresh, nor    *)
(* after it failed for good, although between the look at the rows and the *)
(* creation lies a request to the site.  civitai_recent_failed_resource_state *)
FailuresRest ==
  [][\A n \in DOMAIN rows' \ DOMAIN rows :
       sc.family = "image" =>
         \A k \in RowsOf(rows'[n].item) : ~rows[k].recent /\ rows[k].status # "gone_for_good"]_vars

(* A parent that is done has said of every item of its page what became of *)
(* it, up to the limit of a listing, however often it was interrupted.     *)
ItemsAccounted ==
  \A p \in Parents : parent[p].status = "done" =>
    LET on == {Page(p)[i] : i \in DOMAIN Page(p)}
        missing == {i \in on : parent[p].entries[i].status = "none"}
    IN  missing # {} => sc.family = "listing" /\ Cardinality(on \ missing) = sc.limit

(* What the listing's file calls queued has a job of that gallery, also    *)
(* when a confirm request wrote it back after a later run of the listing.  *)
QueuedHasChild ==
  \A p \in Parents, i \in Items :
    meta[p] # NoMeta /\ meta[p][i].status = "queued"
      => meta[p][i].child \in DOMAIN rows /\ rows[meta[p][i].child].item = i

(* What a parent has written of its items is so, whatever interrupted it   *)
(* and whoever wrote beside it.                                            *)
ListingIsTrue == ItemsAccounted /\ QueuedHasChild

(* A queued parent ends and gives the slot to its children, and these end. *)
FamilyEnds ==
  sc.events = {} => /\ \A p \in Parents : parent[p].status = "queued" ~> parent[p].status \in {"done", "failed"}
                    /\ <>[](\A n \in DOMAIN rows : rows[n].status # "active")

=============================================================================
