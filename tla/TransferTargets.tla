--------------------------- MODULE TransferTargets ---------------------------
(***************************************************************************)
(* The transfer targets of HugCivi: the row a client creates and patches,  *)
(* the destination a copy is previewed with and later made at, and the     *)
(* folder of a local mount as clients list it and the ComfyUI check sees   *)
(* it (app/main.py, app/db.py, app/transfer.py).                           *)
(*                                                                         *)
(* Granularity: a PATCH reads the row, awaits its body, and then validates *)
(* and writes without giving way to another handler of the event loop.     *)
(* A copy is one step here; how it writes is the module TransferCopy.      *)
(***************************************************************************)
EXTENDS Naturals, Sequences, SequencesExt, MountedFolder

CONSTANTS
  Clients,     \* concurrent PATCH requests
  Copies,      \* transfer jobs, each requested once
  Leaf,        \* the file a source folder holds
  TargetScenarios \* row, payloads, sources, subpaths, trees, events

Kinds == {"rclone", "receiver", "local_mount"}
Fields == {"kind", "remote_name", "remote_path", "receiver_url", "receiver_token", "enabled", "policy"}
TransferFields == Fields \ {"enabled", "policy"}

VARIABLES
  setting,  \* the scenario, chosen once
  row,      \* the row of transfer_targets; its kind is "none" when there is none
  patch,    \* a PATCH that awaits its body, with the row it read before
  copy,     \* a transfer job: what its preview promised and what it did
  tree,     \* the folders below DATA_REMOTE_DIR
  reader    \* a client that lists a folder page by page

targetVars == <<setting, row, patch, copy, tree, reader>>

Gone == [kind |-> "none", remote_name |-> "", remote_path |-> <<>>, receiver_url |-> "",
         receiver_token |-> "", enabled |-> FALSE, policy |-> [allowed |-> {}, routes |-> <<>>, preserve |-> TRUE]]
IdlePatch == [pc |-> "idle", current |-> Gone]
NoJob == [pc |-> "none"]
Resting == [pc |-> "rest"]

TargetInit ==
  /\ setting \in TargetScenarios
  /\ row = setting.row
  /\ patch = [c \in Clients |-> IdlePatch]
  /\ copy = [j \in Copies |-> NoJob]
  /\ tree \in setting.trees
  /\ reader = Resting

-----------------------------------------------------------------------------
(* The row.                                                                *)

PathFor(kind, raw) == IF kind = "local_mount" THEN MountPath(raw) ELSE RemotePath(raw)

\* What a payload that leaves a field out counts as sending.
LeftOut(f) == CASE f = "kind" -> "rclone"
               [] f = "remote_path" -> [segs |-> <<>>, back |-> FALSE, rooted |-> FALSE]
               [] f = "enabled" -> TRUE
               [] f = "policy" -> [allowed |-> {}, routes |-> <<>>, preserve |-> TRUE]
               [] OTHER -> ""
Sent(payload, f) == IF f \in DOMAIN payload THEN payload[f] ELSE LeftOut(f)
Asked(payload, partial, f) == ~partial \/ f \in DOMAIN payload
KindSent(payload, partial, current) ==
  IF Asked(payload, partial, "kind") THEN Sent(payload, "kind") ELSE current.kind

\* transfer_target_fields_from_payload: is the payload accepted ...
PayloadValid(payload, partial, current) ==
  LET kind == KindSent(payload, partial, current)
      asked(f) == Asked(payload, partial, f)
  IN  /\ kind \in Kinds
      /\ kind = "rclone" /\ asked("remote_name") => Sent(payload, "remote_name") # ""
      /\ asked("remote_path") => PathFor(kind, Sent(payload, "remote_path")).ok
      /\ kind = "receiver" /\ asked("receiver_url") => Sent(payload, "receiver_url") # ""
      /\ asked("policy") => Sent(payload, "policy").allowed # {}

\* ... and which fields does it set, to what.  A change of kind clears what
\* the new kind does not use, whether it is sent or not.
FieldsFrom(payload, partial, current) ==
  LET kind == KindSent(payload, partial, current)
      asked(f) == Asked(payload, partial, f)
      given(f) == f \in DOMAIN payload
      sets == {f \in Fields : \/ asked(f)
                              \/ f \in {"remote_name", "receiver_url", "receiver_token"} /\ given("kind")}
              \ {f \in {"remote_name", "receiver_url"} :
                   ~given("kind") /\ kind # (IF f = "remote_name" THEN "rclone" ELSE "receiver")
                     /\ (f = "receiver_url" => ~given(f)) /\ (f = "remote_name" => partial)}
  IN  [f \in sets |->
        CASE f = "remote_path" -> PathFor(kind, Sent(payload, f)).path
          [] f = "remote_name" -> IF kind = "rclone" /\ asked(f) THEN Sent(payload, f) ELSE ""
          [] f \in {"receiver_url", "receiver_token"} -> IF kind = "receiver" THEN Sent(payload, f) ELSE ""
          [] OTHER -> Sent(payload, f)]

Over(fields, r) == [f \in Fields |-> IF f \in DOMAIN fields THEN fields[f] ELSE r[f]]

\* validate_transfer_target_update, and what _clean_transfer_target_storage_fields raises on.
FitsKind(r) == CASE r.kind = "rclone" -> r.remote_name # ""
                 [] r.kind = "receiver" -> r.receiver_url # ""
                 [] r.kind = "local_mount" -> r.remote_path # <<>>
                 [] OTHER -> FALSE

\* _clean_transfer_target_storage_fields.
Stored(r) ==
  IF r.kind = "receiver" THEN [r EXCEPT !.remote_name = ""]
  ELSE [r EXCEPT !.receiver_url = "", !.receiver_token = ""]

CreateTarget ==
  /\ "create" \in setting.events
  /\ row.kind = "none"
  /\ \E payload \in setting.payloads :
       LET fields == FieldsFrom(payload, FALSE, Gone)
       IN  /\ PayloadValid(payload, FALSE, Gone)
           /\ FitsKind(Over(fields, Gone))
           /\ row' = Stored(Over(fields, Gone))
  /\ setting' = [setting EXCEPT !.events = @ \ {"create"}]
  /\ UNCHANGED <<patch, copy, tree, reader>>

PatchArrives(c) ==
  /\ "patch" \in setting.events
  /\ patch[c].pc = "idle" /\ row.kind # "none"
  /\ patch' = [patch EXCEPT ![c] = [pc |-> "body", current |-> row]]
  /\ UNCHANGED <<setting, row, copy, tree, reader>>

\* Mutant of UpdateFits: what was checked before is not checked again.
UpdateTrusts(fields, r) == TRUE

\* The row that update_transfer_target completes the fields with: it reads
\* again, and refuses what does not fit the row as it is now.
Merged(fields, r) == IF DOMAIN fields \cap TransferFields = {} THEN Over(fields, r) ELSE Stored(Over(fields, r))
UpdateFits(fields, r) == DOMAIN fields \cap TransferFields # {} => FitsKind(Over(fields, r))

PatchApplies(c) ==
  /\ patch[c].pc = "body"
  /\ \E payload \in setting.payloads :
       LET current == patch[c].current
           fields == FieldsFrom(payload, TRUE, current)
       IN  row' = IF /\ row.kind # "none"
                     /\ PayloadValid(payload, TRUE, current)
                     /\ FitsKind(Over(fields, current))
                     /\ UpdateFits(fields, row)
                  THEN Merged(fields, row) ELSE row
  /\ patch' = [patch EXCEPT ![c] = IdlePatch]
  /\ UNCHANGED <<setting, copy, tree, reader>>

DeleteTarget ==
  /\ "delete" \in setting.events
  /\ row.kind # "none"
  /\ row' = Gone
  /\ UNCHANGED <<setting, patch, copy, tree, reader>>

\* What rows, payloads, raw paths and sources are made of; a row that is there
\* at the beginning was written by this code.
KeepsOwnFields(r) == FitsKind(r) /\ (r.kind # "receiver" => r.receiver_url = "" /\ r.receiver_token = "")
PolicyTyped(policy) ==
  \A q \in DOMAIN policy.routes : q \in Seq(Names) /\ policy.routes[q] \in Seq(Names)
RowTyped(r) == /\ DOMAIN r = Fields /\ r.kind \in Kinds \cup {"none"}
               /\ r.remote_path \in Seq(Names) /\ PolicyTyped(r.policy)
RawTyped(raw) == raw.segs \in Seq(Segments)
PayloadTyped(p) == /\ "remote_path" \in DOMAIN p => RawTyped(p.remote_path)
                   /\ "policy" \in DOMAIN p => PolicyTyped(p.policy)
SourceTyped(src) == src.path \in Seq(Names) \ {<<>>} /\ src.archive \in Seq(Names)
SettingTyped(s) ==
  /\ \A p \in s.payloads : PayloadTyped(p)
  /\ \A raw \in s.subpaths : RawTyped(raw)
  /\ \A src \in s.sources : SourceTyped(src)

ASSUME TargetAssumption ==
  \A s \in TargetScenarios :
    /\ SettingTyped(s) /\ RowTyped(s.row)
    /\ s.row.kind # "none" => KeepsOwnFields(s.row)

-----------------------------------------------------------------------------
(* A copy: its preview, and later the job.                                 *)

\* transfer_source_path.
SourceAllowed(r, src) == \E q \in r.policy.allowed : IsPrefix(q, src.path)

\* path_looks_like_comfyui_models_root.
LooksLikeModels(path) == path # <<>> /\ Lower[Last(path)] = "models"

\* The subpath of a request that names none: for one file the policy's
\* route, for the resources of an image else the default one for ComfyUI.
Routed(r, src) == RouteOf(r.policy.routes, src.path)
ResourceRouted(r, src) ==
  IF Routed(r, src) # <<>> \/ ~LooksLikeModels(r.remote_path) THEN Routed(r, src)
  ELSE LET q == BestPrefix(DOMAIN RouteMap, src.path) IN IF q = <<>> THEN <<>> ELSE <<RouteMap[q]>>

\* transfer_destination_subpath_for_source.
Subpath(src, sub) == WithContext(sub, Context(src))

\* build_remote_destination and its two siblings.
Destination(r, src, sub) ==
  r.remote_path \o sub \o (IF src.isFile \/ r.policy.preserve THEN <<Last(src.path)>> ELSE <<>>)

\* local_mount_preflight; the other kinds look at nothing.
Preflight(r, src, sub) ==
  r.kind = "local_mount" =>
    /\ BaseAccepted(tree, r.remote_path)
    /\ ParentAccepted(tree, r.remote_path, Destination(r, src, sub), src.isFile)

Admitted(r, src, sub) == /\ r.kind # "none" /\ r.enabled
                         /\ SourceAllowed(r, src)
                         /\ Preflight(r, src, sub)

\* The request stores the subpath with the context, and its preview adds the
\* context once more.
RequestCopy(j, src, sub) ==
  LET chosen == Subpath(src, sub)
      shown == Subpath(src, chosen)
  IN  /\ Admitted(row, src, shown)
      /\ copy' = [copy EXCEPT ![j] = [pc |-> "queued", src |-> src, sub |-> chosen, row |-> row,
                                    shown |-> shown, at |-> Destination(row, src, shown)]]
      /\ UNCHANGED <<setting, row, patch, tree, reader>>

RequestFile(j) ==
  /\ "file" \in setting.events /\ copy[j].pc = "none"
  /\ \E src \in setting.sources, raw \in setting.subpaths :
       /\ DestinationSubpath(raw).ok
       /\ RequestCopy(j, src, IF DestinationSubpath(raw).path = <<>> THEN Routed(row, src)
                                                                      ELSE DestinationSubpath(raw).path)

RequestResource(j) ==
  /\ "resource" \in setting.events /\ copy[j].pc = "none"
  /\ \E src \in setting.sources : RequestCopy(j, src, ResourceRouted(row, src))

\* Mutant of RunSubpath: a job without a subpath asks the policy again.
RunSubpathRouted(r, src, sub) == Subpath(src, IF sub = <<>> THEN Routed(r, src) ELSE sub)

\* run_transfer_copy_job adds the context to what the request stored; the
\* preview it makes for the manifest adds it again.
RunSubpath(r, src, sub) == Subpath(src, sub)

\* _copy_source_file_to_local_mount: the same checks of the file itself, and
\* mkdir, which takes a link to a folder for a folder.
MayWrite(r, file) ==
  /\ Within(tree, Front(file), r.remote_path)
  /\ Inside(tree, file, r.remote_path)
  /\ \A q \in Above(file) : IsLink(tree, q) \/ IsThere(tree, q) => IsDir(tree, q)
  /\ ~(IsThere(tree, file) /\ IsLink(tree, file))

\* What is there already is kept, and counts as copied.
Written(file) == [p \in DOMAIN tree \cup Above(file) \cup {file} |->
                   IF p \in DOMAIN tree THEN tree[p] ELSE IF p = file THEN FileNode ELSE DirNode]

RunJob(j) ==
  LET src == copy[j].src
      sub == RunSubpath(row, src, copy[j].sub)
      at == Destination(row, src, sub)
      reported == Subpath(src, sub)
      file == IF src.isFile THEN at ELSE Append(at, Leaf)
      ends(s) == copy' = [copy EXCEPT ![j] = [pc |-> s, was |-> copy[j], sub |-> sub, reported |-> reported, at |-> at,
                                            row |-> row, folder |-> Front(file),
                                            reached |-> Resolved(tree, Front(file))]]
  IN  /\ copy[j].pc = "queued"
      /\ \/ /\ Admitted(row, src, reported)
            /\ row.kind = "local_mount" => MayWrite(row, file)
            /\ tree' = IF row.kind = "local_mount" THEN Written(file) ELSE tree
            /\ ends("done")
         \/ /\ ~ /\ Admitted(row, src, reported)
                 /\ row.kind = "local_mount" => MayWrite(row, file)
            /\ ends("failed")
            /\ UNCHANGED tree
      /\ UNCHANGED <<setting, row, patch, reader>>

\* External: the owner of the mounted folder changes it.
OwnerChanges ==
  /\ "owner" \in setting.events
  /\ tree' \in setting.trees
  /\ UNCHANGED <<setting, row, patch, copy, reader>>

-----------------------------------------------------------------------------
(* A client lists the folder of a local mount, one request per page.       *)

Browsable == /\ row.kind = "local_mount" /\ row.enabled
             /\ BaseAccepted(tree, row.remote_path)

\* api_transfer_local_mount_tree for the page after the cursor.
BrowsePage ==
  LET base == row.remote_path
      first == reader.pc = "rest"
      cursor == IF first THEN NoCursor ELSE reader.cursor
      page == Page(tree, base, cursor)
      there == ChildDirs(tree, base)
  IN  /\ "browse" \in setting.events /\ reader.pc \in {"rest", "more"}
      /\ Browsable /\ page.ok
      /\ reader' = [pc |-> IF page.next = NoCursor THEN "done" ELSE "more",
                    cursor |-> page.next,
                    seen |-> IF first THEN page.items ELSE reader.seen \o page.items,
                    stayed |-> IF first THEN there ELSE reader.stayed \cap there]
      /\ UNCHANGED <<setting, row, patch, copy, tree>>

BrowseRefused ==
  /\ reader.pc = "more"
  /\ ~(Browsable /\ Page(tree, row.remote_path, reader.cursor).ok)
  /\ reader' = Resting
  /\ UNCHANGED <<setting, row, patch, copy, tree>>

-----------------------------------------------------------------------------
TargetNext ==
  \/ CreateTarget \/ DeleteTarget \/ OwnerChanges
  \/ BrowsePage \/ BrowseRefused
  \/ \E c \in Clients : PatchArrives(c) \/ PatchApplies(c)
  \/ \E j \in Copies : RequestFile(j) \/ RequestResource(j) \/ RunJob(j)

TargetSpec == TargetInit /\ [][TargetNext]_targetVars

-----------------------------------------------------------------------------
(* Properties.                                                             *)

\* Rows have their fields, jobs and the reader their states, and every path
\* that exists lies in a folder that exists.
TargetTypeOK ==
  /\ DOMAIN row = Fields /\ row.kind \in Kinds \cup {"none"}
  /\ \A c \in Clients : patch[c].pc \in {"idle", "body"}
  /\ \A j \in Copies : copy[j].pc \in {"none", "queued", "done", "failed"}
  /\ reader.pc \in {"rest", "more", "done"}
  /\ \A p \in DOMAIN tree : Len(p) > 1 => NodeAt(tree, Front(p)).kind = "dir"

\* A stored target always has what its kind needs, and only a receiver keeps
\* a URL and a token, although a PATCH is checked against a row that another
\* PATCH may have given a new kind since.
RowFitsKind == row.kind # "none" => KeepsOwnFields(row)

\* A job copies below the subpath that its request stored, its preview showed
\* and its manifest reports, however the policy's routes change in between,
\* and exactly to the place shown if the target's path and policy are still
\* the same: each of them adds the archive's context once more.
CopyGoesWherePreviewed ==
  \A j \in Copies : copy[j].pc = "done" =>
    LET was == copy[j].was
    IN  /\ {was.sub, was.shown, copy[j].reported} = {copy[j].sub}
        /\ copy[j].row.remote_path = was.row.remote_path /\ copy[j].row.policy = was.row.policy
             => copy[j].at = was.at

\* Whatever links the owner of a mounted folder makes, a job writes inside
\* it, and to the very folder it names.
WritesInside ==
  \A j \in Copies : copy[j].pc = "done" /\ copy[j].row.kind = "local_mount" =>
    /\ copy[j].reached = copy[j].folder
    /\ IsPrefix(copy[j].row.remote_path, copy[j].folder)

\* A copy lands where its preview said, whatever happens to the policy's
\* routes and to the folder in between.
CopyLandsAsPreviewed == CopyGoesWherePreviewed /\ WritesInside

\* A client that gets to the last page has seen every folder that was there
\* all the time, and none twice, although folders come and go between pages
\* and the target may get another path.
PagesCoverFolder ==
  reader.pc = "done" =>
    /\ IsInjective(reader.seen)
    /\ reader.stayed \subseteq ToSet(reader.seen)

\* The ComfyUI check tells what a copy would meet: a mapping it calls present
\* takes files, one it calls invalid or not a folder takes nothing.
CheckForetellsCopy ==
  row.kind = "local_mount" /\ BaseAccepted(tree, row.remote_path) =>
    \A q \in DOMAIN row.policy.routes :
      LET sub == row.policy.routes[q]
          status == MappingStatus(tree, row.remote_path, sub)
          file == row.remote_path \o sub \o <<Leaf>>
      IN  /\ status = "present" => ParentAccepted(tree, row.remote_path, file, TRUE)
          /\ status \in {"invalid", "not_directory"} => ~ParentAccepted(tree, row.remote_path, file, TRUE)

\* What the check suggests agrees with the folders that are there: "present"
\* exactly when a folder has the canonical name, in any order of the listing
\* and whatever other names for it stand beside, "missing" when none has any.
SuggestionsAreTrue ==
  row.kind = "local_mount" /\ BaseAccepted(tree, row.remote_path) =>
    LET report == Layout(tree, row.remote_path)
        folders == ChildDirs(tree, row.remote_path \o report.sub)
    IN  report.ok /\ report.kind \in {"models_root", "comfyui_root"} =>
          \A c \in Canonical :
            /\ Suggestion(report, c).status = "present" <=> \E n \in folders : Lower[n] = c
            /\ Suggestion(report, c).status = "missing"
                 <=> ~\E n \in folders : IsModelFolder(n) /\ CanonicalName(n) = c

\* What the ComfyUI check reports is what a copy would meet.
CheckIsTrue == CheckForetellsCopy /\ SuggestionsAreTrue

\* What the user was told before a copy, by the preview or by the ComfyUI
\* check, is what becomes of it, whatever happens to the policy's routes and
\* to the folder in between.  run_transfer_copy_job,
\* check_comfyui_local_mount_target
CopiesAreForetold == CopyLandsAsPreviewed /\ CheckIsTrue

=============================================================================
