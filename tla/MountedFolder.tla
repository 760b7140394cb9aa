---------------------------- MODULE MountedFolder ----------------------------
(***************************************************************************)
(* The rules of app/transfer.py for paths and for the folders mounted      *)
(* under DATA_REMOTE_DIR: what a request's path means, when a destination  *)
(* is accepted, how a folder is listed page by page, and what the ComfyUI  *)
(* check finds in it.                                                      *)
(*                                                                         *)
(* A path is a sequence of names.  A tree maps every path that exists      *)
(* below DATA_REMOTE_DIR to a node; <<"..">> stands for anything outside.  *)
(* A raw path is what a request sends: its segments, whether they are      *)
(* joined by backslashes, and whether it starts with "/" or "~".           *)
(***************************************************************************)
EXTENDS Naturals, Sequences, FiniteSetsExt, SequencesExt

CONSTANTS
  Names,       \* names of folders and files
  Lower,       \* each name in lower case
  Rank,        \* the place of each name in the order of lower-case names
  Canonical,   \* COMFYUI_MODEL_FOLDERS: the names ComfyUI itself uses
  AliasOf,     \* COMFYUI_MODEL_FOLDER_ALIASES: other name -> canonical name
  RouteMap,    \* COMFYUI_HUGCIVI_ROUTE_MAP: path under /data -> canonical name
  PageLimit    \* children on one page of a listing

NoCursor == "no cursor"
NotFound == "not found"

ASSUME NamesAssumption == /\ Lower \in [Names -> Names]
                          /\ Rank \in [Names -> Nat]
                          /\ Canonical \subseteq Names
                          /\ DOMAIN AliasOf \subseteq Names \ Canonical
                          /\ \A n \in DOMAIN AliasOf : AliasOf[n] \in Canonical
                          /\ PageLimit \in Nat \ {0}
                          /\ \A q \in DOMAIN RouteMap : q \in Seq(Names) /\ RouteMap[q] \in Canonical
                          /\ IsFiniteSet(Names) /\ {NoCursor, NotFound} \cap Names = {}
\* Names that differ in case only keep the order in which the folder lists them.
ASSUME RankAssumption == \A m, n \in Names : Rank[m] = Rank[n] => m = n

Outside == ".."
DirNode == [kind |-> "dir", to |-> <<>>]
FileNode == [kind |-> "file", to |-> <<>>]
LinkNode(p) == [kind |-> "link", to |-> p]
NoNode == [kind |-> "none", to |-> <<>>]

-----------------------------------------------------------------------------
(* What a raw path means.                                                  *)

Segments == Names \cup {"", ".", Outside, "bad"}
Unsafe(segs) == \E i \in 1..Len(segs) : segs[i] \in {Outside, "bad"}
Skipped(seg) == seg \in {"", "."}
WithSegment(p, seg) == IF Skipped(seg) THEN p ELSE Append(p, seg)
Clean(segs) == LET kept[i \in 0..Len(segs)] == IF i = 0 THEN <<>> ELSE WithSegment(kept[i - 1], segs[i])
               IN  kept[Len(segs)]
Accept(p) == [ok |-> TRUE, path |-> p]
Refuse == [ok |-> FALSE, path |-> <<>>]

\* normalize_remote_path: backslashes separate as well.
RemotePath(raw) == IF raw.rooted \/ Unsafe(raw.segs) THEN Refuse ELSE Accept(Clean(raw.segs))

\* validate_destination_subpath.
DestinationSubpath(raw) == IF raw.back THEN Refuse ELSE RemotePath(raw)

\* normalize_local_mount_remote_path.
MountPath(raw) == IF raw.back \/ Clean(raw.segs) = <<>> THEN Refuse ELSE RemotePath(raw)

-----------------------------------------------------------------------------
(* Where a path leads.  Links lead to a place that is not itself a link.   *)

NodeAt(tree, p) == IF p \in {<<>>, <<Outside>>} THEN DirNode
                   ELSE IF p \in DOMAIN tree THEN tree[p] ELSE NoNode

\* Path.resolve(strict=False): every link on the way is followed.
Followed(tree, p) == LET node == NodeAt(tree, p) IN IF node.kind = "link" THEN node.to ELSE p
Resolved(tree, p) ==
  LET at[i \in 0..Len(p)] == IF i = 0 THEN <<>> ELSE Followed(tree, Append(at[i - 1], p[i]))
  IN  at[Len(p)]

IsThere(tree, p) == NodeAt(tree, Resolved(tree, p)).kind # "none"
IsDir(tree, p) == NodeAt(tree, Resolved(tree, p)).kind = "dir"
IsLink(tree, p) == p # <<>> /\ NodeAt(tree, Append(Resolved(tree, Front(p)), Last(p))).kind = "link"

\* _ensure_resolved_inside.
Inside(tree, p, root) == LET at == Resolved(tree, p)
                         IN  /\ IsPrefix(Resolved(tree, root), at)
                             /\ at = <<>> \/ at[1] # Outside

\* _reject_symlink_components: a link that leads nowhere is not noticed.
CrossesLink(tree, p, root) == \E i \in (Len(root) + 1)..Len(p) :
                                LET q == SubSeq(p, 1, i)
                                IN  IsThere(tree, q) /\ IsLink(tree, q)

\* Mutant of Within: only where the path leads is checked.
WithinResolved(tree, p, root) == Inside(tree, p, root)

\* Both, as every use of a destination checks it.
Within(tree, p, root) == Inside(tree, p, root) /\ ~CrossesLink(tree, p, root)

\* The folders a file lies in.
Above(file) == {SubSeq(file, 1, i) : i \in 1..(Len(file) - 1)}

\* resolve_local_mount_base with require_exists, for a path already normalised.
BaseAccepted(tree, base) == /\ Resolved(tree, base) # <<>>
                            /\ Within(tree, base, <<>>)
                            /\ IsDir(tree, base)

\* Mutant of DestinationAccepted: links on the way are not noticed.
DestinationByPlace(tree, base, sub, mustExist) ==
  LET p == base \o sub
  IN  /\ Inside(tree, p, base)
      /\ mustExist => IsDir(tree, p)

\* resolve_local_mount_destination; the base is accepted.
DestinationAccepted(tree, base, sub, mustExist) ==
  LET p == base \o sub
  IN  /\ Within(tree, p, base)
      /\ mustExist => IsDir(tree, p)

\* _nearest_existing_directory: what exists of p ends in a folder.
RestsOnFolder(tree, p) ==
  \A i \in 1..Len(p) :
    LET q == SubSeq(p, 1, i)
    IN  IsThere(tree, q) /\ (\A k \in (i + 1)..Len(p) : ~IsThere(tree, SubSeq(p, 1, k))) => IsDir(tree, q)

\* _ensure_local_mount_destination_parent for the destination of a source.
ParentAccepted(tree, base, destination, isFile) ==
  LET p == IF isFile THEN Front(destination) ELSE destination
  IN  Within(tree, p, base) /\ RestsOnFolder(tree, p)

-----------------------------------------------------------------------------
(* The folders of a folder, in pages (local_mount_tree).                   *)

ChildDirs(tree, p) ==
  LET at == Resolved(tree, p)
  IN  {n \in Names : NodeAt(tree, Append(at, n)).kind = "dir"}

\* _direct_local_mount_child_dirs: the i-th child has i - 1 before it.
Listed(tree, p) ==
  LET dirs == ChildDirs(tree, p)
      before(n) == {m \in dirs : Rank[m] < Rank[n]}
  IN  [i \in 1..Cardinality(dirs) |-> CHOOSE n \in dirs : Cardinality(before(n)) = i - 1]

PageRefused == [ok |-> FALSE, items |-> <<>>, next |-> NoCursor]

\* Mutant of PageFrom: the child the cursor names comes again.
PageFromCursor(children, cursor) ==
  IF cursor = NoCursor THEN 1 ELSE CHOOSE i \in 1..Len(children) : children[i] = cursor

\* The first child after the one the cursor names.
PageFrom(children, cursor) ==
  IF cursor = NoCursor THEN 1 ELSE 1 + CHOOSE i \in 1..Len(children) : children[i] = cursor

Page(tree, p, cursor) ==
  LET children == Listed(tree, p)
      from == PageFrom(children, cursor)
      items == SubSeq(children, from, Min({Len(children), from + PageLimit - 1}))
  IN  IF cursor # NoCursor /\ cursor \notin ToSet(children) THEN PageRefused
      ELSE [ok |-> TRUE, items |-> items,
            next |-> IF from + PageLimit <= Len(children) THEN Last(items) ELSE NoCursor]

-----------------------------------------------------------------------------
(* The ComfyUI check (check_comfyui_local_mount_target).                   *)

\* _comfyui_model_folder_match.
IsAlias(n) == Lower[n] \in DOMAIN AliasOf
CanonicalName(n) == IF Lower[n] \in Canonical THEN Lower[n] ELSE AliasOf[Lower[n]]
IsModelFolder(n) == Lower[n] \in Canonical \/ IsAlias(n)

\* Mutant of Preferred: the last folder in the listing wins.
PreferredLast(best, n) == n

\* A canonical folder replaces an alias that was listed before it.
Preferred(best, n) == IF IsAlias(best) /\ ~IsAlias(n) THEN n ELSE best

\* _comfyui_found_model_folders: the folder found for each canonical name,
\* after a loop over the folders as they are listed.
Serves(n, c) == IsModelFolder(n) /\ CanonicalName(n) = c
FoundFor(children, c) ==
  LET best[i \in 0..Len(children)] ==
        IF i = 0 THEN NotFound
        ELSE IF ~Serves(children[i], c) THEN best[i - 1]
        ELSE IF best[i - 1] = NotFound THEN children[i] ELSE Preferred(best[i - 1], children[i])
  IN  best[Len(children)]
FoundFolders(tree, p) ==
  [c \in {c \in Canonical : \E n \in ChildDirs(tree, p) : Serves(n, c)} |-> FoundFor(Listed(tree, p), c)]

\* Which of the layouts the folder has, and the path below it of the models.
FirstNamed(tree, p, name) == SelectSeq(Listed(tree, p), LAMBDA n : Lower[n] = name)
Report(kind, sub, found) == [ok |-> TRUE, kind |-> kind, sub |-> sub, found |-> found]
ReportRefused == [ok |-> FALSE, kind |-> "", sub |-> <<>>, found |-> <<>>]

Nested(tree, base) == SelectSeq(FirstNamed(tree, base, "comfyui"),
                                LAMBDA n : IsDir(tree, base \o <<n, "models">>))

Layout(tree, base) ==
  LET models == FirstNamed(tree, base, "models")
      nested == Nested(tree, base)
  IN  IF Lower[Last(base)] = "models" THEN Report("models_root", <<>>, FoundFolders(tree, base))
      ELSE IF IsModelFolder(Last(base))
           THEN Report("single_folder", <<>>, CanonicalName(Last(base)) :> Last(base))
      ELSE IF /\ IsLink(tree, base \o <<"models">>)
              /\ ~DestinationAccepted(tree, base, <<"models">>, TRUE) THEN ReportRefused
      ELSE IF models # <<>>
           THEN Report("comfyui_root", <<models[1]>>, FoundFolders(tree, base \o <<models[1]>>))
      ELSE IF DOMAIN FoundFolders(tree, base) # {}
           THEN Report("models_root", <<>>, FoundFolders(tree, base))
      ELSE IF \E i \in 1..Len(nested) :
                ~DestinationAccepted(tree, base, <<nested[i], "models">>, TRUE) THEN ReportRefused
      ELSE IF nested # <<>>
           THEN Report("generic", <<nested[1], "models">>,
                       FoundFolders(tree, base \o <<nested[1], "models">>))
      ELSE Report("generic", <<>>, <<>>)

\* _comfyui_mapping_folder_checks, for the destination of one mapping.
MappingStatus(tree, base, sub) ==
  IF ~DestinationAccepted(tree, base, sub, FALSE) THEN "invalid"
  ELSE IF ~IsThere(tree, base \o sub) THEN "missing"
  ELSE IF IsDir(tree, base \o sub) THEN "present" ELSE "not_directory"

\* _comfyui_destination_suggestions: for each route the folder to configure,
\* and the folder that is there already under another name.
Suggestion(report, canonical) ==
  [subpath |-> IF report.kind = "single_folder" THEN <<>> ELSE Append(report.sub, canonical),
   status |-> IF canonical \notin DOMAIN report.found THEN "missing"
              ELSE IF IsAlias(report.found[canonical]) THEN "alias_present" ELSE "present"]

-----------------------------------------------------------------------------
(* Which way a source goes.                                                *)

\* The longest prefix of path that is configured; <<>> when none is.
BestPrefix(prefixes, path) ==
  LET fitting == {q \in prefixes : IsPrefix(q, path)}
  IN  IF fitting = {} THEN <<>> ELSE CHOOSE q \in fitting : \A r \in fitting : Len(r) <= Len(q)

\* policy_destination_subpath_for_source, and the default for ComfyUI.
RouteOf(routes, path) ==
  LET best == BestPrefix(DOMAIN routes, path) IN IF best = <<>> THEN <<>> ELSE routes[best]

\* civitai_model_transfer_destination_context: the model's folder, and its
\* version's unless the source is the version's folder itself.
Context(source) ==
  LET prefix == BestPrefix(DOMAIN RouteMap, source.archive)
      rest == SubSeq(source.archive, Len(prefix) + 1, Len(source.archive))
  IN  IF prefix = <<>> \/ Len(rest) < 2 THEN <<>>
      ELSE SubSeq(rest, Len(rest) - 1, Len(rest) - (IF source.path = source.archive THEN 1 ELSE 0))

Overlaps(sub, context) ==
  {n \in 1..Len(context) : n <= Len(sub) /\ SubSeq(sub, Len(sub) - n + 1, Len(sub)) = SubSeq(context, 1, n)}

\* Mutant of WithContext: the shortest overlap is merged.
WithContextLeast(sub, context) ==
  LET n == IF Overlaps(sub, context) = {} THEN 0
           ELSE CHOOSE k \in Overlaps(sub, context) : \A o \in Overlaps(sub, context) : k <= o
  IN  sub \o SubSeq(context, n + 1, Len(context))

\* append_destination_context: the longest overlap is merged.
WithContext(sub, context) ==
  LET n == IF Overlaps(sub, context) = {} THEN 0
           ELSE CHOOSE k \in Overlaps(sub, context) : \A o \in Overlaps(sub, context) : k >= o
  IN  sub \o SubSeq(context, n + 1, Len(context))

=============================================================================
