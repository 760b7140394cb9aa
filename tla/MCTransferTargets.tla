------------------------- MODULE MCTransferTargets -------------------------
(* One target, a few paths, and small folders with every kind of node. *)
EXTENDS TransferTargets

MCNames == {"mnt", "other", "models", "Models", "comfyui", "loras", "Loras", "unet",
            "diffusion_models", "x", "a", "m", "f", "sd", "unets"}
MCLower == [n \in MCNames |-> CASE n = "Models" -> "models" [] n = "Loras" -> "loras" [] OTHER -> n]
Ranked == <<"a", "comfyui", "diffusion_models", "f", "loras", "Loras", "m", "mnt", "models",
            "Models", "other", "sd", "unet", "unets", "x">>
MCRank == [n \in MCNames |-> CHOOSE i \in 1..Len(Ranked) : Ranked[i] = n]
MCCanonical == {"loras", "diffusion_models"}
MCAliasOf == [n \in {"unet"} |-> "diffusion_models"]
MCRouteMap == (<<"sd", "loras">> :> "loras") @@ (<<"sd", "unets">> :> "diffusion_models")

Raw(s) == [segs |-> s, back |-> FALSE, rooted |-> FALSE]
Policy(routes) == [allowed |-> {<<"sd">>}, routes |-> routes, preserve |-> TRUE]
NoRoutes == Policy(<<>>)
Routes == Policy((<<"sd">> :> <<"a">>) @@ (<<"sd", "loras">> :> <<"loras">>))
Mount(path, policy) == [Gone EXCEPT !.kind = "local_mount", !.remote_path = path, !.enabled = TRUE, !.policy = policy]
Rclone == [Mount(<<>>, NoRoutes) EXCEPT !.kind = "rclone", !.remote_name = "r"]
Receiver == [Mount(<<>>, Routes) EXCEPT !.kind = "receiver", !.receiver_url = "u", !.receiver_token = "t"]

\* One file in a version's folder, the folder, a file without metadata, and a
\* version named as its model.
Sources ==
  {[path |-> <<"sd", "loras", "m", "x", "f">>, archive |-> <<"sd", "loras", "m", "x">>, isFile |-> TRUE],
   [path |-> <<"sd", "loras", "m", "x">>, archive |-> <<"sd", "loras", "m", "x">>, isFile |-> FALSE],
   [path |-> <<"sd", "loras", "f">>, archive |-> <<>>, isFile |-> TRUE],
   [path |-> <<"sd", "loras", "x", "x", "f">>, archive |-> <<"sd", "loras", "x", "x">>, isFile |-> TRUE]}
PlainFile == {[path |-> <<"sd", "loras", "f">>, archive |-> <<>>, isFile |-> TRUE],
              [path |-> <<"sd", "loras", "x">>, archive |-> <<>>, isFile |-> FALSE]}

Payloads ==
  {[kind |-> "rclone", remote_name |-> "r"], [kind |-> "local_mount", remote_path |-> Raw(<<".", "mnt">>)],
   [kind |-> "receiver", receiver_url |-> "u", receiver_token |-> "t"], [kind |-> "receiver"],
   [remote_name |-> "r"], [remote_path |-> Raw(<<>>)], [remote_path |-> Raw(<<"..", "mnt">>)],
   [receiver_url |-> "u"], [receiver_url |-> ""], [receiver_token |-> "t"], [enabled |-> FALSE],
   [policy |-> Routes], [policy |-> [Routes EXCEPT !.allowed = {}]]}
NewRows ==
  {[kind |-> "rclone", remote_name |-> "r", policy |-> Routes],
   [kind |-> "receiver", receiver_url |-> "u", receiver_token |-> "t", policy |-> Routes],
   [kind |-> "local_mount", remote_path |-> Raw(<<"mnt">>), receiver_token |-> "t", policy |-> Routes],
   [kind |-> "local_mount", remote_path |-> Raw(<<".">>), policy |-> Routes],
   [remote_name |-> "r", receiver_url |-> "u", policy |-> Routes]}
Reroutings == {[policy |-> NoRoutes], [policy |-> Routes], [remote_path |-> Raw(<<"models">>)]}

\* The folder mnt with some of these nodes in it.
Tree(nodes) == (<<"mnt">> :> DirNode) @@ (<<"other">> :> DirNode) @@ nodes
Nodes == {NoNode, DirNode, FileNode, LinkNode(<<"..">>), LinkNode(<<"..", "x">>),
          LinkNode(<<"other">>), LinkNode(<<"mnt", "m">>)}
WithNode(p, node) == IF node = NoNode THEN <<>> ELSE p :> node
LinkTrees == {Tree(WithNode(<<"mnt", "a">>, n) @@ WithNode(<<"mnt", "a", "m">>, k) @@ WithNode(<<"mnt", "m">>, o)) :
                n \in Nodes, k \in {NoNode}, o \in {NoNode, DirNode}}
             \cup {Tree((<<"mnt", "a">> :> DirNode) @@ (<<"mnt", "a", "f">> :> n)) : n \in Nodes \ {NoNode}}
Dirs(paths) == [p \in paths |-> DirNode]
Folders(some) == Tree(Dirs({<<"mnt", n>> : n \in some}))
ListTrees == {Folders(s) : s \in {{"a", "m", "x"}, {"a", "x"}, {"a", "loras", "m", "x"}, {"x"}, {"m", "models"}}}
CheckTrees ==
  {Folders(s) : s \in SUBSET {"loras", "Loras", "unet", "diffusion_models"}}
  \cup {Tree(Dirs({<<"mnt", "Models">>} \cup {<<"mnt", "Models", n>> : n \in s})) :
          s \in SUBSET {"Loras", "unet", "diffusion_models"}}
  \cup {Tree(Dirs({<<"mnt", "comfyui">>, <<"mnt", "comfyui", "models">>, <<"mnt", "comfyui", "models", "loras">>})),
        Tree(Dirs({<<"mnt", "a">>, <<"mnt", "loras">>}) @@ (<<"mnt", "models">> :> LinkNode(<<"other">>)))}

Scenario(r, payloads, sources, subs, trees, evs) ==
  [row |-> r, payloads |-> payloads, sources |-> sources, subpaths |-> subs, trees |-> trees, events |-> evs]
AllScenarios ==
  {Scenario(r, Payloads, {}, {}, {Folders({})}, {"patch", "delete"}) : r \in {Rclone, Receiver, Mount(<<"mnt">>, Routes)}}
  \cup {Scenario(Gone, NewRows, {}, {}, {Folders({})}, {"create", "delete"})}
  \cup {Scenario(r, Reroutings, Sources, {Raw(<<>>), Raw(<<"a", ".", "m">>), Raw(<<"a", "">>), Raw(<<"..">>)},
                 {Folders({})}, {"patch", "file", "resource"}) : r \in {Receiver, Mount(<<"mnt">>, NoRoutes)}}
  \cup {Scenario(Mount(<<"mnt">>, Routes), {}, PlainFile, {Raw(<<"a">>), Raw(<<"a", "m">>)}, LinkTrees, {"file", "owner"})}
  \cup {Scenario(Mount(<<"mnt">>, NoRoutes), {[remote_path |-> Raw(<<"other">>)]}, {}, {}, ListTrees, {"browse", "owner", "patch"})}
  \cup {Scenario(Mount(<<"mnt">>, Routes), {}, {}, {}, CheckTrees, {"owner"})}
=============================================================================
