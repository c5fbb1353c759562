----------------------------- MODULE MCNodeTree -----------------------------
(***************************************************************************)
(* A small instance of NodeTree: a root without handler over a json2click  *)
(* and a pipeline that watches the same directory.  Below the pipeline are *)
(* a pipeset, which watches another directory and has a click2db, another  *)
(* click2db, which always comes too late, and a node without handler.      *)
(***************************************************************************)
EXTENDS NodeTree, TLC

CONSTANTS root, j, l, s, d, c, e, in, out, fj, fc

MCSub == root :> <<j, l>> @@ j :> << >> @@ l :> <<s, c, e>> @@ s :> <<d>>
         @@ d :> << >> @@ c :> << >> @@ e :> << >>
MCHandler == root :> "none" @@ j :> "json2click" @@ l :> "pipeline" @@ s :> "pipeset"
             @@ d :> "click2db" @@ c :> "click2db" @@ e :> "none"
All == {"metricsHost", "watch", "output", "failed", "host", "user", "pass", "table", "tosend"}

\* All there is; and one of them missing.
MCConfigs == {[n \in Nodes |-> All \ X] : X \in {{}, {"table"}, {"metricsHost"}}}
             \union {[[n \in Nodes |-> All] EXCEPT ![s] = @ \ {"watch"}]}

MCDir == root :> NoDir @@ j :> in @@ l :> in @@ s :> out @@ d :> NoDir
         @@ c :> NoDir @@ e :> NoDir
MCFileDir == fj :> in @@ fc :> out
=============================================================================
