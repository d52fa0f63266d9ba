--------------------------- MODULE MCDeployPipeline ---------------------------
(* Small instances of DeployPipeline.  d1 and d2 are signed images, d3 is   *)
(* not.  (d1, e2) never answers its probe; d2 declares no probe.            *)
EXTENDS DeployPipeline, TLC

CONSTANTS r1, r2, d1, d2, d3, e1, e2

Payload(seq, digest, env, providers) ==
  [seq |-> seq, digest |-> digest, env |-> env, edge |-> providers,
   admissible |-> TRUE]

MCSound == RunSets \ ({[digest |-> d1, env |-> e2]} \cup [digest : {d3}, env : Envs])

(* Two releases, a broken change of env, a return to the first release, an  *)
(* unsigned image and a payload that fails admission.                       *)
MCPayloads ==
  {Payload(1, d1, e1, {"proxy"}),
   Payload(2, d2, e1, {"proxy", "dns"}),
   Payload(2, d1, e2, {"proxy"}),
   Payload(3, d1, e1, {"dns"}),
   Payload(3, d3, e1, {"proxy"}),
   [Payload(3, d2, e1, {}) EXCEPT !.admissible = FALSE]}

(* For the runs where two requests overlap. *)
MCPayloadsOverlap ==
  {Payload(1, d1, e1, {"proxy"}),
   Payload(2, d1, e2, {}),
   Payload(3, d3, e1, {})}

Goroutines == Permutations(Runs)
===============================================================================
