----------------------------- MODULE MCProbedCalls -----------------------------
(* Instances of ProbedCalls for TLC.  EngineCalls says which wrapped methods  *)
(* the engines may call from which, by the lists of methods the probes patch: *)
(* a worker's load calls a model loader's, a controller's transfer is called  *)
(* by the radix cache and may use a disaggregation backend.                   *)
EXTENDS ProbedCalls, TLC

EngineCalls ==
  [f \in Kinds |->
    CASE f = "load" -> {"load", "moe"} \cup Collectives
      [] f = "update" -> {"update"} \cup Collectives
      [] f = "lora" -> {"offload"} \cup Collectives
      [] f = "moe" -> Collectives \cup {"offload"}
      [] f = "tier" -> {"tier", "move"}
      [] f = "move" -> {"move", "disagg"}
      [] f = "disagg" -> {"disagg"}
      [] OTHER -> {}]

Symmetry == Permutations(Threads)
=============================================================================
