------------------------------ MODULE MCPatching ------------------------------
(* Instances of Patching for TLC.                                            *)
EXTENDS Patching

B(l, p, a) == [list |-> l, present |-> p, asks |-> a]
SomeBuilds == {B(VllmModules, {"scheduler", "connector", "weight"}, TRUE),
               B(SglangModules, {"weight"}, FALSE)}
=============================================================================
