---------------------------- MODULE MCCacheProbes ----------------------------
(* Instances of CacheProbes for TLC.  Blocks and requests are                *)
(* interchangeable.                                                          *)
EXTENDS CacheProbes, TLC

Symmetry == Permutations(Blocks) \cup Permutations(Requests)
AllBuilds == Build
=============================================================================
