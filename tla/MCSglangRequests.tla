--------------------------- MODULE MCSglangRequests ---------------------------
(* Instances of SglangRequests for TLC.  Requests are interchangeable.       *)
EXTENDS SglangRequests, TLC

Symmetry == Permutations(Requests)
AllBuilds == Build
=============================================================================
