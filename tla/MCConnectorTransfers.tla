------------------------- MODULE MCConnectorTransfers -------------------------
(* Instances of ConnectorTransfers for TLC.  The identifiers of threads,     *)
(* layers and transfers are interchangeable.                                 *)
EXTENDS ConnectorTransfers, TLC

Symmetry == Permutations(Threads) \cup Permutations(Layers) \cup Permutations(Transfers)
=============================================================================
