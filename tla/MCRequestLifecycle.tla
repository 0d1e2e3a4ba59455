-------------------------- MODULE MCRequestLifecycle --------------------------
(* Instances of RequestLifecycle for TLC.  Requests are interchangeable.  What *)
(* SchedulerOutput names and what execute_model() returns meet in different    *)
(* records: each is varied in full with the other in its usual form.           *)
EXTENDS RequestLifecycle, TLC

Symmetry == Permutations(Requests)

AllNamed == {"new", "cached", "preempted", "resumed"}
ByLists == [lists : SUBSET AllNamed, outputs : {"tokens"}, hook : {TRUE}, aborts : {TRUE}]
ByOutputs == [lists : {AllNamed \ {"resumed"}}, outputs : {"tokens", "counts", "none"}, hook : BOOLEAN, aborts : BOOLEAN]
MCBuilds == ByLists \cup ByOutputs
=============================================================================
