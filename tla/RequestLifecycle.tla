--------------------------- MODULE RequestLifecycle ---------------------------
(***************************************************************************)
(* The request records of the vLLM probes: the wrappers of                 *)
(* bkvt/integrations/vllm/scheduler_probe.py and runner_probe.py, which    *)
(* meet in one RequestStateTracker.  The engine thread goes round          *)
(*                                                                         *)
(*    schedule() -> execute_model() -> process_outputs()                   *)
(*                                                                         *)
(* while client threads bring requests in and abort them.  What the engine *)
(* decides is external: which requests it admits, preempts, resumes, runs  *)
(* and finishes, and how its SchedulerOutput names them.                   *)
(*                                                                         *)
(* A call of the tracker is atomic (its lock); between two calls the other *)
(* threads may run.  A schedule() call's number stands for its time.       *)
(* The variables emitted, fin, produced and firstStep are history.         *)
(***************************************************************************)
EXTENDS Integers, FiniteSets

CONSTANTS
  Requests,     \* request ids
  MaxSteps,     \* bound: calls of schedule()
  Chunk,        \* bound: tokens one step is scheduled to do for a request
  Builds        \* the engines to consider, by what the probes find in them

\* lists:   what SchedulerOutput names: the new requests; the cached ones, those
\*            that go on running and the resumed; the preempted; the resumed
\* outputs: execute_model()'s result has outputs with lists of their tokens, has
\*            outputs without ("counts": the scheduled tokens stand in), or has
\*            none ("none": a tensor without request ids)
\* hook:    OutputProcessor has a method for the second first_token hook, and
\*            its result lists the requests
\* aborts:  client threads abort requests
EngineBuild == [lists : SUBSET {"new", "cached", "preempted", "resumed"},
                outputs : {"tokens", "counts", "none"}, hook : BOOLEAN, aborts : BOOLEAN]

ASSUME LifecycleAssumption ==
  /\ MaxSteps \in Nat /\ Chunk \in Nat \ {0}
  /\ Builds \subseteq EngineBuild

VARIABLES
  build,     \* the engine the probes are installed in
  eng,       \* external, eng[r]: what the engine is doing with request r
  epc,       \* where the engine thread is
  step,      \* schedule() calls made so far
  before,    \* running_before of the schedule() call under way
  admitted,  \* admitted_ids of that call
  preempts,  \* preempted_ids of that call
  resumes,   \* resumed_ids of that call, as far as its output names them
  ran,       \* the requests execute_model() has an output for
  sampled,   \* those whose output holds a token; the others' is empty
  todo,      \* requests the loop the engine thread is in has not reached yet
  at,        \* the request the loop of execute_model() is at, as a set
  prev,      \* prev_output of that request
  tracked,   \* keys of RequestStateTracker._states
  state,     \* state[r]: what _states holds for r; a missing key is a default
  emitted,   \* emitted[r][k]: records of kind k emitted for r
  fin,       \* fin[r]: what the finish record of r says, or NoFinish
  produced,  \* produced[r]: tokens the model has produced for r
  firstStep  \* firstStep[r]: the schedule() call that first admitted r, or 0

engineVars  == <<eng, produced, firstStep>>
loopVars    == <<before, admitted, preempts, resumes, ran, sampled, todo, at, prev>>
trackerVars == <<tracked, state>>
vars == <<build, epc, step, engineVars, loopVars, trackerVars, emitted, fin>>

Kinds == {"arrival", "admit", "preempt", "resume", "first_token", "finish", "abort"}

\* What the probes keep of a request: whether the arrival is known, the call
\* that first scheduled it (0: not set), whether first_token_ts_ns is set, and
\* output_tokens_so_far.
Blank == [arrival |-> FALSE, schedule |-> 0, first |-> FALSE, output |-> 0]

NoFinish == <<>>

Init ==
  /\ build \in Builds
  /\ eng = [r \in Requests |-> "absent"]
  /\ epc = "idle" /\ step = 0
  /\ before = {} /\ admitted = {} /\ preempts = {} /\ resumes = {} /\ todo = {}
  /\ ran = {} /\ sampled = {} /\ at = {} /\ prev = 0
  /\ tracked = {}
  /\ state = [r \in Requests |-> Blank]
  /\ emitted = [r \in Requests |-> [k \in Kinds |-> 0]]
  /\ fin = [r \in Requests |-> NoFinish]
  /\ produced = [r \in Requests |-> 0]
  /\ firstStep = [r \in Requests |-> 0]

-----------------------------------------------------------------------------
(* The tracker.                                                            *)

\* update()
Update(r, e) == tracked' = tracked \cup {r} /\ state' = [state EXCEPT ![r] = e]

\* pop()
Forget_BugGet(r) == UNCHANGED trackerVars
Forget(r) == tracked' = tracked \ {r} /\ state' = [state EXCEPT ![r] = Blank]

Emit(r, k) == emitted' = [emitted EXCEPT ![r][k] = @ + 1]

\* set_if_absent(r, "first_schedule_ts_ns", ...)
Scheduled(r) == [state[r] EXCEPT !.schedule = IF @ = 0 THEN step ELSE @]

\* set_if_absent(r, "first_token_ts_ns", ...), and the record if it was absent.
IsFirst(r) == ~state[r].first

FirstToken(r) ==
  /\ Update(r, [state[r] EXCEPT !.first = TRUE])
  /\ IF IsFirst(r) THEN Emit(r, "first_token") ELSE UNCHANGED emitted

-----------------------------------------------------------------------------
(* Client threads.                                                         *)

\* process_inputs(): the engine does not know the request before it returns.
Arrive(r) ==
  /\ eng[r] = "absent"
  /\ eng' = [eng EXCEPT ![r] = "waiting"]
  /\ Update(r, [state[r] EXCEPT !.arrival = TRUE])
  /\ Emit(r, "arrival")
  /\ UNCHANGED <<build, epc, step, produced, firstStep, loopVars, fin>>

\* The finish wrapper, once the engine has let go of the request.
Finalise(r, k) ==
  /\ eng' = [eng EXCEPT ![r] = "done"]
  /\ Forget(r)
  /\ fin' = IF k = "finish" THEN [fin EXCEPT ![r] = state[r]] ELSE fin
  /\ Emit(r, k)

Abort(r) ==
  /\ build.aborts
  /\ eng[r] \in {"waiting", "running", "preempted"}
  /\ Finalise(r, "abort")
  /\ UNCHANGED <<build, epc, step, produced, firstStep, loopVars>>

-----------------------------------------------------------------------------
(* The engine thread: schedule().                                          *)

Are(s) == {r \in Requests : eng[r] = s}

\* _get_running_ids(), of a scheduler that has a list of them.
Running == Are("running")

\* The requests of a set, if SchedulerOutput has a list for their kind.
Listed(kind, S) == IF kind \in build.lists THEN S ELSE {}

\* The wrapped schedule() admits the requests of A, resumes those of R and
\* preempts those of P.  A request that did not run before and is listed as
\* cached counts as admitted.
AdmittedIds(A, R, P) ==
  Listed("new", A) \cup Listed("cached", ((Running \ P) \cup R) \ Running)

\* The wrapper notes what ran before and what the output names.
Schedule ==
  /\ epc = "idle" /\ step < MaxSteps
  /\ step' = step + 1
  /\ \E A \in SUBSET Are("waiting"), R \in SUBSET Are("preempted"), P \in SUBSET Running :
       /\ eng' = [r \in Requests |-> CASE r \in A \cup R -> "running"
                                       [] r \in P -> "preempted"
                                       [] OTHER -> eng[r]]
       /\ firstStep' = [r \in Requests |-> IF r \in A THEN step + 1 ELSE firstStep[r]]
       /\ admitted' = AdmittedIds(A, R, P)
       /\ todo' = AdmittedIds(A, R, P)
       /\ preempts' = Listed("preempted", P)
       /\ resumes' = Listed("resumed", R)
  /\ before' = Running
  /\ epc' = "admit"
  /\ UNCHANGED <<build, ran, sampled, at, prev, trackerVars, emitted, fin, produced>>

\* One turn of the loop over admitted_ids.
Admit(r) ==
  /\ epc = "admit" /\ r \in todo
  /\ todo' = todo \ {r}
  /\ Update(r, Scheduled(r))
  /\ Emit(r, "admit")
  /\ UNCHANGED <<build, epc, step, engineVars, before, admitted, preempts, resumes, ran, sampled, at, prev, fin>>

\* resumed_ids: what the output names, and what runs now, did not run before and
\* was not admitted.
Resumed_BugKeepsAdmitted == resumes \cup (Running \ before)
Resumed == resumes \cup ((Running \ before) \ admitted)

\* The preempt and the resume records, which touch no state of the tracker.
AdmitEnd ==
  /\ epc = "admit" /\ todo = {}
  /\ emitted' = [r \in Requests |->
                   [emitted[r] EXCEPT !["preempt"] = @ + (IF r \in preempts THEN 1 ELSE 0),
                                      !["resume"] = @ + (IF r \in Resumed THEN 1 ELSE 0)]]
  /\ epc' = "execute"
  /\ before' = {} /\ admitted' = {} /\ preempts' = {} /\ resumes' = {}
  /\ UNCHANGED <<build, step, engineVars, ran, sampled, todo, at, prev, trackerVars, fin>>

-----------------------------------------------------------------------------
(* execute_model().                                                        *)

\* The wrapped execute_model() runs the requests of O and samples a token for
\* those of S; the others are in the middle of their prompt.  The wrapper goes
\* through the outputs of the result, if it has any.
Execute ==
  /\ epc = "execute"
  /\ \E O \in SUBSET Running : \E S \in SUBSET O :
       /\ produced' = [r \in Requests |-> IF r \in S THEN produced[r] + 1 ELSE produced[r]]
       /\ ran' = O /\ sampled' = S
       /\ todo' = IF build.outputs = "none" THEN {} ELSE O
  /\ epc' = "read"
  /\ UNCHANGED <<build, step, eng, firstStep, before, admitted, preempts, resumes, at, prev, trackerVars, emitted, fin>>

\* The loop over the outputs: read the count, ...
ReadCount(r) ==
  /\ epc = "read" /\ r \in todo
  /\ at' = {r} /\ todo' = todo \ {r}
  /\ prev' = state[r].output
  /\ epc' = "write"
  /\ UNCHANGED <<build, step, engineVars, before, admitted, preempts, resumes, ran, sampled, trackerVars, emitted, fin>>

\* ... write it back with the tokens added that the output lists, or else with
\* those that were scheduled, which in a prompt are not produced, ...
Produced(r) ==
  IF build.outputs = "tokens" THEN {IF r \in sampled THEN 1 ELSE 0} ELSE 1 .. Chunk

NewCounts_BugSet(r) == Produced(r)
NewCounts(r) == {prev + n : n \in Produced(r)}

WriteCount(r) ==
  /\ epc = "write" /\ r \in at
  /\ \E count \in NewCounts(r) : Update(r, [state[r] EXCEPT !.output = count])
  /\ epc' = "first"
  /\ UNCHANGED <<build, step, engineVars, loopVars, emitted, fin>>

\* ... and see whether this is the request's first output.
MarkFirst(r) ==
  /\ epc = "first" /\ r \in at
  /\ FirstToken(r)
  /\ at' = {} /\ prev' = 0
  /\ epc' = "read"
  /\ UNCHANGED <<build, step, engineVars, before, admitted, preempts, resumes, ran, sampled, todo, fin>>

-----------------------------------------------------------------------------
(* process_outputs().                                                      *)

\* Its result will list the requests that have an output and are not aborted.
ExecuteEnd ==
  /\ epc = "read" /\ todo = {}
  /\ todo' = ran \cap Running
  /\ epc' = "output"
  /\ UNCHANGED <<build, step, engineVars, before, admitted, preempts, resumes, ran, sampled, at, prev, trackerVars, emitted, fin>>

\* Inside it the engine finalises the requests that have got their last token.
Finish(r) ==
  /\ epc = "output"
  /\ r \in sampled /\ eng[r] = "running"
  /\ Finalise(r, "finish")
  /\ UNCHANGED <<build, epc, step, produced, firstStep, loopVars>>

OutputEnd ==
  /\ epc = "output"
  /\ todo' = IF build.hook THEN todo ELSE {}
  /\ epc' = "hook"
  /\ ran' = {} /\ sampled' = {}
  /\ UNCHANGED <<build, step, engineVars, before, admitted, preempts, resumes, at, prev, trackerVars, emitted, fin>>

\* The second first_token hook, once process_outputs() has returned.
Hook(r) ==
  /\ epc = "hook" /\ r \in todo
  /\ todo' = todo \ {r}
  /\ FirstToken(r)
  /\ UNCHANGED <<build, epc, step, engineVars, before, admitted, preempts, resumes, ran, sampled, at, prev, fin>>

HookEnd ==
  /\ epc = "hook" /\ todo = {}
  /\ epc' = "idle"
  /\ UNCHANGED <<build, step, engineVars, loopVars, trackerVars, emitted, fin>>

Engine(r) ==
  \/ Admit(r) \/ ReadCount(r) \/ WriteCount(r) \/ MarkFirst(r) \/ Finish(r) \/ Hook(r)

EngineStep == Schedule \/ AdmitEnd \/ Execute \/ ExecuteEnd \/ OutputEnd \/ HookEnd

Next == EngineStep \/ \E r \in Requests : Arrive(r) \/ Abort(r) \/ Engine(r)

Spec == Init /\ [][Next]_vars

-----------------------------------------------------------------------------
\* The finish record tells the life of its request as far as the engine lets the
\* probes see it, whatever preemptions, resumptions, partial prompts and aborts of
\* other requests came between: always the arrival; where the output names new
\* requests, the step that first scheduled it; where results have outputs, that it
\* has a first token; and every token the model produced, exactly where outputs
\* list tokens, at least where scheduled tokens stand in for them.  Of results
\* without outputs the record says nothing about tokens.
FinishIsComplete ==
  \A r \in Requests : fin[r] # NoFinish =>
    /\ fin[r].arrival
    /\ "new" \in build.lists => fin[r].schedule = firstStep[r]
    /\ build.outputs # "none" => fin[r].first /\ fin[r].output >= produced[r]
    /\ build.outputs = "tokens" => fin[r].output = produced[r]

\* Where no client aborts and no second hook runs, the tracker has, between two
\* rounds of the engine thread, an entry for the requests in the engine and no
\* other: nothing leaks, whether a request was preempted, resumed or finished in
\* the round.
TrackerFollowsEngine ==
  epc = "idle" /\ ~build.aborts /\ ~build.hook =>
    tracked = {r \in Requests : eng[r] \in {"waiting", "running", "preempted"}}

\* The records tell whether a request runs.  In every engine one that runs has
\* been said to be admitted or resumed more often than to be preempted, and one
\* that has not run yet has no such record.  Where the output names the preempted,
\* the count is exact: each time a request begins to run there is one record of
\* it, admit or resume, and each time it is put back one preempt record.  Engines
\* that list a request both as cached and as resumed are left out of that: there
\* it gets an admit and a resume record for one resumption (scheduler_probe.py:282
\* -288, 322-328).  And as long as the engine has not let go of it, a request has
\* at most one first_token record, although two hooks look for the first token.
RecordsTellWhoRuns ==
  \A r \in Requests :
    LET n == emitted[r]["admit"] + emitted[r]["resume"] - emitted[r]["preempt"] IN
    /\ epc = "idle" /\ eng[r] \in {"absent", "waiting"} => n = 0
    /\ epc = "idle" /\ eng[r] = "running" => n >= 1
    /\ "preempted" \in build.lists /\ ~({"cached", "resumed"} \subseteq build.lists) =>
         /\ epc = "idle" /\ eng[r] = "preempted" => n = 0
         /\ epc = "idle" /\ eng[r] = "running" => n = 1
    /\ eng[r] # "done" => emitted[r]["first_token"] <= 1
=============================================================================
