---------------------------- MODULE SglangRequests ----------------------------
(***************************************************************************)
(* The request records of the SGLang probes (the wrappers of               *)
(* bkvt/integrations/sglang/scheduler_probe.py) and what                   *)
(* analysis/lib/critical_path.py makes of them.                            *)
(*                                                                         *)
(* SGLang's scheduler is one thread that goes round                        *)
(*                                                                         *)
(*   handle_generate_request()*  run_batch()  handle_finished_requests()   *)
(*                                                                         *)
(* What it decides is external: which requests a run_batch() admits,       *)
(* retracts and takes up again, and which are finished or aborted.  The    *)
(* wrapper of run_batch() hears of a decision if the result names the      *)
(* requests; else it compares what runs before and after the call.         *)
(* A number of run_batch() stands for its time.  The variables trace,      *)
(* firstStep and missed are history.                                       *)
(***************************************************************************)
EXTENDS Integers, Sequences

CONSTANTS
  Requests,   \* request ids
  MaxSteps,   \* bound: calls of run_batch()
  Builds      \* the schedulers to consider, by what the probe finds in them

\* names:   what the result of run_batch() has a list of
\* stale:   the scheduler has running_batch and cur_batch, and cur_batch keeps
\*            the last batch that ran
\* nested:  run_batch() may call handle_finished_requests()
\* raises:  run_batch() may raise, and the scheduler go on
Decisions == {"admitted", "preempted", "resumed"}
Build == [names : SUBSET Decisions, stale : BOOLEAN, nested : BOOLEAN, raises : BOOLEAN]

ASSUME SglangAssumption ==
  /\ MaxSteps \in Nat
  /\ Builds \subseteq Build

VARIABLES
  build,      \* the scheduler the probes are installed in
  eng,        \* external, eng[r]: what the scheduler is doing with request r
  cur,        \* external: the requests of cur_batch
  epc,        \* "idle", or "batch" while the wrapped run_batch() runs
  step,       \* run_batch() calls made so far
  before,     \* running_before of the call under way
  decided,    \* external: what that call has admitted, retracted, taken up again
  tracked,    \* keys of RequestStateTracker._states
  state,      \* state[r]: what _states holds for r; a missing key is a default
  trace,      \* trace[r]: the records emitted for r, in order
  firstStep,  \* firstStep[r]: the run_batch() call that first admitted r, or 0
  missed      \* a run_batch() has raised

engineVars  == <<eng, cur, firstStep>>
trackerVars == <<tracked, state>>
vars == <<build, epc, step, before, decided, engineVars, trackerVars, trace, missed>>

\* What the probes keep of a request: whether the arrival is known and the call
\* that first scheduled it (0: not set).
Entry == [arrival : BOOLEAN, schedule : 0 .. MaxSteps]
Blank == [arrival |-> FALSE, schedule |-> 0]

Kinds == {"arrival", "admit", "preempt", "resume", "finish", "abort"}

\* A record: its subtype, arrival_ts_ns being there, first_schedule_ts_ns.
Record == [kind : Kinds, arrival : BOOLEAN, schedule : 0 .. MaxSteps]
Rec(k, a, s) == [kind |-> k, arrival |-> a, schedule |-> s]

Nothing == [d \in Decisions |-> {}]

Init ==
  /\ build \in Builds
  /\ eng = [r \in Requests |-> "absent"] /\ cur = {}
  /\ epc = "idle" /\ step = 0 /\ before = {} /\ decided = Nothing
  /\ tracked = {} /\ state = [r \in Requests |-> Blank]
  /\ trace = [r \in Requests |-> <<>>]
  /\ firstStep = [r \in Requests |-> 0]
  /\ missed = FALSE

Are(s) == {r \in Requests : eng[r] = s}
InEngine == {r \in Requests : eng[r] \in {"waiting", "running", "retracted"}}

\* _get_running_ids(): an empty running_batch is passed over for cur_batch.
RunningIds == IF Are("running") = {} /\ build.stale THEN cur ELSE Are("running")

-----------------------------------------------------------------------------
(* handle_generate_request(): the scheduler has the request when it returns. *)

Generate(r) ==
  /\ epc = "idle" /\ eng[r] = "absent"
  /\ eng' = [eng EXCEPT ![r] = "waiting"]
  /\ tracked' = tracked \cup {r}
  /\ state' = [state EXCEPT ![r].arrival = TRUE]
  /\ trace' = [trace EXCEPT ![r] = Append(@, Rec("arrival", TRUE, 0))]
  /\ UNCHANGED <<build, epc, step, before, decided, cur, firstStep, missed>>

-----------------------------------------------------------------------------
(* run_batch().                                                            *)

\* The wrapper reads what runs, and the wrapped call decides.
RunBatch ==
  /\ epc = "idle" /\ step < MaxSteps
  /\ step' = step + 1
  /\ before' = RunningIds
  /\ \E A \in SUBSET Are("waiting"), R \in SUBSET Are("retracted"), P \in SUBSET Are("running") :
       /\ eng' = [r \in Requests |-> CASE r \in A \cup R -> "running"
                                       [] r \in P -> "retracted"
                                       [] OTHER -> eng[r]]
       /\ cur' = (Are("running") \ P) \cup A \cup R
       /\ decided' = [d \in Decisions |-> CASE d = "admitted" -> A
                                            [] d = "preempted" -> P
                                            [] d = "resumed" -> R]
       /\ firstStep' = [r \in Requests |-> IF r \in A THEN step + 1 ELSE firstStep[r]]
  /\ epc' = "batch"
  /\ UNCHANGED <<build, trackerVars, trace, missed>>

\* What the result names; an empty list counts as none.
Named(d) == IF d \in build.names THEN decided[d] ELSE {}

AdmittedIds_BugNoFallback == Named("admitted")
AdmittedIds == IF Named("admitted") # {} THEN Named("admitted") ELSE RunningIds \ before

PreemptedIds_BugSwapped ==
  IF Named("preempted") # {} THEN Named("preempted") ELSE (RunningIds \ before) \ AdmittedIds
PreemptedIds ==
  IF Named("preempted") # {} THEN Named("preempted") ELSE (before \ RunningIds) \ AdmittedIds

ResumedIds == Named("resumed")

\* set_if_absent(r, "first_schedule_ts_ns", ...)
Scheduled_BugNextStep(r) == [state[r] EXCEPT !.schedule = IF @ = 0 THEN step + 1 ELSE @]
Scheduled(r) == [state[r] EXCEPT !.schedule = IF @ = 0 THEN step ELSE @]

\* The loops over the admitted, the preempted and the resumed requests.
BatchRecords(r) ==
  (IF r \in AdmittedIds THEN <<Rec("admit", state[r].arrival, step)>> ELSE <<>>) \o
  (IF r \in PreemptedIds THEN <<Rec("preempt", FALSE, 0)>> ELSE <<>>) \o
  (IF r \in ResumedIds THEN <<Rec("resume", FALSE, 0)>> ELSE <<>>)

BatchReturns ==
  /\ epc = "batch"
  /\ tracked' = tracked \cup AdmittedIds
  /\ state' = [r \in Requests |-> IF r \in AdmittedIds THEN Scheduled(r) ELSE state[r]]
  /\ trace' = [r \in Requests |-> trace[r] \o BatchRecords(r)]
  /\ epc' = "idle" /\ before' = {} /\ decided' = Nothing
  /\ UNCHANGED <<build, step, engineVars, missed>>

\* The wrapped call raises, after it has decided: the wrapper is left at once.
BatchRaises ==
  /\ epc = "batch" /\ build.raises
  /\ epc' = "idle" /\ before' = {} /\ decided' = Nothing
  /\ missed' = TRUE
  /\ UNCHANGED <<build, step, engineVars, trackerVars, trace>>

-----------------------------------------------------------------------------
(* handle_finished_requests(), given the requests of F, of which those of A *)
(* are aborted.  It may be called from within run_batch().                  *)

\* pop()
Popped_BugGet(F) == tracked
Popped(F) == tracked \ F

Ended(r, A) == IF r \in A THEN "aborted" ELSE "finished"

Outcome_BugAbortIsFinish(r, A) == "finish"
Outcome(r, A) == IF r \in A THEN "abort" ELSE "finish"

FinishRecord_BugAfterPop(r, A) == Rec(Outcome(r, A), FALSE, 0)
FinishRecord(r, A) == Rec(Outcome(r, A), state[r].arrival, state[r].schedule)

HandleFinished ==
  /\ epc = "idle" \/ build.nested
  /\ \E F \in SUBSET InEngine \ {{}} : \E A \in SUBSET F :
       /\ F \ A \subseteq Are("running")
       /\ eng' = [r \in Requests |-> IF r \in F THEN Ended(r, A) ELSE eng[r]]
       /\ tracked' = Popped(F)
       /\ state' = [r \in Requests |-> IF r \in F THEN Blank ELSE state[r]]
       /\ trace' = [r \in Requests |-> IF r \in F THEN Append(trace[r], FinishRecord(r, A)) ELSE trace[r]]
  /\ UNCHANGED <<build, epc, step, before, decided, cur, firstStep, missed>>

Next ==
  \/ RunBatch \/ BatchReturns \/ BatchRaises \/ HandleFinished
  \/ \E r \in Requests : Generate(r)

Spec == Init /\ [][Next]_vars

-----------------------------------------------------------------------------
(* request_lifecycle() of analysis/lib/critical_path.py, for one request.  *)

Has(r, k) == \E i \in DOMAIN trace[r] : trace[r][i].kind = k

\* The field of the first record of kind k (0: there is none).
FirstValue(r, k) ==
  IF Has(r, k) THEN trace[r][CHOOSE i \in DOMAIN trace[r] :
                               /\ trace[r][i].kind = k
                               /\ \A j \in 1 .. i - 1 : trace[r][j].kind # k].schedule
               ELSE 0

FirstSchedule(r) == FirstValue(r, "admit")

Status_BugLastRecord(r) ==
  IF trace[r] # <<>> /\ trace[r][Len(trace[r])].kind \in {"abort", "finish"}
    THEN trace[r][Len(trace[r])].kind ELSE "open"
Status(r) == CASE Has(r, "abort") -> "abort"
               [] Has(r, "finish") /\ ~Has(r, "abort") -> "finish"
               [] OTHER -> "open"

-----------------------------------------------------------------------------
TypeOK ==
  /\ build \in Build
  /\ eng \in [Requests -> {"absent", "waiting", "running", "retracted", "finished", "aborted"}]
  /\ cur \in SUBSET Requests
  /\ epc \in {"idle", "batch"}
  /\ step \in 0 .. MaxSteps
  /\ before \in SUBSET Requests
  /\ decided \in [Decisions -> SUBSET Requests]
  /\ tracked \in SUBSET Requests
  /\ state \in [Requests -> Entry]
  /\ trace \in [Requests -> Seq(Record)]
  /\ firstStep \in [Requests -> 0 .. MaxSteps]
  /\ missed \in BOOLEAN

\* Between two calls the newest record of a request tells what has become of it,
\* although the probe guesses from two looks at the running set: in every
\* scheduler that names resumed requests if it names admitted ones, and whose
\* cur_batch cannot be taken for what runs.  A request that finished inside
\* run_batch() is excepted: it gets a preempt record behind its finish record.
LastRecordTells ==
  epc = "idle" /\ ~build.stale /\ ~missed
    /\ ("admitted" \in build.names => "resumed" \in build.names) =>
    \A r \in Requests : trace[r] # <<>> =>
      LET last == trace[r][Len(trace[r])].kind IN
      /\ eng[r] = "waiting" => last = "arrival"
      /\ eng[r] = "running" => last \in {"admit", "resume"}
      /\ eng[r] = "retracted" => last = "preempt"
      /\ eng[r] = "finished" /\ ~build.nested => last = "finish"
      /\ eng[r] = "aborted" /\ ~build.nested => last = "abort"

\* The row of a request in the analysis (request_lifecycle) is right, however
\* often it is retracted and whatever the probe guesses: its status is open as
\* long as the scheduler has it and finished or aborted, as it was, from then
\* on; and its queueing time is measured to the run_batch() that first admitted
\* it, which is also the time its finish record gives.  A request that came and
\* went within one run_batch() may have no time of scheduling, never a wrong one.
RowIsRight ==
  \A r \in Requests :
    /\ Status(r) = CASE eng[r] = "finished" -> "finish"
                      [] eng[r] = "aborted" -> "abort"
                      [] OTHER -> "open"
    /\ ~missed => FirstSchedule(r) \in {0, firstStep[r]}
    /\ ~missed /\ epc = "idle" /\ ~build.nested => FirstSchedule(r) = firstStep[r]
    /\ ~missed => \A i \in DOMAIN trace[r] :
         trace[r][i].kind \in {"finish", "abort"} =>
           /\ trace[r][i].arrival
           /\ trace[r][i].schedule \in {0, firstStep[r]}
           /\ ~build.nested => trace[r][i].schedule = firstStep[r]

\* Between two calls the tracker has an entry for each request in the scheduler
\* and for no other, whatever is retracted, taken up again or aborted, unless
\* the scheduler finishes requests inside run_batch() and the probe may take one
\* of them for admitted, which enters it again for good.
TrackerFollowsEngine ==
  epc = "idle" /\ ~(build.nested /\ (build.stale \/ "admitted" \in build.names)) =>
    tracked = InEngine
=============================================================================
