--------------------------- MODULE LifecycleProofs ---------------------------
(***************************************************************************)
(* Proofs about the vLLM request records for every set of requests, any    *)
(* number of schedule() calls and every kind of engine.                    *)
(***************************************************************************)
EXTENDS RequestLifecycle, TLAPS

-----------------------------------------------------------------------------
(* The inductive invariant.                                                *)

Entry == [arrival : BOOLEAN, schedule : 0 .. MaxSteps, first : BOOLEAN, output : Nat]

Places == {"idle", "admit", "execute", "read", "write", "first", "output", "hook"}

Types ==
  /\ build \in EngineBuild
  /\ eng \in [Requests -> {"absent", "waiting", "running", "preempted", "done"}]
  /\ epc \in Places
  /\ step \in 0 .. MaxSteps
  /\ before \in SUBSET Requests /\ admitted \in SUBSET Requests
  /\ preempts \in SUBSET Requests /\ resumes \in SUBSET Requests
  /\ ran \in SUBSET Requests /\ sampled \in SUBSET Requests
  /\ todo \in SUBSET Requests /\ at \in SUBSET Requests
  /\ prev \in Nat
  /\ tracked \in SUBSET Requests
  /\ state \in [Requests -> Entry]
  /\ emitted \in [Requests -> [Kinds -> Nat]]
  /\ produced \in [Requests -> Nat]
  /\ firstStep \in [Requests -> 0 .. MaxSteps]
  /\ fin \in [Requests -> Entry \cup {NoFinish}]

InLoop == epc \in {"read", "write", "first"}

\* No request is listed both as cached, hence admitted, and as resumed.
OneRecordEach == ~({"cached", "resumed"} \subseteq build.lists)

\* Each preemption has its record, and each start of a run has only one.
CountsExact == "preempted" \in build.lists /\ OneRecordEach

\* What the engine thread carries from one step to the next.  A request in one
\* of its sets has been admitted once, whatever has become of it since.
Loops ==
  /\ \A r \in todo \cup at \cup ran \cup before \cup admitted : eng[r] \notin {"absent", "waiting"}
  /\ sampled \subseteq ran
  /\ epc \in {"idle", "execute"} => todo = {}
  /\ epc \notin {"write", "first"} => at = {}
  /\ epc \in {"idle", "admit", "execute", "hook"} => ran = {}
  /\ epc = "admit" => \A r \in todo : eng[r] \in {"running", "done"}
  /\ epc = "admit" => step # 0 /\ todo \subseteq admitted /\ admitted \cap before = {}
  /\ epc = "admit" => \A r \in preempts : eng[r] \in {"preempted", "done"}
  /\ epc = "admit" => \A r \in resumes : eng[r] \in {"running", "done"}
  /\ epc = "admit" => resumes \cap before = {}
  /\ epc = "admit" /\ OneRecordEach => resumes \cap admitted = {}
  /\ InLoop => todo \cup at \subseteq ran /\ todo \cap at = {}
  /\ \A q, r \in at : q = r

Alive(r) == eng[r] # "done"

\* The model has produced a token for r which the loop has not counted yet.
Owed(r) == r \in sampled /\ ((InLoop /\ r \in todo) \/ (epc = "write" /\ r \in at))

ArrivalKnown(r) == eng[r] \in {"waiting", "running", "preempted"} => state[r].arrival

ScheduleKnown(r) ==
  "new" \in build.lists =>
    /\ eng[r] \in {"absent", "waiting"} => firstStep[r] = 0
    /\ eng[r] \in {"running", "preempted"} => firstStep[r] # 0
    /\ Alive(r) => \/ state[r].schedule = firstStep[r]
                   \/ epc = "admit" /\ r \in todo /\ state[r].schedule = 0 /\ firstStep[r] = step

TokensCounted(r) ==
  Alive(r) =>
    /\ epc = "write" /\ r \in at => prev = state[r].output
    /\ build.outputs = "tokens" => produced[r] = state[r].output + (IF Owed(r) THEN 1 ELSE 0)
    /\ build.outputs = "counts" => produced[r] <= state[r].output + (IF Owed(r) THEN 1 ELSE 0)

FirstMarked(r) ==
  Alive(r) =>
    /\ build.outputs # "none" =>
         /\ InLoop /\ r \in ran \ (todo \cup at) => state[r].first
         /\ epc = "output" /\ r \in ran => state[r].first
    /\ emitted[r]["first_token"] = IF state[r].first THEN 1 ELSE 0

FinishRight(r) ==
  fin[r] # NoFinish =>
    /\ eng[r] = "done"
    /\ fin[r].arrival
    /\ "new" \in build.lists => fin[r].schedule = firstStep[r]
    /\ build.outputs # "none" => fin[r].first /\ fin[r].output >= produced[r]
    /\ build.outputs = "tokens" => fin[r].output = produced[r]

\* How often r has begun to run, by its records, less how often it was put back.
Runs(r) == emitted[r]["admit"] + emitted[r]["resume"] - emitted[r]["preempt"]

\* A request that runs and has no record of it yet: schedule() still has to
\* write it.
Unrecorded(r) == epc = "admit" /\ (r \in todo \/ r \notin before \cup admitted)

\* A request that was put back and has no record of that yet.
Unput(r) == epc = "admit" /\ r \in preempts

\* What the records say of r at this point of the round, if each is written.
Told(r) ==
  IF eng[r] = "running" THEN IF Unrecorded(r) THEN 0 ELSE 1 ELSE IF Unput(r) THEN 1 ELSE 0

RunRecorded(r) ==
  Alive(r) =>
    /\ Runs(r) >= Told(r)
    /\ CountsExact \/ eng[r] \in {"absent", "waiting"} => Runs(r) = Told(r)

RequestOK(r) ==
  /\ ArrivalKnown(r) /\ ScheduleKnown(r) /\ TokensCounted(r) /\ FirstMarked(r) /\ FinishRight(r) /\ RunRecorded(r)

InEngine == {r \in Requests : eng[r] \in {"waiting", "running", "preempted"}}

TrackerExact ==
  ~build.aborts /\ ~build.hook =>
    /\ tracked = InEngine
    /\ epc \in {"admit", "read", "write", "first"} => todo \cup at \subseteq InEngine
    /\ epc = "hook" => todo = {}

LifeInv == Types /\ Loops /\ TrackerExact /\ \A r \in Requests : RequestOK(r)

-----------------------------------------------------------------------------
(* Types.                                                                  *)

LEMMA BlankIsEntry == Blank \in Entry /\ MaxSteps \in Nat /\ 0 \in 0 .. MaxSteps
  BY LifecycleAssumption DEF Blank, Entry, LifecycleAssumption

\* What the probes write into an entry.
LEMMA EntryEdits ==
  ASSUME NEW e \in Entry, NEW b \in BOOLEAN, NEW n \in Nat
  PROVE  /\ [e EXCEPT !.arrival = b] \in Entry /\ [e EXCEPT !.first = b] \in Entry
         /\ [e EXCEPT !.output = n] \in Entry
  BY DEF Entry

LEMMA TypesInit == Init => Types
  BY BlankIsEntry, LifecycleAssumption DEF Init, Types, Places, LifecycleAssumption

\* The tracker and the counters of records keep their types.
LEMMA TrackerTypes ==
  ASSUME Types, NEW q \in Requests
  PROVE  /\ \A e \in Entry : Update(q, e) =>
              tracked' \in SUBSET Requests /\ state' \in [Requests -> Entry]
         /\ Forget(q) => tracked' \in SUBSET Requests /\ state' \in [Requests -> Entry]
         /\ \A k \in Kinds : Emit(q, k) => emitted' \in [Requests -> [Kinds -> Nat]]
         /\ FirstToken(q) => /\ tracked' \in SUBSET Requests /\ state' \in [Requests -> Entry]
                             /\ emitted' \in [Requests -> [Kinds -> Nat]]
<1>1. \A e \in Entry : Update(q, e) =>
        tracked' \in SUBSET Requests /\ state' \in [Requests -> Entry]
  BY DEF Types, Update
<1>2. Forget(q) => tracked' \in SUBSET Requests /\ state' \in [Requests -> Entry]
  BY BlankIsEntry DEF Types, Forget
<1>3. \A k \in Kinds : Emit(q, k) => emitted' \in [Requests -> [Kinds -> Nat]]
  BY DEF Types, Emit
<1>4. [state[q] EXCEPT !.first = TRUE] \in Entry /\ "first_token" \in Kinds
  BY EntryEdits DEF Types, Kinds
<1>5. FirstToken(q) => /\ tracked' \in SUBSET Requests /\ state' \in [Requests -> Entry]
                       /\ emitted' \in [Requests -> [Kinds -> Nat]]
  BY <1>1, <1>3, <1>4 DEF FirstToken, Types
<1> QED
  BY <1>1, <1>2, <1>3, <1>5

LEMMA ListedType == ASSUME NEW kind, NEW S \in SUBSET Requests PROVE Listed(kind, S) \in SUBSET Requests
  BY DEF Listed

LEMMA TypesNext == Types /\ [Next]_vars => Types'
<1> SUFFICES ASSUME Types, [Next]_vars PROVE Types'
  OBVIOUS
<1>0. Blank \in Entry /\ MaxSteps \in Nat
  BY BlankIsEntry
<1>1. ASSUME NEW q \in Requests, Arrive(q) PROVE Types'
  <2>1. [state[q] EXCEPT !.arrival = TRUE] \in Entry /\ "arrival" \in Kinds
    BY EntryEdits DEF Types, Kinds
  <2> QED
    BY <1>1, <2>1, TrackerTypes DEF Arrive, Types, loopVars
<1>2. ASSUME NEW q \in Requests, Abort(q) PROVE Types'
  BY <1>2, TrackerTypes DEF Abort, Finalise, Types, loopVars, Kinds
<1>3. ASSUME NEW q \in Requests, Admit(q) PROVE Types'
  <2>1. Scheduled(q) \in Entry /\ "admit" \in Kinds
    BY DEF Types, Entry, Kinds, Scheduled
  <2> QED
    BY <1>3, <2>1, TrackerTypes DEF Admit, Types, engineVars
<1>4. ASSUME NEW q \in Requests, ReadCount(q) PROVE Types'
  BY <1>4 DEF ReadCount, Types, engineVars, trackerVars, Entry, Places
<1>5. ASSUME NEW q \in Requests, WriteCount(q) PROVE Types'
  <2>1. PICK count \in NewCounts(q) : Update(q, [state[q] EXCEPT !.output = count])
    BY <1>5 DEF WriteCount
  <2>2. count \in Nat
    BY <2>1 DEF Types, NewCounts, Produced
  <2>3. [state[q] EXCEPT !.output = count] \in Entry
    BY <2>2, EntryEdits DEF Types
  <2> QED
    BY <1>5, <2>1, <2>3, TrackerTypes DEF WriteCount, Types, engineVars, loopVars, Places
<1>6. ASSUME NEW q \in Requests, MarkFirst(q) PROVE Types'
  BY <1>6, TrackerTypes DEF MarkFirst, Types, engineVars, Places
<1>7. ASSUME NEW q \in Requests, Finish(q) PROVE Types'
  BY <1>7, TrackerTypes DEF Finish, Finalise, Types, loopVars, Kinds
<1>8. ASSUME NEW q \in Requests, Hook(q) PROVE Types'
  BY <1>8, TrackerTypes DEF Hook, Types, engineVars
<1>9. CASE Schedule
  <2>1. PICK A \in SUBSET Are("waiting"), R \in SUBSET Are("preempted"), P \in SUBSET Running :
       /\ eng' = [r \in Requests |-> CASE r \in A \cup R -> "running"
                                       [] r \in P -> "preempted"
                                       [] OTHER -> eng[r]]
       /\ firstStep' = [r \in Requests |-> IF r \in A THEN step + 1 ELSE firstStep[r]]
       /\ admitted' = AdmittedIds(A, R, P)
       /\ todo' = AdmittedIds(A, R, P)
       /\ preempts' = Listed("preempted", P)
       /\ resumes' = Listed("resumed", R)
    BY <1>9 DEF Schedule
  <2>2. AdmittedIds(A, R, P) \in SUBSET Requests /\ Running \in SUBSET Requests
    BY ListedType DEF AdmittedIds, Running, Are
  <2>3. preempts' \in SUBSET Requests /\ resumes' \in SUBSET Requests
    BY <2>1, ListedType DEF Running, Are
  <2>4. eng' \in [Requests -> {"absent", "waiting", "running", "preempted", "done"}]
    BY <2>1 DEF Types
  <2>5. step' \in 0 .. MaxSteps /\ firstStep' \in [Requests -> 0 .. MaxSteps]
    BY <1>0, <1>9, <2>1 DEF Schedule, Types
  <2> QED
    BY <1>9, <2>1, <2>2, <2>3, <2>4, <2>5 DEF Schedule, Types, trackerVars, Places
<1>10. CASE AdmitEnd
  <2>1. emitted' \in [Requests -> [Kinds -> Nat]]
    <3>1. ASSUME NEW r \in Requests
          PROVE  [emitted[r] EXCEPT !["preempt"] = @ + (IF r \in preempts THEN 1 ELSE 0),
                                    !["resume"] = @ + (IF r \in Resumed THEN 1 ELSE 0)] \in [Kinds -> Nat]
      <4> DEFINE p == IF r \in preempts THEN 1 ELSE 0
                 w == IF r \in Resumed THEN 1 ELSE 0
                 f == emitted[r]
      <4>1. p \in Nat /\ w \in Nat /\ f \in [Kinds -> Nat]
        BY DEF Types
      <4> HIDE DEF p, w, f
      <4>2. \A g \in [Kinds -> Nat], n \in Nat, k \in Kinds : [g EXCEPT ![k] = g[k] + n] \in [Kinds -> Nat]
        OBVIOUS
      <4>3. [f EXCEPT !["preempt"] = @ + p, !["resume"] = @ + w] \in [Kinds -> Nat]
        BY <4>1, <4>2 DEF Kinds
      <4> QED
        BY <4>3 DEF p, w, f
    <3> QED
      BY <1>10, <3>1 DEF AdmitEnd
  <2> QED
    BY <1>10, <2>1 DEF AdmitEnd, Types, engineVars, trackerVars, Places
<1>11. CASE Execute
  <2>1. PICK O \in SUBSET Running : \E S \in SUBSET O :
       /\ produced' = [r \in Requests |-> IF r \in S THEN produced[r] + 1 ELSE produced[r]]
       /\ ran' = O /\ sampled' = S
       /\ todo' = IF build.outputs = "none" THEN {} ELSE O
    BY <1>11 DEF Execute
  <2>2. O \in SUBSET Requests
    BY DEF Running, Are
  <2> QED
    BY <1>11, <2>1, <2>2 DEF Execute, Types, trackerVars, Places
<1>12. CASE ExecuteEnd \/ OutputEnd \/ HookEnd
  BY <1>12 DEF ExecuteEnd, OutputEnd, HookEnd, Types, engineVars, trackerVars, loopVars, Places
<1>13. CASE UNCHANGED vars
  BY <1>13 DEF vars, Types, engineVars, trackerVars, loopVars
<1> QED
  BY <1>1, <1>2, <1>3, <1>4, <1>5, <1>6, <1>7, <1>8, <1>9, <1>10, <1>11, <1>12, <1>13
     DEF Next, EngineStep, Engine

-----------------------------------------------------------------------------
(* The engine thread's loops.                                              *)

LEMMA LoopsNext == Types /\ Loops /\ [Next]_vars => Loops'
<1> SUFFICES ASSUME Types, Loops, [Next]_vars PROVE Loops'
  OBVIOUS
<1> USE DEF Loops, InLoop, OneRecordEach
<1>1. ASSUME NEW q \in Requests, Arrive(q) PROVE Loops'
  <2>1. eng[q] = "absent" /\ \A r \in Requests \ {q} : eng'[r] = eng[r]
    BY <1>1 DEF Arrive, Types
  <2>2. UNCHANGED <<build, epc, step, loopVars>>
    BY <1>1 DEF Arrive
  <2> QED
    BY <2>1, <2>2 DEF Types, loopVars
<1>2. ASSUME NEW q \in Requests, Abort(q) \/ Finish(q) PROVE Loops'
  <2>1. eng'[q] = "done" /\ \A r \in Requests \ {q} : eng'[r] = eng[r]
    BY <1>2 DEF Abort, Finish, Finalise, Types
  <2>2. UNCHANGED <<build, epc, step, loopVars>>
    BY <1>2 DEF Abort, Finish
  <2> QED
    BY <2>1, <2>2 DEF Types, loopVars
<1>3. ASSUME NEW q \in Requests, Admit(q) PROVE Loops'
  BY <1>3 DEF Admit, engineVars
<1>4. ASSUME NEW q \in Requests, ReadCount(q) PROVE Loops'
  BY <1>4 DEF ReadCount, engineVars
<1>5. ASSUME NEW q \in Requests, WriteCount(q) PROVE Loops'
  BY <1>5 DEF WriteCount, engineVars, loopVars
<1>6. ASSUME NEW q \in Requests, MarkFirst(q) PROVE Loops'
  BY <1>6 DEF MarkFirst, engineVars
<1>7. ASSUME NEW q \in Requests, Hook(q) PROVE Loops'
  BY <1>7 DEF Hook, engineVars
<1>8. CASE Schedule
  <2>1. PICK A \in SUBSET Are("waiting"), R \in SUBSET Are("preempted"), P \in SUBSET Running :
       /\ eng' = [r \in Requests |-> CASE r \in A \cup R -> "running"
                                       [] r \in P -> "preempted"
                                       [] OTHER -> eng[r]]
       /\ admitted' = AdmittedIds(A, R, P)
       /\ todo' = AdmittedIds(A, R, P)
       /\ preempts' = Listed("preempted", P)
       /\ resumes' = Listed("resumed", R)
    BY <1>8 DEF Schedule
  <2>2. /\ AdmittedIds(A, R, P) \subseteq A \cup R /\ (A \cup R) \cap Running = {}
        /\ preempts' \subseteq P /\ resumes' \subseteq R
        /\ OneRecordEach => resumes' \cap AdmittedIds(A, R, P) = {}
    BY <2>1 DEF AdmittedIds, Listed, Running, Are, OneRecordEach
  <2>3. /\ \A r \in A \cup R \cup Running : r \in Requests /\ eng'[r] \in {"running", "preempted"}
        /\ \A r \in P : eng'[r] = "preempted"
        /\ \A r \in R : eng'[r] = "running"
    BY <2>1 DEF Running, Are
  <2>4. /\ before' = Running /\ epc = "idle" /\ epc' = "admit" /\ step' # 0
        /\ UNCHANGED <<build, ran, sampled, at>>
    BY <1>8 DEF Schedule, Types
  <2>5. OneRecordEach' = OneRecordEach
    BY <2>4 DEF OneRecordEach
  <2>6. \A r \in todo' \cup at' \cup ran' \cup before' \cup admitted' : eng'[r] \notin {"absent", "waiting"}
    BY <2>1, <2>2, <2>3, <2>4
  <2> QED
    BY <2>1, <2>2, <2>3, <2>4, <2>5, <2>6
<1>9. CASE Execute
  <2>1. PICK O \in SUBSET Running : \E S \in SUBSET O :
          ran' = O /\ todo' = (IF build.outputs = "none" THEN {} ELSE O) /\ sampled' = S
    BY <1>9 DEF Execute
  <2>2. \A r \in O : eng[r] = "running"
    BY DEF Running, Are
  <2> QED
    BY <1>9, <2>1, <2>2 DEF Execute
<1>10. CASE AdmitEnd
  BY <1>10 DEF AdmitEnd, engineVars
<1>11. CASE ExecuteEnd
  BY <1>11 DEF ExecuteEnd, engineVars
<1>12. CASE OutputEnd
  BY <1>12 DEF OutputEnd, engineVars
<1>13. CASE HookEnd
  BY <1>13 DEF HookEnd, engineVars, loopVars
<1>14. CASE UNCHANGED vars
  BY <1>14 DEF vars, engineVars, loopVars
<1> QED
  BY <1>1, <1>2, <1>3, <1>4, <1>5, <1>6, <1>7, <1>8, <1>9, <1>10, <1>11, <1>12, <1>13, <1>14
     DEF Next, EngineStep, Engine

-----------------------------------------------------------------------------
(* The tracker's keys.                                                     *)

LEMMA TrackerNext == Types /\ Loops /\ TrackerExact /\ [Next]_vars => TrackerExact'
<1> SUFFICES ASSUME Types, Loops, TrackerExact, [Next]_vars,
                    ~build'.aborts, ~build'.hook
             PROVE  /\ tracked' = InEngine'
                    /\ epc' \in {"admit", "read", "write", "first"} => todo' \cup at' \subseteq InEngine'
                    /\ epc' = "hook" => todo' = {}
  BY DEF TrackerExact
<1>0. build' = build
  BY DEF Next, EngineStep, Engine, Arrive, Abort, Finish, Admit, ReadCount, WriteCount, MarkFirst, Hook,
         Schedule, AdmitEnd, Execute, ExecuteEnd, OutputEnd, HookEnd, vars
<1>00. /\ tracked = InEngine
       /\ epc \in {"admit", "read", "write", "first"} => todo \cup at \subseteq InEngine
       /\ epc = "hook" => todo = {}
       /\ ~build.aborts /\ ~build.hook
  BY <1>0 DEF TrackerExact
<1> USE <1>00
<1>1. ASSUME NEW q \in Requests, Arrive(q) PROVE TrackerExact'
  <2>1. InEngine' = InEngine \cup {q}
    BY <1>1 DEF Arrive, Types, InEngine
  <2> QED
    BY <1>1, <2>1 DEF Arrive, Update, loopVars, TrackerExact
<1>2. ASSUME NEW q \in Requests, Finish(q) PROVE TrackerExact'
  <2>1. InEngine' = InEngine \ {q}
    BY <1>2 DEF Finish, Finalise, Types, InEngine
  <2> QED
    BY <1>2, <2>1 DEF Finish, Finalise, Forget, loopVars, TrackerExact
<1>3. ASSUME NEW q \in Requests, Admit(q) PROVE TrackerExact'
  BY <1>3 DEF Admit, Update, engineVars, TrackerExact, InEngine
<1>4. ASSUME NEW q \in Requests, ReadCount(q) PROVE TrackerExact'
  BY <1>4 DEF ReadCount, trackerVars, engineVars, TrackerExact, InEngine
<1>5. ASSUME NEW q \in Requests, WriteCount(q) PROVE TrackerExact'
  BY <1>5 DEF WriteCount, Update, engineVars, loopVars, TrackerExact, InEngine
<1>6. ASSUME NEW q \in Requests, MarkFirst(q) PROVE TrackerExact'
  BY <1>6 DEF MarkFirst, FirstToken, Update, engineVars, TrackerExact, InEngine
<1>8. CASE Schedule
  <2>1. PICK A \in SUBSET Are("waiting"), R \in SUBSET Are("preempted"), P \in SUBSET Running :
       /\ eng' = [r \in Requests |-> CASE r \in A \cup R -> "running"
                                       [] r \in P -> "preempted"
                                       [] OTHER -> eng[r]]
       /\ admitted' = AdmittedIds(A, R, P)
       /\ todo' = AdmittedIds(A, R, P)
    BY <1>8 DEF Schedule
  <2>2. AdmittedIds(A, R, P) \subseteq A \cup R /\ A \cup R \subseteq InEngine
    BY DEF AdmittedIds, Listed, Running, Are, InEngine
  <2>3. InEngine' = InEngine
    BY <2>1 DEF Running, Are, InEngine
  <2>4. at = {}
    BY <1>8 DEF Loops, Schedule
  <2> QED
    BY <1>8, <2>1, <2>2, <2>3, <2>4 DEF Schedule, trackerVars, TrackerExact
<1>9. CASE Execute
  <2>1. PICK O \in SUBSET Running : ran' = O /\ todo' = (IF build.outputs = "none" THEN {} ELSE O)
    BY <1>9 DEF Execute
  <2>2. O \subseteq InEngine /\ at = {} /\ InEngine' = InEngine
    BY <1>9 DEF Execute, Loops, Running, Are, InEngine
  <2> QED
    BY <1>9, <2>1, <2>2 DEF Execute, trackerVars, TrackerExact
<1>10. CASE AdmitEnd \/ ExecuteEnd \/ OutputEnd \/ HookEnd
  BY <1>10 DEF AdmitEnd, ExecuteEnd, OutputEnd, HookEnd, engineVars, trackerVars, loopVars,
     TrackerExact, InEngine
<1>14. CASE UNCHANGED vars
  BY <1>14 DEF vars, engineVars, trackerVars, loopVars, TrackerExact, InEngine
<1>15. ASSUME NEW q \in Requests, Abort(q) \/ Hook(q) PROVE FALSE
  BY <1>15 DEF Abort, Hook
<1> QED
  BY <1>0, <1>1, <1>2, <1>3, <1>4, <1>5, <1>6, <1>8, <1>9, <1>10, <1>14, <1>15
     DEF Next, EngineStep, Engine, TrackerExact

-----------------------------------------------------------------------------
(* One request.  First what a step may do to it.                           *)

\* schedule(), as request r sees it.
LEMMA ScheduleEffect ==
  ASSUME Types, Loops, Schedule, NEW r \in Requests
  PROVE  /\ epc = "idle" /\ epc' = "admit" /\ step' = step + 1 /\ step' # 0
         /\ UNCHANGED <<build, ran, sampled, at, prev, state, fin, produced, emitted>>
         /\ todo' = admitted' /\ (r \in before' <=> eng[r] = "running")
         /\ \/ /\ eng[r] = "waiting" /\ eng'[r] = "running" /\ firstStep'[r] = step'
               /\ r \notin preempts' /\ ("new" \in build.lists => r \in todo')
            \/ /\ eng[r] = "preempted" /\ eng'[r] = "running" /\ firstStep'[r] = firstStep[r]
               /\ r \notin preempts'
            \/ /\ eng[r] = "running" /\ eng'[r] = "preempted" /\ firstStep'[r] = firstStep[r]
               /\ r \notin todo' /\ ("preempted" \in build.lists => r \in preempts')
            \/ /\ eng'[r] = eng[r] /\ firstStep'[r] = firstStep[r]
               /\ r \notin preempts' /\ r \notin todo'
<1>1. PICK A \in SUBSET Are("waiting"), R \in SUBSET Are("preempted"), P \in SUBSET Running :
       /\ eng' = [q \in Requests |-> CASE q \in A \cup R -> "running"
                                       [] q \in P -> "preempted"
                                       [] OTHER -> eng[q]]
       /\ firstStep' = [q \in Requests |-> IF q \in A THEN step + 1 ELSE firstStep[q]]
       /\ admitted' = AdmittedIds(A, R, P)
       /\ todo' = AdmittedIds(A, R, P)
       /\ preempts' = Listed("preempted", P)
  BY DEF Schedule
<1>2. /\ AdmittedIds(A, R, P) \subseteq A \cup R
      /\ "new" \in build.lists => A \subseteq AdmittedIds(A, R, P)
      /\ preempts' \subseteq P
      /\ "preempted" \in build.lists => preempts' = P
  BY <1>1 DEF AdmittedIds, Listed, Running, Are
<1>3. /\ epc = "idle" /\ epc' = "admit" /\ step' = step + 1 /\ step' # 0 /\ before' = Running
      /\ UNCHANGED <<build, ran, sampled, at, prev, state, fin, produced, emitted>>
  BY DEF Schedule, trackerVars, Types
<1>7. /\ r \in A => eng[r] = "waiting" /\ eng'[r] = "running" /\ firstStep'[r] = step'
      /\ r \in R => eng[r] = "preempted" /\ eng'[r] = "running"
      /\ r \in P => eng[r] = "running" /\ eng'[r] = "preempted"
      /\ r \notin A \cup R \cup P => eng'[r] = eng[r]
      /\ r \notin A => firstStep'[r] = firstStep[r]
  BY <1>1, <1>3 DEF Running, Are
<1>8. r \in before' <=> eng[r] = "running"
  BY <1>3 DEF Running, Are
<1> QED
  BY <1>1, <1>2, <1>3, <1>7, <1>8

\* A record of some other kind or of some other request.
LEMMA EmitEffect ==
  ASSUME Types, NEW q \in Requests, NEW k \in Kinds, Emit(q, k), NEW r \in Requests
  PROVE  /\ \A j \in Kinds : emitted'[r][j] = emitted[r][j] + (IF r = q /\ j = k THEN 1 ELSE 0)
<1>1. emitted \in [Requests -> [Kinds -> Nat]]
  BY DEF Types
<1>2. emitted' = [emitted EXCEPT ![q][k] = emitted[q][k] + 1]
  BY DEF Emit
<1>3. \A j \in Kinds : emitted[r][j] \in Nat
  BY <1>1
<1> QED
  BY <1>1, <1>2, <1>3

LEMMA RunsOfEmit ==
  ASSUME Types, NEW q \in Requests, NEW k \in Kinds, Emit(q, k), NEW r \in Requests
  PROVE  /\ r # q => Runs(r)' = Runs(r) /\ emitted'[r]["first_token"] = emitted[r]["first_token"]
         /\ k \notin {"admit", "resume", "preempt"} => Runs(r)' = Runs(r)
         /\ k = "admit" /\ r = q => Runs(r)' = Runs(r) + 1
         /\ k # "first_token" => emitted'[r]["first_token"] = emitted[r]["first_token"]
         /\ k = "first_token" /\ r = q => emitted'[r]["first_token"] = emitted[r]["first_token"] + 1
<1>1. \A j \in Kinds : emitted[r][j] \in Nat
  BY DEF Types
<1>2. \A j \in Kinds : emitted'[r][j] = emitted[r][j] + (IF r = q /\ j = k THEN 1 ELSE 0)
  BY EmitEffect
<1> QED
  BY <1>1, <1>2 DEF Runs, Kinds

\* first_token, as request r sees it.
LEMMA FirstTokenEffect ==
  ASSUME Types, NEW q \in Requests, FirstToken(q), NEW r \in Requests
  PROVE  /\ state'[r].arrival = state[r].arrival /\ state'[r].schedule = state[r].schedule
         /\ state'[r].output = state[r].output
         /\ state'[r].first = (IF r = q THEN TRUE ELSE state[r].first)
         /\ Runs(r)' = Runs(r)
         /\ emitted'[r]["first_token"] = emitted[r]["first_token"] +
              (IF r = q /\ ~state[r].first THEN 1 ELSE 0)
<1>1. /\ state'[r].arrival = state[r].arrival /\ state'[r].schedule = state[r].schedule
      /\ state'[r].output = state[r].output
      /\ state'[r].first = (IF r = q THEN TRUE ELSE state[r].first)
  BY DEF FirstToken, Update, Types, Entry
<1>2. "first_token" \in Kinds /\ emitted[r]["first_token"] \in Nat
  BY DEF Types, Kinds
<1>3. CASE IsFirst(q)
  <2>1. Emit(q, "first_token")
    BY <1>3 DEF FirstToken
  <2> QED
    BY <1>1, <1>2, <1>3, <2>1, RunsOfEmit DEF IsFirst
<1>4. CASE ~IsFirst(q)
  <2>1. emitted' = emitted
    BY <1>4 DEF FirstToken
  <2> QED
    BY <1>1, <1>2, <1>4, <2>1 DEF Runs, IsFirst
<1> QED
  BY <1>3, <1>4

-----------------------------------------------------------------------------
(* Then that each step keeps its part of the invariant.                    *)

\* A step of another request, or one that concerns none, keeps r as it is.
LEMMA RequestKept ==
  ASSUME NEW r \in Requests, RequestOK(r),
         UNCHANGED <<build, eng[r], state[r], firstStep[r], produced[r], fin[r], Runs(r),
                     emitted[r]["first_token"], step, ran, sampled, prev>>,
         Owed(r)' <=> Owed(r),
         Unrecorded(r)' <=> Unrecorded(r),
         Unput(r)' <=> Unput(r),
         epc = "admit" /\ r \in todo => epc' = "admit" /\ r \in todo',
         InLoop' /\ r \in ran \ (todo' \cup at') => InLoop /\ r \in ran \ (todo \cup at),
         epc' = "output" /\ r \in ran => epc = "output" \/ (InLoop /\ r \notin todo \cup at),
         epc' = "write" /\ r \in at' => epc = "write" /\ r \in at
  PROVE  RequestOK(r)'
<1>1. ArrivalKnown(r)' /\ ScheduleKnown(r)' /\ TokensCounted(r)' /\ FirstMarked(r)' /\ FinishRight(r)'
  BY DEF RequestOK, ArrivalKnown, ScheduleKnown, TokensCounted, FirstMarked, FinishRight, Alive
<1>2. Told(r)' = Told(r) /\ CountsExact' = CountsExact
  BY DEF Told, CountsExact, OneRecordEach
<1>3. RunRecorded(r)'
  BY <1>2 DEF RequestOK, RunRecorded, Alive
<1> QED
  BY <1>1, <1>3 DEF RequestOK

LEMMA RequestInit ==
  ASSUME Init, NEW r \in Requests
  PROVE  RequestOK(r)
  BY DEF Init, Blank, Kinds, RequestOK, ArrivalKnown, ScheduleKnown, TokensCounted, FirstMarked, FinishRight,
     RunRecorded, Alive, Owed, Unrecorded, Unput, Told, Runs, InLoop

LEMMA RequestArrive ==
  ASSUME Types, Loops, NEW r \in Requests, RequestOK(r), NEW q \in Requests, Arrive(q)
  PROVE  RequestOK(r)'
<1>1. /\ eng[q] = "absent" /\ eng' = [eng EXCEPT ![q] = "waiting"]
      /\ state' = [state EXCEPT ![q] = [state[q] EXCEPT !.arrival = TRUE]]
      /\ UNCHANGED <<build, epc, step, produced, firstStep, before, admitted, preempts, ran, sampled, todo, at, prev, fin>>
  BY DEF Arrive, Update, loopVars
<1>2. Runs(r)' = Runs(r) /\ emitted'[r]["first_token"] = emitted[r]["first_token"]
  BY RunsOfEmit DEF Arrive, Kinds
<1>3. CASE r # q
  <2>1. eng'[r] = eng[r] /\ state'[r] = state[r]
    BY <1>1, <1>3 DEF Types
  <2> QED
    BY <1>1, <1>2, <2>1, RequestKept DEF Owed, Unrecorded, Unput, InLoop
<1>4. CASE r = q
  <2>1. /\ eng[r] = "absent" /\ eng'[r] = "waiting" /\ state'[r].arrival /\ state'[r].schedule = state[r].schedule
        /\ state'[r].first = state[r].first /\ state'[r].output = state[r].output
    BY <1>1, <1>4 DEF Types, Entry
  <2> QED
    BY <1>1, <1>2, <2>1
    DEF RequestOK, ArrivalKnown, ScheduleKnown, TokensCounted, FirstMarked, FinishRight, RunRecorded, Alive,
        Owed, InLoop, Unrecorded, Unput, Told, CountsExact, OneRecordEach, Loops
<1> QED
  BY <1>3, <1>4

LEMMA RequestSchedule ==
  ASSUME Types, Loops, NEW r \in Requests, RequestOK(r), Schedule
  PROVE  RequestOK(r)'
<1>1. /\ epc = "idle" /\ epc' = "admit" /\ step' = step + 1 /\ step' # 0
      /\ UNCHANGED <<build, ran, sampled, at, prev, state, fin, produced, emitted>>
      /\ todo' = admitted' /\ (r \in before' <=> eng[r] = "running")
  BY ScheduleEffect
<1>2. \/ /\ eng[r] = "waiting" /\ eng'[r] = "running" /\ firstStep'[r] = step'
         /\ r \notin preempts' /\ ("new" \in build.lists => r \in todo')
      \/ /\ eng[r] = "preempted" /\ eng'[r] = "running" /\ firstStep'[r] = firstStep[r]
         /\ r \notin preempts'
      \/ /\ eng[r] = "running" /\ eng'[r] = "preempted" /\ firstStep'[r] = firstStep[r]
         /\ r \notin todo' /\ ("preempted" \in build.lists => r \in preempts')
      \/ /\ eng'[r] = eng[r] /\ firstStep'[r] = firstStep[r]
         /\ r \notin preempts' /\ r \notin todo'
  BY ScheduleEffect
<1>3. ArrivalKnown(r)' /\ FirstMarked(r)' /\ TokensCounted(r)' /\ FinishRight(r)'
  BY <1>1, <1>2 DEF RequestOK, ArrivalKnown, FirstMarked, TokensCounted, FinishRight, Alive, Owed, InLoop
<1>4. ScheduleKnown(r)'
  BY <1>1, <1>2 DEF RequestOK, ScheduleKnown, Alive
<1>5. RunRecorded(r)'
  <2>1. Runs(r)' = Runs(r) /\ Runs(r) \in Int /\ CountsExact' = CountsExact
    BY <1>1 DEF Runs, Types, Kinds, CountsExact, OneRecordEach
  <2>2. Told(r) = IF eng[r] = "running" THEN 1 ELSE 0
    BY <1>1 DEF Told, Unrecorded, Unput
  <2>3. /\ Alive(r)' => Alive(r) /\ Told(r)' <= Told(r)
        /\ Alive(r)' /\ CountsExact => Told(r)' = Told(r)
        /\ eng'[r] \in {"absent", "waiting"} => eng[r] \in {"absent", "waiting"} /\ Told(r)' = Told(r)
    BY <1>1, <1>2, <2>2 DEF Told, Unrecorded, Unput, Alive, CountsExact
  <2>4. Told(r) \in Int /\ Told(r)' \in Int
    BY DEF Told
  <2> QED
    BY <2>1, <2>3, <2>4 DEF RequestOK, RunRecorded
<1> QED
  BY <1>3, <1>4, <1>5 DEF RequestOK

LEMMA RequestAdmit ==
  ASSUME Types, Loops, NEW r \in Requests, RequestOK(r), NEW q \in Requests, Admit(q)
  PROVE  RequestOK(r)'
<1>1. /\ epc = "admit" /\ q \in todo /\ todo' = todo \ {q} /\ state' = [state EXCEPT ![q] = Scheduled(q)]
      /\ UNCHANGED <<build, epc, step, eng, produced, firstStep, before, admitted, preempts, ran, sampled, at, prev, fin>>
  BY DEF Admit, Update, engineVars
<1>2. /\ Runs(r)' = Runs(r) + (IF r = q THEN 1 ELSE 0)
      /\ emitted'[r]["first_token"] = emitted[r]["first_token"]
  <2>1. Runs(r) \in Int
    BY DEF Types, Kinds, Runs
  <2> QED
    BY <2>1, RunsOfEmit DEF Admit, Kinds
<1>3. CASE r # q
  <2>1. state'[r] = state[r]
    BY <1>1, <1>3 DEF Types
  <2>2. Runs(r)' = Runs(r)
    BY <1>3, RunsOfEmit DEF Admit, Kinds
  <2> QED
    BY <1>1, <1>2, <1>3, <2>1, <2>2, RequestKept DEF Owed, Unrecorded, Unput, InLoop
<1>4. CASE r = q
  <2>1. /\ state'[r].schedule = (IF state[r].schedule = 0 THEN step ELSE state[r].schedule)
        /\ state'[r].arrival = state[r].arrival
        /\ state'[r].first = state[r].first /\ state'[r].output = state[r].output
    BY <1>1, <1>4 DEF Types, Entry, Scheduled
  <2>2. eng[r] \notin {"absent", "waiting"} /\ r \in admitted /\ r \notin before
    BY <1>1, <1>4 DEF Loops
  <2>3. ArrivalKnown(r)' /\ FirstMarked(r)' /\ TokensCounted(r)' /\ FinishRight(r)'
    BY <1>1, <1>2, <2>1
    DEF RequestOK, ArrivalKnown, FirstMarked, TokensCounted, FinishRight, Alive, Owed, InLoop
  <2>4. ScheduleKnown(r)'
    BY <1>1, <2>1, <2>2 DEF RequestOK, ScheduleKnown, Alive, Types
  <2>5. RunRecorded(r)'
    <3>1. eng[r] \in {"running", "done"}
      BY <1>1, <1>4 DEF Loops
    <3>2. Unrecorded(r) /\ ~Unrecorded(r)'
      BY <1>1, <1>4, <2>2 DEF Unrecorded
    <3>3. eng[r] = "running" => Told(r) = 0 /\ Told(r)' = 1
      BY <1>1, <3>2 DEF Told
    <3>4. Runs(r) \in Int /\ Runs(r)' = Runs(r) + 1 /\ CountsExact' = CountsExact
      BY <1>1, <1>2, <1>4 DEF Runs, Types, Kinds, CountsExact, OneRecordEach
    <3> QED
      BY <1>1, <3>1, <3>3, <3>4 DEF RequestOK, RunRecorded, Alive
  <2> QED
    BY <2>3, <2>4, <2>5 DEF RequestOK
<1> QED
  BY <1>3, <1>4

LEMMA RequestAdmitEnd ==
  ASSUME Types, Loops, NEW r \in Requests, RequestOK(r), AdmitEnd
  PROVE  RequestOK(r)'
<1>1. /\ epc = "admit" /\ todo = {} /\ epc' = "execute"
      /\ UNCHANGED <<build, step, eng, produced, firstStep, ran, sampled, todo, at, prev, tracked, state, fin>>
  BY DEF AdmitEnd, engineVars, trackerVars
<1>2. /\ Runs(r)' = Runs(r) + (IF r \in Resumed THEN 1 ELSE 0) - (IF r \in preempts THEN 1 ELSE 0)
      /\ Runs(r) \in Int
      /\ emitted'[r]["first_token"] = emitted[r]["first_token"]
  <2>1. emitted[r] \in [Kinds -> Nat]
    BY DEF Types
  <2>2. emitted'[r] = [emitted[r] EXCEPT !["preempt"] = @ + (IF r \in preempts THEN 1 ELSE 0),
                                         !["resume"] = @ + (IF r \in Resumed THEN 1 ELSE 0)]
    BY DEF AdmitEnd
  <2>3. /\ emitted'[r]["preempt"] = emitted[r]["preempt"] + (IF r \in preempts THEN 1 ELSE 0)
        /\ emitted'[r]["resume"] = emitted[r]["resume"] + (IF r \in Resumed THEN 1 ELSE 0)
        /\ emitted'[r]["admit"] = emitted[r]["admit"]
        /\ emitted'[r]["first_token"] = emitted[r]["first_token"]
    BY <2>1, <2>2 DEF Kinds
  <2> QED
    BY <2>1, <2>3 DEF Kinds, Runs
<1>4. ArrivalKnown(r)' /\ FirstMarked(r)' /\ TokensCounted(r)' /\ FinishRight(r)' /\ ScheduleKnown(r)'
  BY <1>1, <1>2
  DEF RequestOK, ArrivalKnown, FirstMarked, TokensCounted, FinishRight, ScheduleKnown, Alive, Owed, InLoop
<1>5. RunRecorded(r)'
  <2>1. /\ CountsExact' = CountsExact
        /\ Told(r)' = IF eng[r] = "running" THEN 1 ELSE 0
    BY <1>1 DEF CountsExact, OneRecordEach, Told, Unrecorded, Unput
  <2>2. CASE eng[r] = "running"
    <3>1. r \notin preempts
      BY <1>1, <2>2 DEF Loops
    <3>2. Unrecorded(r) <=> r \notin before \cup admitted
      BY <1>1 DEF Unrecorded
    <3>3. Unrecorded(r) => r \in Resumed
      BY <2>2, <3>2 DEF Resumed, Running, Are
    <3>4. CountsExact /\ r \in Resumed => Unrecorded(r)
      BY <1>1, <3>2 DEF Resumed, Loops, CountsExact
    <3>5. Told(r) = IF Unrecorded(r) THEN 0 ELSE 1
      BY <2>2 DEF Told
    <3> QED
      BY <1>1, <1>2, <2>1, <2>2, <3>1, <3>3, <3>4, <3>5 DEF RequestOK, RunRecorded, Alive
  <2>3. CASE eng[r] # "running" /\ eng[r] # "done"
    <3>1. Told(r) = IF r \in preempts THEN 1 ELSE 0
      BY <1>1, <2>3 DEF Told, Unput
    <3>2. r \notin Resumed
      BY <1>1, <2>3 DEF Resumed, Running, Are, Loops
    <3> QED
      BY <1>1, <1>2, <2>1, <2>3, <3>1, <3>2 DEF RequestOK, RunRecorded, Alive
  <2> QED
    BY <1>1, <2>2, <2>3 DEF RunRecorded, Alive
<1> QED
  BY <1>4, <1>5 DEF RequestOK

LEMMA RequestExecute ==
  ASSUME Types, Loops, NEW r \in Requests, RequestOK(r), Execute
  PROVE  RequestOK(r)'
<1>1. PICK O \in SUBSET Running : \E S \in SUBSET O :
       /\ produced' = [q \in Requests |-> IF q \in S THEN produced[q] + 1 ELSE produced[q]]
       /\ ran' = O /\ sampled' = S
       /\ todo' = IF build.outputs = "none" THEN {} ELSE O
  BY DEF Execute
<1>2. /\ epc = "execute" /\ epc' = "read" /\ at = {} /\ todo = {} /\ ran = {}
      /\ UNCHANGED <<build, step, eng, firstStep, before, admitted, preempts, at, prev, tracked, state, emitted, fin>>
  BY DEF Execute, trackerVars, Loops
<1>3. /\ produced'[r] = produced[r] + (IF r \in sampled' THEN 1 ELSE 0)
      /\ build.outputs # "none" => todo' = ran' /\ (r \in sampled' => r \in todo')
      /\ r \in sampled' => eng[r] = "running"
  BY <1>1 DEF Running, Are, Types
<1>4. TokensCounted(r)'
  <2>1. ~Owed(r) /\ (build.outputs # "none" => (Owed(r)' <=> r \in sampled'))
    BY <1>2, <1>3 DEF Owed, InLoop
  <2>2. produced[r] \in Int /\ state[r].output \in Int
    BY DEF Types, Entry
  <2> QED
    BY <1>2, <1>3, <2>1, <2>2 DEF RequestOK, TokensCounted, Alive
<1>5. ArrivalKnown(r)' /\ FirstMarked(r)'
  BY <1>2, <1>3 DEF RequestOK, ArrivalKnown, FirstMarked, Alive, InLoop
<1>7. FinishRight(r)'
  <2>1. fin[r] # NoFinish => produced'[r] = produced[r]
    BY <1>3 DEF RequestOK, FinishRight, Types
  <2> QED
    BY <1>2, <2>1 DEF RequestOK, FinishRight
<1>8. RunRecorded(r)'
  BY <1>2 DEF RequestOK, RunRecorded, Unrecorded, Unput, Told, Runs, Alive, CountsExact, OneRecordEach
<1>6. ScheduleKnown(r)'
  BY <1>2, <1>3 DEF RequestOK, ScheduleKnown, Alive, Types
<1> QED
  BY <1>4, <1>5, <1>6, <1>7, <1>8 DEF RequestOK

LEMMA RequestReadCount ==
  ASSUME Types, Loops, NEW r \in Requests, RequestOK(r), NEW q \in Requests, ReadCount(q)
  PROVE  RequestOK(r)'
<1>1. /\ epc = "read" /\ epc' = "write" /\ q \in todo /\ at' = {q} /\ todo' = todo \ {q} /\ at = {}
      /\ prev' = state[q].output
      /\ UNCHANGED <<build, step, eng, produced, firstStep, before, admitted, preempts, ran, sampled, tracked, state,
                     emitted, fin>>
  BY DEF ReadCount, engineVars, trackerVars, Loops
<1>2. Owed(r)' <=> Owed(r)
  BY <1>1 DEF Owed, InLoop
<1> QED
  BY <1>1, <1>2
  DEF RequestOK, ArrivalKnown, ScheduleKnown, TokensCounted, FirstMarked, FinishRight, RunRecorded, Alive,
      InLoop, Unrecorded, Unput, Told, Runs, CountsExact, OneRecordEach

LEMMA RequestWriteCount ==
  ASSUME Types, Loops, NEW r \in Requests, RequestOK(r), NEW q \in Requests, WriteCount(q)
  PROVE  RequestOK(r)'
<1>1. PICK count \in NewCounts(q) :
      /\ epc = "write" /\ epc' = "first" /\ q \in at
      /\ state' = [state EXCEPT ![q] = [state[q] EXCEPT !.output = count]]
      /\ UNCHANGED <<build, step, eng, produced, firstStep, before, admitted, preempts, ran, sampled, todo, at,
                     prev, emitted, fin>>
  BY DEF WriteCount, Update, engineVars, loopVars
<1>2. CASE r # q
  <2>1. state'[r] = state[r]
    BY <1>1, <1>2 DEF Types
  <2>2. r \notin at
    BY <1>1, <1>2 DEF Loops
  <2> QED
    BY <1>1, <2>1, <2>2, RequestKept DEF Owed, Unrecorded, Unput, InLoop, Runs
<1>3. CASE r = q
  <2>1. /\ state'[r].output = count
        /\ state'[r].arrival = state[r].arrival
        /\ state'[r].first = state[r].first /\ state'[r].schedule = state[r].schedule
    BY <1>1, <1>3 DEF Types, Entry
  <2>2. r \in ran /\ r \in at /\ r \notin todo
    BY <1>1, <1>3 DEF Loops, InLoop
  <2>3. TokensCounted(r)'
    <3>1. ~Owed(r)' /\ (Owed(r) <=> r \in sampled)
      BY <1>1, <2>2 DEF Owed, InLoop
    <3>2. /\ build.outputs = "tokens" => count = prev + (IF r \in sampled THEN 1 ELSE 0)
          /\ build.outputs = "counts" => count >= prev + 1
          /\ count \in Nat /\ prev \in Nat /\ produced[r] \in Nat
      BY <1>1, <1>3 DEF NewCounts, Produced, Types
    <3>3. Alive(r) => prev = state[r].output
      BY <1>1, <2>2 DEF RequestOK, TokensCounted
    <3> QED
      BY <1>1, <2>1, <3>1, <3>2, <3>3 DEF RequestOK, TokensCounted, Alive
  <2> QED
    BY <1>1, <2>1, <2>2, <2>3
    DEF RequestOK, ArrivalKnown, ScheduleKnown, FirstMarked, FinishRight, RunRecorded, Alive,
        InLoop, Unrecorded, Unput, Told, Runs, CountsExact, OneRecordEach
<1> QED
  BY <1>2, <1>3

LEMMA RequestMarkFirst ==
  ASSUME Types, Loops, NEW r \in Requests, RequestOK(r), NEW q \in Requests, MarkFirst(q) \/ Hook(q)
  PROVE  RequestOK(r)'
<1>1. /\ FirstToken(q)
      /\ UNCHANGED <<build, step, eng, produced, firstStep, before, admitted, preempts, ran, sampled, fin>>
      /\ \/ epc = "first" /\ epc' = "read" /\ q \in at /\ at' = {} /\ todo' = todo
         \/ epc = "hook" /\ epc' = "hook" /\ UNCHANGED <<at, prev>>
  BY DEF MarkFirst, Hook, engineVars
<1>2. /\ state'[r].arrival = state[r].arrival /\ state'[r].schedule = state[r].schedule
      /\ state'[r].output = state[r].output
      /\ state'[r].first = (IF r = q THEN TRUE ELSE state[r].first)
      /\ Runs(r)' = Runs(r)
      /\ emitted'[r]["first_token"] = emitted[r]["first_token"] + (IF r = q /\ ~state[r].first THEN 1 ELSE 0)
  BY <1>1, FirstTokenEffect
<1>3. Owed(r)' <=> Owed(r)
  BY <1>1 DEF Owed, InLoop
<1>4. TokensCounted(r)' /\ ArrivalKnown(r)' /\ ScheduleKnown(r)' /\ FinishRight(r)' /\ RunRecorded(r)'
  BY <1>1, <1>2, <1>3
  DEF RequestOK, TokensCounted, ArrivalKnown, ScheduleKnown, FinishRight, RunRecorded, Alive, Unrecorded,
      Unput, Told, CountsExact, OneRecordEach
<1>5. FirstMarked(r)'
  <2>1. r \in at /\ epc = "first" => r = q
    BY <1>1 DEF Loops
  <2>2. emitted[r]["first_token"] \in Nat
    BY DEF Types, Kinds
  <2>3. Alive(r) => emitted'[r]["first_token"] = IF state'[r].first THEN 1 ELSE 0
    BY <1>2, <2>2 DEF RequestOK, FirstMarked
  <2>4. Alive(r) /\ build.outputs # "none" /\ InLoop' /\ r \in ran \ (todo' \cup at') => state'[r].first
    BY <1>1, <1>2, <2>1 DEF RequestOK, FirstMarked, InLoop
  <2> QED
    BY <1>1, <2>3, <2>4 DEF FirstMarked, Alive
<1> QED
  BY <1>4, <1>5 DEF RequestOK

\* What the finish record says is what the invariant says of the entry.
LEMMA RequestFinalise ==
  ASSUME Types, Loops, NEW r \in Requests, RequestOK(r), NEW q \in Requests, Abort(q) \/ Finish(q)
  PROVE  RequestOK(r)'
<1>1. /\ eng' = [eng EXCEPT ![q] = "done"] /\ eng[q] \in {"waiting", "running", "preempted"}
      /\ state' = [state EXCEPT ![q] = Blank]
      /\ UNCHANGED <<build, epc, step, produced, firstStep, before, admitted, preempts, ran, sampled, todo, at, prev>>
      /\ \/ fin' = fin
         \/ fin' = [fin EXCEPT ![q] = state[q]] /\ epc = "output" /\ q \in sampled /\ eng[q] = "running"
      /\ Emit(q, "finish") \/ Emit(q, "abort")
  BY DEF Abort, Finish, Finalise, Forget, loopVars
<1>2. Runs(r)' = Runs(r) /\ emitted'[r]["first_token"] = emitted[r]["first_token"]
  BY <1>1, RunsOfEmit DEF Kinds
<1>3. CASE r # q
  <2>1. eng'[r] = eng[r] /\ state'[r] = state[r]
    BY <1>1, <1>3 DEF Types
  <2>2. fin'[r] = fin[r]
    BY <1>1, <1>3 DEF Types
  <2> QED
    BY <1>1, <1>2, <2>1, <2>2, RequestKept DEF Owed, Unrecorded, Unput, InLoop
<1>4. CASE r = q
  <2>1. eng'[r] = "done" /\ eng[r] # "done"
    BY <1>1, <1>4 DEF Types
  <2>2. fin[r] = NoFinish
    BY <2>1 DEF RequestOK, FinishRight
  <2>3. FinishRight(r)'
    <3>1. CASE fin' = fin
      BY <2>2, <3>1 DEF FinishRight
    <3>2. CASE fin' = [fin EXCEPT ![q] = state[q]] /\ epc = "output" /\ q \in sampled /\ eng[q] = "running"
      <4>1. state[r].arrival
        BY <1>4, <3>2 DEF RequestOK, ArrivalKnown
      <4>2. "new" \in build.lists => state[r].schedule = firstStep[r]
        BY <1>4, <3>2 DEF RequestOK, ScheduleKnown, Alive
      <4>3. build.outputs # "none" => state[r].first
        BY <1>4, <3>2 DEF RequestOK, FirstMarked, Alive, Loops
      <4>4. /\ build.outputs = "tokens" => state[r].output = produced[r]
            /\ build.outputs = "counts" => state[r].output >= produced[r]
        BY <1>4, <3>2 DEF RequestOK, TokensCounted, Owed, InLoop, Alive, Types, Entry
      <4>5. build.outputs \in {"tokens", "counts", "none"} /\ produced[r] \in Nat
        BY DEF Types, EngineBuild
      <4>6. fin'[r] = state[r]
        BY <1>4, <3>2 DEF Types
      <4> QED
        BY <1>1, <2>1, <4>1, <4>2, <4>3, <4>4, <4>5, <4>6 DEF FinishRight
    <3> QED
      BY <1>1, <3>1, <3>2
  <2> QED
    BY <2>1, <2>3
    DEF RequestOK, ArrivalKnown, ScheduleKnown, TokensCounted, FirstMarked, RunRecorded, Alive
<1> QED
  BY <1>3, <1>4

LEMMA RequestElsewhere ==
  ASSUME Types, Loops, NEW r \in Requests, RequestOK(r),
         ExecuteEnd \/ OutputEnd \/ HookEnd \/ UNCHANGED vars
  PROVE  RequestOK(r)'
<1>1. UNCHANGED <<build, eng, state, firstStep, produced, fin, emitted, step, prev, at, before, admitted, preempts>>
  BY DEF ExecuteEnd, OutputEnd, HookEnd, vars, engineVars, loopVars, trackerVars
<1>2. CASE ExecuteEnd
  BY <1>1, <1>2, RequestKept DEF ExecuteEnd, Loops, Owed, Unrecorded, Unput, InLoop, Runs
<1>3. CASE OutputEnd
  BY <1>1, <1>3
  DEF OutputEnd, RequestOK, ArrivalKnown, ScheduleKnown, TokensCounted, FirstMarked, FinishRight, RunRecorded,
      Alive, Owed, InLoop, Unrecorded, Unput, Told, Runs, CountsExact, OneRecordEach
<1>4. CASE HookEnd \/ UNCHANGED vars
  BY <1>1, <1>4, RequestKept DEF HookEnd, vars, loopVars, Owed, Unrecorded, Unput, InLoop, Runs
<1> QED
  BY <1>2, <1>3, <1>4

-----------------------------------------------------------------------------
LEMMA LifeInit == Init => LifeInv
<1> SUFFICES ASSUME Init PROVE LifeInv
  OBVIOUS
<1>1. Loops /\ TrackerExact
  BY DEF Init, Loops, TrackerExact, InEngine, InLoop
<1> QED
  BY <1>1, TypesInit, RequestInit DEF LifeInv

LEMMA LifeNext == LifeInv /\ [Next]_vars => LifeInv'
<1> SUFFICES ASSUME LifeInv, [Next]_vars PROVE LifeInv'
  OBVIOUS
<1> USE DEF LifeInv
<1>1. Types' /\ Loops' /\ TrackerExact'
  BY TypesNext, LoopsNext, TrackerNext
<1>2. ASSUME NEW r \in Requests PROVE RequestOK(r)'
  BY RequestArrive, RequestSchedule, RequestAdmit, RequestAdmitEnd, RequestExecute, RequestReadCount,
     RequestWriteCount, RequestMarkFirst, RequestFinalise, RequestElsewhere DEF Next, EngineStep, Engine
<1> QED
  BY <1>1, <1>2

\* The finish record tells the life of its request as far as the engine lets the
\* probes see it: its arrival always; its first schedule() call, where the output
\* names new requests; a first token and at least the tokens produced, where the
\* results have outputs; just the tokens produced, where these list their tokens.
THEOREM LifecycleFinishIsComplete == Spec => []FinishIsComplete
<1>1. LifeInv => FinishIsComplete
  BY DEF LifeInv, RequestOK, FinishRight, FinishIsComplete
<1> QED
  BY <1>1, LifeInit, LifeNext, PTL DEF Spec

\* Where no client aborts and no second hook runs, the tracker leaks nothing
\* and forgets nothing.
THEOREM LifecycleTrackerFollowsEngine == Spec => []TrackerFollowsEngine
<1>1. LifeInv => TrackerFollowsEngine
  BY DEF LifeInv, TrackerExact, InEngine, TrackerFollowsEngine
<1> QED
  BY <1>1, LifeInit, LifeNext, PTL DEF Spec

\* The records of a request tell whether it runs: in every engine there is at least one
\* more admit or resume than preempt record for a request that runs, and where the
\* output names the preempted and lists no resumed request as cached as well, the
\* difference is exactly one, and none for a request that was put back.
THEOREM LifecycleRecordsTellWhoRuns == Spec => []RecordsTellWhoRuns
<1>1. LifeInv => RecordsTellWhoRuns
  <2> SUFFICES ASSUME LifeInv, NEW r \in Requests
               PROVE  /\ epc = "idle" /\ eng[r] \in {"absent", "waiting"} => Runs(r) = 0
                      /\ epc = "idle" /\ eng[r] = "running" => Runs(r) >= 1
                      /\ CountsExact =>
                           /\ epc = "idle" /\ eng[r] = "preempted" => Runs(r) = 0
                           /\ epc = "idle" /\ eng[r] = "running" => Runs(r) = 1
                      /\ eng[r] # "done" => emitted[r]["first_token"] <= 1
    BY DEF RecordsTellWhoRuns, Runs, CountsExact, OneRecordEach
  <2>1. epc = "idle" => Told(r) = IF eng[r] = "running" THEN 1 ELSE 0
    BY DEF Told, Unrecorded, Unput
  <2> QED
    BY <2>1 DEF LifeInv, RequestOK, RunRecorded, FirstMarked, Alive
<1> QED
  BY <1>1, LifeInit, LifeNext, PTL DEF Spec
=============================================================================
