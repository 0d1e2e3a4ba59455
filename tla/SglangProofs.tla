------------------------------ MODULE SglangProofs ------------------------------
(***************************************************************************)
(* Proofs about the SGLang request records for every set of requests, any  *)
(* number of run_batch() calls and every kind of scheduler.                *)
(***************************************************************************)
EXTENDS SglangRequests, SequenceTheorems, TLAPS

\* A run_batch() that is under way and has not finished a request itself has
\* admitted what is running, and cur_batch is then what runs.
BatchIsAsDecided ==
  epc = "batch" /\ ~build.nested =>
    /\ cur = Are("running")
    /\ decided["admitted"] \subseteq Are("running")

\* TrackerFollowsEngine holds during a run_batch() as well.
TrackedInStep ==
  ~(build.nested /\ (build.stale \/ "admitted" \in build.names)) => tracked = InEngine

TrackerInv == TypeOK /\ BatchIsAsDecided /\ TrackedInStep

-----------------------------------------------------------------------------
(* Types.                                                                  *)

LEMMA RecIsRecord ==
  ASSUME NEW k \in Kinds, NEW a \in BOOLEAN, NEW s \in 0 .. MaxSteps
  PROVE  Rec(k, a, s) \in Record
  BY DEF Rec, Record

LEMMA TypesOfStates ==
  ASSUME TypeOK, NEW r \in Requests
  PROVE  /\ state[r] \in Entry
         /\ state[r].arrival \in BOOLEAN /\ state[r].schedule \in 0 .. MaxSteps
         /\ Blank \in Entry
  BY SglangAssumption DEF TypeOK, Entry, Blank, SglangAssumption

LEMMA BatchRecordsType ==
  ASSUME TypeOK, NEW r \in Requests
  PROVE  BatchRecords(r) \in Seq(Record)
<1>0. 0 \in 0 .. MaxSteps /\ FALSE \in BOOLEAN
  BY SglangAssumption DEF SglangAssumption
<1>1. Rec("admit", state[r].arrival, step) \in Record
  BY TypesOfStates, RecIsRecord DEF TypeOK, Kinds
<1>2. Rec("preempt", FALSE, 0) \in Record /\ Rec("resume", FALSE, 0) \in Record
  BY <1>0, RecIsRecord DEF Kinds
<1> DEFINE a == IF r \in AdmittedIds THEN <<Rec("admit", state[r].arrival, step)>> ELSE <<>>
           p == IF r \in PreemptedIds THEN <<Rec("preempt", FALSE, 0)>> ELSE <<>>
           s == IF r \in ResumedIds THEN <<Rec("resume", FALSE, 0)>> ELSE <<>>
<1>3. a \in Seq(Record) /\ p \in Seq(Record) /\ s \in Seq(Record)
  <2>1. <<>> \in Seq(Record) /\ \A x \in Record : <<x>> \in Seq(Record)
    OBVIOUS
  <2> QED
    BY <1>1, <1>2, <2>1, Zenon
<1>4. BatchRecords(r) = (a \o p) \o s
  BY DEF BatchRecords
<1> HIDE DEF a, p, s
<1> QED
  BY <1>3, <1>4, ConcatProperties

LEMMA TypeInit == Init => TypeOK
<1> SUFFICES ASSUME Init PROVE TypeOK
  OBVIOUS
<1>1. build \in Build
  BY SglangAssumption DEF Init, SglangAssumption
<1>2. Blank \in Entry /\ 0 \in 0 .. MaxSteps
  BY SglangAssumption DEF Entry, Blank, SglangAssumption
<1>3. decided \in [Decisions -> SUBSET Requests]
  BY DEF Init, Nothing
<1>4. trace \in [Requests -> Seq(Record)]
  BY DEF Init
<1> QED
  BY <1>1, <1>2, <1>3, <1>4 DEF Init, TypeOK

LEMMA TypeNext == TypeOK /\ [Next]_vars => TypeOK'
<1> SUFFICES ASSUME TypeOK, [Next]_vars PROVE TypeOK'
  OBVIOUS
<1>0. /\ Nothing \in [Decisions -> SUBSET Requests] /\ Blank \in Entry
      /\ MaxSteps \in Nat /\ 0 \in 0 .. MaxSteps /\ TRUE \in BOOLEAN
  BY SglangAssumption DEF Nothing, Entry, Blank, SglangAssumption
<1>1. ASSUME NEW q \in Requests, Generate(q) PROVE TypeOK'
  <2>1. Rec("arrival", TRUE, 0) \in Record
    BY <1>0, RecIsRecord DEF Kinds
  <2>2. trace' \in [Requests -> Seq(Record)]
    <3>1. trace[q] \in Seq(Record)
      BY DEF TypeOK
    <3>2. Append(trace[q], Rec("arrival", TRUE, 0)) \in Seq(Record)
      BY <2>1, <3>1, AppendProperties
    <3> QED
      BY <1>1, <3>2 DEF Generate, TypeOK
  <2>3. state' \in [Requests -> Entry]
    BY <1>1 DEF Generate, TypeOK, Entry
  <2> QED
    BY <1>1, <2>2, <2>3 DEF Generate, TypeOK
<1>2. CASE RunBatch
  <2>1. PICK A \in SUBSET Are("waiting"), R \in SUBSET Are("retracted"), P \in SUBSET Are("running") :
       /\ eng' = [r \in Requests |-> CASE r \in A \cup R -> "running"
                                       [] r \in P -> "retracted"
                                       [] OTHER -> eng[r]]
       /\ cur' = (Are("running") \ P) \cup A \cup R
       /\ decided' = [d \in Decisions |-> CASE d = "admitted" -> A
                                            [] d = "preempted" -> P
                                            [] d = "resumed" -> R]
       /\ firstStep' = [r \in Requests |-> IF r \in A THEN step + 1 ELSE firstStep[r]]
    BY <1>2 DEF RunBatch
  <2>2. A \in SUBSET Requests /\ R \in SUBSET Requests /\ P \in SUBSET Requests
    BY DEF Are
  <2>3. decided' \in [Decisions -> SUBSET Requests]
    BY <2>1, <2>2 DEF Decisions
  <2>4. step' \in 0 .. MaxSteps /\ firstStep' \in [Requests -> 0 .. MaxSteps]
    BY <1>0, <1>2, <2>1 DEF RunBatch, TypeOK
  <2>5. eng' \in [Requests -> {"absent", "waiting", "running", "retracted", "finished", "aborted"}]
    BY <2>1 DEF TypeOK
  <2>6. before' \in SUBSET Requests /\ cur' \in SUBSET Requests
    BY <1>2, <2>1, <2>2 DEF RunBatch, RunningIds, Are, TypeOK
  <2> QED
    BY <1>2, <2>3, <2>4, <2>5, <2>6 DEF RunBatch, TypeOK, trackerVars
<1>3. CASE BatchReturns
  <2>1. trace' \in [Requests -> Seq(Record)]
    BY <1>3, BatchRecordsType DEF BatchReturns, TypeOK
  <2>2. \A r \in Requests : Scheduled(r) \in Entry
    BY TypesOfStates DEF Scheduled, Entry, TypeOK
  <2>3. state' \in [Requests -> Entry]
    BY <1>3, <2>2 DEF BatchReturns, TypeOK
  <2>4. AdmittedIds \in SUBSET Requests
    BY DEF AdmittedIds, Named, RunningIds, Are, Decisions, TypeOK
  <2>5. tracked' \in SUBSET Requests
    BY <1>3, <2>4 DEF BatchReturns, TypeOK
  <2> QED
    BY <1>0, <1>3, <2>1, <2>3, <2>5 DEF BatchReturns, TypeOK, engineVars
<1>4. CASE BatchRaises
  BY <1>0, <1>4 DEF BatchRaises, TypeOK, engineVars, trackerVars
<1>5. CASE HandleFinished
  <2>1. PICK F \in SUBSET InEngine \ {{}} : \E A \in SUBSET F :
       /\ eng' = [r \in Requests |-> IF r \in F THEN Ended(r, A) ELSE eng[r]]
       /\ tracked' = Popped(F)
       /\ state' = [r \in Requests |-> IF r \in F THEN Blank ELSE state[r]]
       /\ trace' = [r \in Requests |-> IF r \in F THEN Append(trace[r], FinishRecord(r, A)) ELSE trace[r]]
    BY <1>5 DEF HandleFinished
  <2>2. PICK A \in SUBSET F :
       /\ eng' = [r \in Requests |-> IF r \in F THEN Ended(r, A) ELSE eng[r]]
       /\ tracked' = Popped(F)
       /\ state' = [r \in Requests |-> IF r \in F THEN Blank ELSE state[r]]
       /\ trace' = [r \in Requests |-> IF r \in F THEN Append(trace[r], FinishRecord(r, A)) ELSE trace[r]]
    BY <2>1
  <2>3. \A r \in Requests : FinishRecord(r, A) \in Record
    BY TypesOfStates, RecIsRecord DEF FinishRecord, Outcome, Kinds
  <2>4. trace' \in [Requests -> Seq(Record)]
    BY <2>2, <2>3 DEF TypeOK
  <2>5. state' \in [Requests -> Entry]
    BY <1>0, <2>2 DEF TypeOK
  <2>6. eng' \in [Requests -> {"absent", "waiting", "running", "retracted", "finished", "aborted"}]
    BY <2>2 DEF TypeOK, Ended
  <2> QED
    BY <1>5, <2>2, <2>4, <2>5, <2>6 DEF HandleFinished, Popped, TypeOK
<1>6. CASE UNCHANGED vars
  BY <1>6 DEF TypeOK, vars, engineVars, trackerVars
<1> QED
  BY <1>1, <1>2, <1>3, <1>4, <1>5, <1>6 DEF Next

\* The scheduler, the tracker and the records have their types throughout.
THEOREM SglangTypes == Spec => []TypeOK
<1> QED
  BY TypeInit, TypeNext, PTL DEF Spec

-----------------------------------------------------------------------------
(* The tracker.                                                            *)

\* Whom a run_batch() may take for admitted is in the scheduler.
LEMMA AdmittedInEngine ==
  ASSUME TypeOK, BatchIsAsDecided, epc = "batch",
         ~(build.nested /\ (build.stale \/ "admitted" \in build.names))
  PROVE  AdmittedIds \subseteq Are("running")
<1>1. CASE build.nested
  <2>1. Named("admitted") = {} /\ RunningIds = Are("running")
    BY <1>1 DEF Named, RunningIds
  <2> QED
    BY <2>1 DEF AdmittedIds
<1>2. CASE ~build.nested
  <2>1. Named("admitted") \subseteq Are("running")
    BY <1>2 DEF Named, BatchIsAsDecided
  <2>2. RunningIds \subseteq Are("running")
    BY <1>2 DEF RunningIds, BatchIsAsDecided
  <2> QED
    BY <2>1, <2>2 DEF AdmittedIds
<1> QED
  BY <1>1, <1>2

LEMMA TrackerInit == Init => TrackerInv
<1> SUFFICES ASSUME Init PROVE TrackerInv
  OBVIOUS
<1>1. InEngine = {}
  BY DEF Init, InEngine
<1> QED
  BY <1>1, TypeInit DEF Init, TrackerInv, BatchIsAsDecided, TrackedInStep

LEMMA TrackerNext == TrackerInv /\ [Next]_vars => TrackerInv'
<1> SUFFICES ASSUME TrackerInv, [Next]_vars PROVE TrackerInv'
  OBVIOUS
<1> USE DEF TrackerInv
<1>0. TypeOK'
  BY TypeNext
<1>1. ASSUME NEW q \in Requests, Generate(q) PROVE BatchIsAsDecided' /\ TrackedInStep'
  <2>1. BatchIsAsDecided'
    BY <1>1 DEF Generate, BatchIsAsDecided
  <2>2. InEngine' = InEngine \cup {q}
    BY <1>1 DEF Generate, InEngine, TypeOK
  <2> QED
    BY <1>1, <2>1, <2>2 DEF Generate, TrackedInStep
<1>2. ASSUME RunBatch PROVE BatchIsAsDecided' /\ TrackedInStep'
  <2>1. PICK A \in SUBSET Are("waiting"), R \in SUBSET Are("retracted"), P \in SUBSET Are("running") :
       /\ eng' = [r \in Requests |-> CASE r \in A \cup R -> "running"
                                       [] r \in P -> "retracted"
                                       [] OTHER -> eng[r]]
       /\ cur' = (Are("running") \ P) \cup A \cup R
       /\ decided' = [d \in Decisions |-> CASE d = "admitted" -> A
                                            [] d = "preempted" -> P
                                            [] d = "resumed" -> R]
       /\ firstStep' = [r \in Requests |-> IF r \in A THEN step + 1 ELSE firstStep[r]]
    BY <1>2 DEF RunBatch
  <2>2. Are("running")' = (Are("running") \ P) \cup A \cup R
    BY <2>1 DEF Are
  <2>3. decided'["admitted"] = A
    BY <2>1 DEF Decisions
  <2>4. BatchIsAsDecided'
    BY <2>1, <2>2, <2>3 DEF BatchIsAsDecided
  <2>5. InEngine' = InEngine
    BY <2>1 DEF InEngine, Are, TypeOK
  <2> QED
    BY <1>2, <2>4, <2>5 DEF RunBatch, TrackedInStep, trackerVars
<1>3. ASSUME BatchReturns PROVE BatchIsAsDecided' /\ TrackedInStep'
  <2>1. BatchIsAsDecided'
    BY <1>3 DEF BatchReturns, BatchIsAsDecided
  <2>2. InEngine' = InEngine /\ build' = build
    BY <1>3 DEF BatchReturns, engineVars, InEngine
  <2>3. Are("running") \subseteq InEngine
    BY DEF Are, InEngine
  <2>4. TrackedInStep'
    BY <1>3, <2>2, <2>3, AdmittedInEngine DEF BatchReturns, TrackedInStep
  <2> QED
    BY <2>1, <2>4
<1>4. ASSUME BatchRaises PROVE BatchIsAsDecided' /\ TrackedInStep'
  BY <1>4 DEF BatchRaises, engineVars, trackerVars, BatchIsAsDecided, TrackedInStep, InEngine
<1>5. ASSUME HandleFinished PROVE BatchIsAsDecided' /\ TrackedInStep'
  <2>1. BatchIsAsDecided'
    BY <1>5 DEF HandleFinished, BatchIsAsDecided
  <2>2. PICK F \in SUBSET InEngine \ {{}} : \E A \in SUBSET F :
       /\ eng' = [r \in Requests |-> IF r \in F THEN Ended(r, A) ELSE eng[r]]
       /\ tracked' = Popped(F)
    BY <1>5 DEF HandleFinished
  <2>3. InEngine' = InEngine \ F
    BY <2>2 DEF InEngine, Ended
  <2> QED
    BY <1>5, <2>1, <2>2, <2>3 DEF HandleFinished, Popped, TrackedInStep
<1>6. ASSUME UNCHANGED vars PROVE BatchIsAsDecided' /\ TrackedInStep'
  BY <1>6 DEF vars, engineVars, trackerVars, BatchIsAsDecided, TrackedInStep, InEngine, Are
<1> QED
  BY <1>0, <1>1, <1>2, <1>3, <1>4, <1>5, <1>6 DEF Next

\* Between two calls RequestStateTracker has an entry for each request in the
\* scheduler and for no other, however requests are admitted, retracted, taken up
\* and aborted: in schedulers that finish requests outside run_batch(), and in those
\* that finish them inside it but keep no stale cur_batch and name no admissions.
THEOREM SglangTrackerFollowsEngine == Spec => []TrackerFollowsEngine
<1>1. TrackerInv => TrackerFollowsEngine
  BY DEF TrackerInv, TrackedInStep, TrackerFollowsEngine
<1> QED
  BY <1>1, TrackerInit, TrackerNext, PTL DEF Spec

-----------------------------------------------------------------------------
(* The rows.  With these parts RowIsRight is inductive.                    *)

HasKind(s, k) == \E i \in DOMAIN s : s[i].kind = k

\* The first record of kind k in s exists and names the run_batch() v.
FirstIs(s, k, v) ==
  \E i \in DOMAIN s :
    /\ s[i].kind = k /\ s[i].schedule = v
    /\ \A j \in 1 .. i - 1 : s[j].kind # k

\* The trace of r tells whether and how r has ended.
EndRecorded(r) ==
  /\ HasKind(trace[r], "abort") <=> eng[r] = "aborted"
  /\ HasKind(trace[r], "finish") <=> eng[r] = "finished"

\* What the scheduler knows of r ...
EngineTimes(r) ==
  /\ eng[r] \in {"absent", "waiting"} => firstStep[r] = 0
  /\ r \in cur => firstStep[r] # 0
  /\ r \in decided["admitted"] =>
       /\ epc = "batch" /\ firstStep[r] = step /\ step # 0
       /\ r \notin before /\ r \in cur
       /\ eng[r] \notin {"absent", "waiting", "retracted"}
       /\ build.nested \/ eng[r] = "running"

\* ... its first admit record tells, as soon as it is there, and it is there from
\* the end of the run_batch() that admits r, unless r ended before that ...
AdmitRecorded(r) ==
  /\ HasKind(trace[r], "admit") => firstStep[r] # 0 /\ FirstIs(trace[r], "admit", firstStep[r])
  /\ \/ eng[r] \in {"running", "retracted"}
     \/ epc = "batch" /\ r \in cur
     \/ ~build.nested /\ firstStep[r] # 0
     => HasKind(trace[r], "admit") \/ r \in decided["admitted"]

\* ... and the tracker agrees with that record as long as r is in the scheduler,
EntryRight(r) ==
  /\ r \in InEngine => state[r].arrival
  /\ eng[r] \notin {"finished", "aborted"} =>
       state[r].schedule = IF HasKind(trace[r], "admit") THEN firstStep[r] ELSE 0

\* so that the record of its end is right.
Ends(s, v, always) ==
  \A i \in DOMAIN s :
    s[i].kind \in {"finish", "abort"} =>
      /\ s[i].arrival
      /\ s[i].schedule \in {0, v}
      /\ always => s[i].schedule = v

EndRight(r) == Ends(trace[r], firstStep[r], ~build.nested)

TimesRight(r) == EngineTimes(r) /\ AdmitRecorded(r) /\ EntryRight(r) /\ EndRight(r)

RowOf(r) == EndRecorded(r) /\ (~missed => TimesRight(r))

RowInv == TypeOK /\ \A r \in Requests : RowOf(r)

\* Sequences of records that grow.
LEMMA KindsOfConcat ==
  ASSUME NEW s \in Seq(Record), NEW t \in Seq(Record), NEW k
  PROVE  HasKind(s \o t, k) <=> HasKind(s, k) \/ HasKind(t, k)
<1>1. /\ s \o t \in Seq(Record) /\ Len(s \o t) = Len(s) + Len(t)
      /\ \A i \in 1 .. Len(s) : (s \o t)[i] = s[i]
      /\ \A i \in 1 .. Len(t) : (s \o t)[Len(s) + i] = t[i]
  BY ConcatProperties
<1>2. DOMAIN s = 1 .. Len(s) /\ DOMAIN t = 1 .. Len(t) /\ DOMAIN (s \o t) = 1 .. Len(s \o t)
      /\ Len(s) \in Nat /\ Len(t) \in Nat
  BY <1>1
<1>3. ASSUME HasKind(s \o t, k) PROVE HasKind(s, k) \/ HasKind(t, k)
  <2>1. PICK i \in 1 .. Len(s) + Len(t) : (s \o t)[i].kind = k
    BY <1>1, <1>2, <1>3 DEF HasKind
  <2>2. CASE i <= Len(s)
    BY <1>1, <1>2, <2>1, <2>2 DEF HasKind
  <2>3. CASE i > Len(s)
    <3>1. i - Len(s) \in 1 .. Len(t) /\ i = Len(s) + (i - Len(s))
      BY <1>2, <2>1, <2>3
    <3>2. t[i - Len(s)].kind = k
      BY <1>1, <2>1, <3>1
    <3> QED
      BY <1>2, <3>1, <3>2 DEF HasKind
  <2> QED
    BY <1>2, <2>1, <2>2, <2>3
<1>4. ASSUME HasKind(s, k) PROVE HasKind(s \o t, k)
  <2>1. PICK i \in 1 .. Len(s) : s[i].kind = k
    BY <1>2, <1>4 DEF HasKind
  <2>2. i \in 1 .. Len(s) + Len(t) /\ (s \o t)[i].kind = k
    BY <1>1, <1>2, <2>1
  <2> QED
    BY <1>1, <1>2, <2>2 DEF HasKind
<1>5. ASSUME HasKind(t, k) PROVE HasKind(s \o t, k)
  <2>1. PICK i \in 1 .. Len(t) : t[i].kind = k
    BY <1>2, <1>5 DEF HasKind
  <2>2. Len(s) + i \in 1 .. Len(s) + Len(t) /\ (s \o t)[Len(s) + i].kind = k
    BY <1>1, <1>2, <2>1
  <2> QED
    BY <1>1, <1>2, <2>2 DEF HasKind
<1> QED
  BY <1>3, <1>4, <1>5

LEMMA FirstOfConcat ==
  ASSUME NEW s \in Seq(Record), NEW t \in Seq(Record), NEW k, NEW v, FirstIs(s, k, v)
  PROVE  FirstIs(s \o t, k, v)
<1>1. /\ s \o t \in Seq(Record) /\ Len(s \o t) = Len(s) + Len(t)
      /\ \A i \in 1 .. Len(s) : (s \o t)[i] = s[i]
  BY ConcatProperties
<1>2. PICK i \in 1 .. Len(s) :
        s[i].kind = k /\ s[i].schedule = v /\ \A j \in 1 .. i - 1 : s[j].kind # k
  BY DEF FirstIs
<1>3. i \in 1 .. Len(s \o t) /\ \A j \in 1 .. i - 1 : j \in 1 .. Len(s)
  BY <1>1, <1>2
<1>4. (s \o t)[i].kind = k /\ (s \o t)[i].schedule = v /\ \A j \in 1 .. i - 1 : (s \o t)[j].kind # k
  BY <1>1, <1>2, <1>3
<1>5. i \in DOMAIN (s \o t)
  BY <1>1, <1>3
<1> QED
  BY <1>4, <1>5 DEF FirstIs

LEMMA FirstOfNew ==
  ASSUME NEW s \in Seq(Record), NEW t \in Seq(Record), NEW k,
         ~HasKind(s, k), Len(t) # 0, t[1].kind = k
  PROVE  FirstIs(s \o t, k, t[1].schedule)
<1>1. /\ s \o t \in Seq(Record) /\ Len(s \o t) = Len(s) + Len(t)
      /\ \A i \in 1 .. Len(s) : (s \o t)[i] = s[i]
      /\ \A i \in 1 .. Len(t) : (s \o t)[Len(s) + i] = t[i]
  BY ConcatProperties
<1> DEFINE i == Len(s) + 1
<1>2. i \in 1 .. Len(s \o t) /\ (s \o t)[i] = t[1]
  BY <1>1
<1>3. \A j \in 1 .. i - 1 : (s \o t)[j].kind # k
  BY <1>1 DEF HasKind
<1>4. i \in DOMAIN (s \o t)
  BY <1>1, <1>2
<1> QED
  BY <1>2, <1>3, <1>4 DEF FirstIs

\* FirstValue finds the record that FirstIs speaks of.
LEMMA FirstIsValue ==
  ASSUME NEW r \in Requests, trace[r] \in Seq(Record), NEW k, NEW v, FirstIs(trace[r], k, v)
  PROVE  FirstValue(r, k) = v
<1> DEFINE P(i) == trace[r][i].kind = k /\ \A j \in 1 .. i - 1 : trace[r][j].kind # k
<1>1. PICK i \in DOMAIN trace[r] : P(i) /\ trace[r][i].schedule = v
  BY DEF FirstIs
<1>2. \A j \in DOMAIN trace[r] : P(j) => j = i
  <2>1. DOMAIN trace[r] = 1 .. Len(trace[r])
    OBVIOUS
  <2> SUFFICES ASSUME NEW j \in DOMAIN trace[r], P(j), j # i PROVE FALSE
    OBVIOUS
  <2>2. i \in 1 .. j - 1 \/ j \in 1 .. i - 1
    BY <1>1, <2>1
  <2> QED
    BY <1>1, <2>2
<1>3. (CHOOSE j \in DOMAIN trace[r] : P(j)) = i
  <2> HIDE DEF P
  <2> QED
    BY <1>1, <1>2
<1>4. Has(r, k)
  BY <1>1 DEF Has
<1> QED
  BY <1>1, <1>3, <1>4 DEF FirstValue

LEMMA EndsOfConcat ==
  ASSUME NEW s \in Seq(Record), NEW t \in Seq(Record), NEW v, NEW always,
         Ends(s, v, always), Ends(t, v, always)
  PROVE  Ends(s \o t, v, always)
<1>1. /\ s \o t \in Seq(Record) /\ Len(s \o t) = Len(s) + Len(t)
      /\ \A i \in 1 .. Len(s) : (s \o t)[i] = s[i]
      /\ \A i \in 1 .. Len(t) : (s \o t)[Len(s) + i] = t[i]
  BY ConcatProperties
<1>2. ASSUME NEW i \in 1 .. Len(s) + Len(t), i > Len(s)
      PROVE  i - Len(s) \in 1 .. Len(t) /\ (s \o t)[i] = t[i - Len(s)]
  <2>1. i - Len(s) \in 1 .. Len(t) /\ Len(s) + (i - Len(s)) = i
    BY <1>2
  <2> QED
    BY <1>1, <2>1
<1> SUFFICES ASSUME NEW i \in DOMAIN (s \o t), (s \o t)[i].kind \in {"finish", "abort"}
             PROVE  /\ (s \o t)[i].arrival
                    /\ (s \o t)[i].schedule \in {0, v}
                    /\ always => (s \o t)[i].schedule = v
  BY DEF Ends
<1>3. i \in 1 .. Len(s) + Len(t)
  BY <1>1
<1>4. CASE i <= Len(s)
  <2>1. i \in DOMAIN s /\ (s \o t)[i] = s[i]
    BY <1>1, <1>3, <1>4
  <2> QED
    BY <2>1 DEF Ends
<1>5. CASE i > Len(s)
  <2>1. i - Len(s) \in DOMAIN t /\ (s \o t)[i] = t[i - Len(s)]
    BY <1>2, <1>3, <1>5
  <2> QED
    BY <2>1 DEF Ends
<1> QED
  BY <1>3, <1>4, <1>5

\* One record.
LEMMA OneRecord ==
  ASSUME NEW x \in Record
  PROVE  /\ <<x>> \in Seq(Record)
         /\ \A s \in Seq(Record) : Append(s, x) = s \o <<x>>
         /\ \A k : HasKind(<<x>>, k) <=> x.kind = k
         /\ \A v, always : x.kind \notin {"finish", "abort"} => Ends(<<x>>, v, always)
<1>1. <<x>> \in Seq(Record) /\ DOMAIN <<x>> = {1} /\ <<x>>[1] = x
  OBVIOUS
<1>2. \A s \in Seq(Record) : Append(s, x) = s \o <<x>>
  BY AppendIsConcat
<1> QED
  BY <1>1, <1>2 DEF HasKind, Ends

\* What a run_batch() leaves in the trace of r.
LEMMA BatchKinds ==
  ASSUME TypeOK, NEW r \in Requests
  PROVE  /\ BatchRecords(r) \in Seq(Record)
         /\ ~HasKind(BatchRecords(r), "finish") /\ ~HasKind(BatchRecords(r), "abort")
         /\ HasKind(BatchRecords(r), "admit") <=> r \in AdmittedIds
         /\ r \in AdmittedIds =>
              /\ Len(BatchRecords(r)) # 0
              /\ BatchRecords(r)[1].kind = "admit" /\ BatchRecords(r)[1].schedule = step
<1> DEFINE x == Rec("admit", state[r].arrival, step)
           y == Rec("preempt", FALSE, 0)
           z == Rec("resume", FALSE, 0)
           a == IF r \in AdmittedIds THEN <<x>> ELSE <<>>
           p == IF r \in PreemptedIds THEN <<y>> ELSE <<>>
           s == IF r \in ResumedIds THEN <<z>> ELSE <<>>
<1>0. 0 \in 0 .. MaxSteps /\ FALSE \in BOOLEAN
  BY SglangAssumption DEF SglangAssumption
<1>1. x \in Record /\ x.kind = "admit" /\ x.schedule = step
  BY TypesOfStates, RecIsRecord DEF TypeOK, Kinds, Rec
<1>2. y \in Record /\ z \in Record /\ y.kind = "preempt" /\ z.kind = "resume"
  BY <1>0, RecIsRecord DEF Kinds, Rec
<1>3. BatchRecords(r) = (a \o p) \o s
  BY DEF BatchRecords
<1>4. <<>> \in Seq(Record) /\ \A k : ~HasKind(<<>>, k)
  BY DEF HasKind
<1>5. /\ a \in Seq(Record)
      /\ \A k : HasKind(a, k) <=> r \in AdmittedIds /\ k = "admit"
      /\ r \in AdmittedIds => Len(a) = 1 /\ a[1] = x
  <2> HIDE DEF x
  <2>1. CASE r \in AdmittedIds
    <3>1. a = <<x>>
      BY <2>1
    <3>2. \A k : HasKind(a, k) <=> k = "admit"
      BY <1>1, <3>1, OneRecord
    <3>3. a \in Seq(Record) /\ Len(a) = 1 /\ a[1] = x
      BY <1>1, <3>1
    <3> QED
      BY <2>1, <3>2, <3>3
  <2>2. CASE r \notin AdmittedIds
    BY <1>4, <2>2
  <2> QED
    BY <2>1, <2>2
<1>6. p \in Seq(Record) /\ \A k : HasKind(p, k) => k = "preempt"
  <2> HIDE DEF y
  <2>1. CASE r \in PreemptedIds
    BY <1>2, <2>1, OneRecord
  <2>2. CASE r \notin PreemptedIds
    BY <1>4, <2>2
  <2> QED
    BY <2>1, <2>2
<1>7. s \in Seq(Record) /\ \A k : HasKind(s, k) => k = "resume"
  <2> HIDE DEF z
  <2>1. CASE r \in ResumedIds
    BY <1>2, <2>1, OneRecord
  <2>2. CASE r \notin ResumedIds
    BY <1>4, <2>2
  <2> QED
    BY <2>1, <2>2
<1> HIDE DEF a, p, s, x
<1>8. a \o p \in Seq(Record) /\ (a \o p) \o s \in Seq(Record)
  BY <1>5, <1>6, <1>7, ConcatProperties
<1>9. \A k : HasKind((a \o p) \o s, k) <=> HasKind(a, k) \/ HasKind(p, k) \/ HasKind(s, k)
  BY <1>5, <1>6, <1>7, <1>8, KindsOfConcat
<1>10. ASSUME r \in AdmittedIds PROVE Len((a \o p) \o s) # 0 /\ ((a \o p) \o s)[1] = x
  <2>1. Len(a \o p) = Len(a) + Len(p) /\ (a \o p)[1] = a[1]
    BY <1>5, <1>6, <1>10, ConcatProperties
  <2>2. Len((a \o p) \o s) = Len(a \o p) + Len(s) /\ ((a \o p) \o s)[1] = (a \o p)[1]
    <3>1. 1 \in 1 .. Len(a \o p)
      BY <1>5, <1>6, <1>10, <2>1
    <3> QED
      BY <1>7, <1>8, <3>1, ConcatProperties
  <2>3. Len(a) = 1 /\ Len(p) \in Nat /\ Len(s) \in Nat
    BY <1>5, <1>6, <1>7, <1>10
  <2> QED
    BY <1>5, <1>10, <2>1, <2>2, <2>3
<1>11. BatchRecords(r) \in Seq(Record)
  BY <1>3, <1>8
<1>12. \A k : HasKind(BatchRecords(r), k) <=> HasKind(a, k) \/ HasKind(p, k) \/ HasKind(s, k)
  BY <1>3, <1>9
<1>13. /\ ~HasKind(BatchRecords(r), "finish") /\ ~HasKind(BatchRecords(r), "abort")
       /\ HasKind(BatchRecords(r), "admit") <=> r \in AdmittedIds
  BY <1>5, <1>6, <1>7, <1>12
<1>14. r \in AdmittedIds =>
         /\ Len(BatchRecords(r)) # 0
         /\ BatchRecords(r)[1].kind = "admit" /\ BatchRecords(r)[1].schedule = step
  BY <1>1, <1>3, <1>10
<1> QED
  BY <1>11, <1>13, <1>14

-----------------------------------------------------------------------------
(* The steps.                                                              *)

\* A sequence without records of an end.
LEMMA NoEnds ==
  ASSUME NEW t \in Seq(Record), ~HasKind(t, "finish"), ~HasKind(t, "abort"), NEW v, NEW always
  PROVE  Ends(t, v, always)
  BY DEF HasKind, Ends

LEMMA RowInit ==
  ASSUME Init, NEW r \in Requests
  PROVE  RowOf(r)
<1>1. trace[r] = <<>> /\ eng[r] = "absent" /\ firstStep[r] = 0 /\ cur = {} /\ epc = "idle"
  BY DEF Init
<1>2. decided["admitted"] = {}
  BY DEF Init, Nothing, Decisions
<1>3. \A k : ~HasKind(trace[r], k)
  BY <1>1 DEF HasKind
<1>4. EndRight(r)
  BY <1>1 DEF EndRight, Ends
<1>5. r \notin InEngine
  BY <1>1 DEF InEngine
<1>6. state[r].schedule = 0
  BY DEF Init, Blank
<1> QED
  BY <1>1, <1>2, <1>3, <1>4, <1>5, <1>6
  DEF RowOf, EndRecorded, TimesRight, EngineTimes, AdmitRecorded, EntryRight

LEMMA RowGenerate ==
  ASSUME RowInv, NEW q \in Requests, Generate(q), NEW r \in Requests
  PROVE  RowOf(r)'
<1>0. TypeOK /\ RowOf(r) /\ (missed' <=> missed)
  BY DEF RowInv, RowOf, Generate
<1>1. CASE r # q
  <2>1. /\ trace'[r] = trace[r] /\ eng'[r] = eng[r] /\ state'[r] = state[r]
        /\ UNCHANGED <<build, epc, step, before, decided, cur, firstStep, missed>>
    BY <1>1 DEF Generate, TypeOK
  <2>2. r \in InEngine' <=> r \in InEngine
    BY <2>1 DEF InEngine
  <2> QED
    BY <1>0, <2>1, <2>2
    DEF RowOf, EndRecorded, TimesRight, EngineTimes, AdmitRecorded, EntryRight, EndRight
<1>2. CASE r = q
  <2> DEFINE x == Rec("arrival", TRUE, 0)
  <2>1. x \in Record /\ x.kind = "arrival"
    <3>1. 0 \in 0 .. MaxSteps /\ TRUE \in BOOLEAN
      BY SglangAssumption DEF SglangAssumption
    <3> QED
      BY <3>1, RecIsRecord DEF Kinds, Rec
  <2>2. /\ eng[r] = "absent" /\ eng'[r] = "waiting"
        /\ state'[r].arrival = TRUE /\ state'[r].schedule = state[r].schedule
        /\ UNCHANGED <<build, epc, step, before, decided, cur, firstStep, missed>>
    BY <1>0, <1>2, TypesOfStates DEF Generate, TypeOK, Entry
  <2>3. trace[r] \in Seq(Record) /\ trace'[r] = trace[r] \o <<x>> /\ <<x>> \in Seq(Record)
    <3>1. trace'[r] = Append(trace[r], x)
      BY <1>0, <1>2 DEF Generate, TypeOK
    <3>2. trace[r] \in Seq(Record)
      BY <1>0 DEF TypeOK
    <3> HIDE DEF x
    <3>3. <<x>> \in Seq(Record)
      BY <2>1, OneRecord
    <3>4. Append(trace[r], x) = trace[r] \o <<x>>
      BY <2>1, <3>2, OneRecord
    <3> QED
      BY <3>1, <3>2, <3>3, <3>4
  <2> HIDE DEF x
  <2>4. \A k : HasKind(trace'[r], k) <=> HasKind(trace[r], k) \/ k = "arrival"
    <3>1. \A k : HasKind(<<x>>, k) <=> k = "arrival"
      BY <2>1, OneRecord
    <3>2. \A k : HasKind(trace[r] \o <<x>>, k) <=> HasKind(trace[r], k) \/ HasKind(<<x>>, k)
      BY <2>3, KindsOfConcat
    <3> QED
      BY <2>3, <3>1, <3>2
  <2>5. EndRecorded(r)'
    BY <1>0, <2>2, <2>4 DEF RowOf, EndRecorded
  <2>6. ASSUME ~missed PROVE TimesRight(r)'
    <3>1. TimesRight(r) /\ firstStep[r] = 0 /\ ~HasKind(trace[r], "admit")
      BY <1>0, <2>2, <2>6 DEF RowOf, TimesRight, EngineTimes, AdmitRecorded
    <3>2. EngineTimes(r)'
      BY <2>2, <3>1 DEF TimesRight, EngineTimes
    <3>3. AdmitRecorded(r)'
      BY <2>2, <2>4, <3>1 DEF TimesRight, EngineTimes, AdmitRecorded
    <3>4. EntryRight(r)'
      BY <2>2, <2>4, <3>1 DEF TimesRight, EntryRight
    <3>5. EndRight(r)'
      <4>1. Ends(<<x>>, firstStep[r], ~build.nested)
        BY <2>1, OneRecord
      <4>2. Ends(trace[r] \o <<x>>, firstStep[r], ~build.nested)
        BY <2>3, <3>1, <4>1, EndsOfConcat DEF TimesRight, EndRight
      <4> QED
        BY <2>2, <2>3, <4>2 DEF EndRight
    <3> QED
      BY <3>2, <3>3, <3>4, <3>5 DEF TimesRight
  <2> QED
    BY <1>0, <2>5, <2>6 DEF RowOf
<1> QED
  BY <1>1, <1>2

LEMMA RowRunBatch ==
  ASSUME RowInv, RunBatch, NEW r \in Requests
  PROVE  RowOf(r)'
<1>0. TypeOK /\ RowOf(r) /\ (missed' <=> missed) /\ MaxSteps \in Nat
  BY SglangAssumption DEF RowInv, RowOf, RunBatch, SglangAssumption
<1>1. PICK A \in SUBSET Are("waiting"), R \in SUBSET Are("retracted"), P \in SUBSET Are("running") :
       /\ eng' = [q \in Requests |-> CASE q \in A \cup R -> "running"
                                       [] q \in P -> "retracted"
                                       [] OTHER -> eng[q]]
       /\ cur' = (Are("running") \ P) \cup A \cup R
       /\ decided' = [d \in Decisions |-> CASE d = "admitted" -> A
                                            [] d = "preempted" -> P
                                            [] d = "resumed" -> R]
       /\ firstStep' = [q \in Requests |-> IF q \in A THEN step + 1 ELSE firstStep[q]]
  BY DEF RunBatch
<1>2. /\ trace' = trace /\ state' = state /\ build' = build
      /\ epc = "idle" /\ epc' = "batch" /\ step' = step + 1 /\ step' # 0
      /\ before' = RunningIds
  BY <1>0 DEF RunBatch, trackerVars, TypeOK
<1>3. decided'["admitted"] = A /\ firstStep'[r] = IF r \in A THEN step + 1 ELSE firstStep[r]
  BY <1>1 DEF Decisions
<1>4. /\ r \in A => eng[r] = "waiting" /\ eng'[r] = "running"
      /\ r \in R => eng[r] = "retracted" /\ eng'[r] = "running"
      /\ r \in P => eng[r] = "running" /\ eng'[r] = "retracted"
      /\ r \notin A \cup R \cup P => eng'[r] = eng[r]
  BY <1>1 DEF Are
<1>5. r \in cur' <=> \/ eng[r] = "running" /\ r \notin P
                     \/ r \in A \cup R
  BY <1>1 DEF Are
<1>6. EndRecorded(r)'
  BY <1>0, <1>2, <1>4 DEF RowOf, EndRecorded
<1>7. ASSUME ~missed PROVE TimesRight(r)'
  <2>1. EngineTimes(r) /\ AdmitRecorded(r) /\ EntryRight(r) /\ EndRight(r)
    BY <1>0, <1>7 DEF RowOf, TimesRight
  <2>2. r \notin decided["admitted"]
    BY <1>2, <2>1 DEF EngineTimes
  <2>3. r \in A => r \notin RunningIds
    BY <1>4, <2>1 DEF RunningIds, Are, EngineTimes
  <2>4. r \in A => firstStep[r] = 0 /\ ~HasKind(trace[r], "admit")
    BY <1>4, <2>1 DEF EngineTimes, AdmitRecorded
  <2>5. eng[r] \in {"running", "retracted"} => HasKind(trace[r], "admit") /\ firstStep[r] # 0
    BY <2>1, <2>2 DEF AdmitRecorded
  <2>6. EngineTimes(r)'
    <3>1. eng'[r] \in {"absent", "waiting"} => firstStep'[r] = 0
      BY <1>3, <1>4, <2>1 DEF EngineTimes
    <3>2. r \in cur' => firstStep'[r] # 0
      BY <1>2, <1>3, <1>4, <1>5, <2>5
    <3>3. r \in A => /\ epc' = "batch" /\ firstStep'[r] = step' /\ step' # 0
                     /\ r \notin before' /\ r \in cur'
                     /\ eng'[r] = "running"
      BY <1>2, <1>3, <1>4, <1>5, <2>3
    <3> QED
      BY <1>3, <3>1, <3>2, <3>3 DEF EngineTimes
  <2>7. AdmitRecorded(r)'
    <3>1. HasKind(trace[r], "admit") => r \notin A
      BY <2>4
    <3>2. HasKind(trace'[r], "admit") => firstStep'[r] # 0 /\ FirstIs(trace'[r], "admit", firstStep'[r])
      BY <1>2, <1>3, <2>1, <3>1 DEF AdmitRecorded
    <3>3. eng'[r] \in {"running", "retracted"} => HasKind(trace[r], "admit") \/ r \in A
      BY <1>4, <2>5
    <3>4. r \in cur' => HasKind(trace[r], "admit") \/ r \in A
      BY <1>4, <1>5, <2>5
    <3>5. ~build.nested /\ firstStep'[r] # 0 => HasKind(trace[r], "admit") \/ r \in A
      BY <1>3, <2>1, <2>2 DEF AdmitRecorded
    <3> QED
      BY <1>2, <1>3, <3>2, <3>3, <3>4, <3>5 DEF AdmitRecorded
  <2>8. EntryRight(r)'
    <3>1. r \in InEngine' => r \in InEngine
      BY <1>4 DEF InEngine
    <3>2. eng'[r] \notin {"finished", "aborted"} => eng[r] \notin {"finished", "aborted"}
      BY <1>4
    <3>3. HasKind(trace[r], "admit") => firstStep'[r] = firstStep[r]
      BY <1>3, <2>4
    <3> QED
      BY <1>2, <2>1, <3>1, <3>2, <3>3 DEF EntryRight
  <2>9. EndRight(r)'
    <3>1. CASE r \in A
      <4>1. ~HasKind(trace[r], "finish") /\ ~HasKind(trace[r], "abort")
        BY <1>0, <1>4, <3>1 DEF RowOf, EndRecorded
      <4>2. trace[r] \in Seq(Record)
        BY <1>0 DEF TypeOK
      <4>3. Ends(trace[r], firstStep'[r], ~build.nested)
        BY <4>1, <4>2, NoEnds
      <4> QED
        BY <1>2, <4>3 DEF EndRight
    <3>2. CASE r \notin A
      BY <1>2, <1>3, <2>1, <3>2 DEF EndRight
    <3> QED
      BY <3>1, <3>2
  <2> QED
    BY <2>6, <2>7, <2>8, <2>9 DEF TimesRight
<1> QED
  BY <1>0, <1>6, <1>7 DEF RowOf

LEMMA RowBatchReturns ==
  ASSUME RowInv, BatchReturns, NEW r \in Requests
  PROVE  RowOf(r)'
<1> DEFINE b == BatchRecords(r)
<1>0. TypeOK /\ RowOf(r)
  BY DEF RowInv, RowOf
<1>1. /\ epc = "batch" /\ epc' = "idle" /\ decided'["admitted"] = {}
      /\ UNCHANGED <<build, step, eng, cur, firstStep, missed>>
      /\ trace'[r] = trace[r] \o b
      /\ state'[r] = IF r \in AdmittedIds THEN Scheduled(r) ELSE state[r]
  BY <1>0 DEF BatchReturns, engineVars, Nothing, Decisions, TypeOK
<1>2. trace[r] \in Seq(Record) /\ b \in Seq(Record)
  BY <1>0, BatchKinds DEF TypeOK
<1>3. /\ ~HasKind(b, "finish") /\ ~HasKind(b, "abort")
      /\ HasKind(b, "admit") <=> r \in AdmittedIds
      /\ r \in AdmittedIds => Len(b) # 0 /\ b[1].kind = "admit" /\ b[1].schedule = step
  BY <1>0, BatchKinds
<1> HIDE DEF b
<1>4. \A k : HasKind(trace'[r], k) <=> HasKind(trace[r], k) \/ HasKind(b, k)
  BY <1>1, <1>2, KindsOfConcat
<1>5. EndRecorded(r)'
  BY <1>0, <1>1, <1>3, <1>4 DEF RowOf, EndRecorded
<1>6. ASSUME ~missed PROVE TimesRight(r)'
  <2>1. EngineTimes(r) /\ AdmitRecorded(r) /\ EntryRight(r) /\ EndRight(r)
    BY <1>0, <1>6 DEF RowOf, TimesRight
  \* Whoever the probe takes for admitted has been admitted now or is recorded.
  <2>2. r \in AdmittedIds => r \in decided["admitted"] \/ HasKind(trace[r], "admit")
    <3>1. AdmittedIds \subseteq decided["admitted"] \cup Are("running") \cup cur
      BY DEF AdmittedIds, Named, RunningIds
    <3> QED
      BY <1>1, <2>1, <3>1 DEF AdmitRecorded, Are
  \* Whoever has been admitted now and is still there is taken for admitted.
  <2>3. r \in decided["admitted"] /\ eng[r] = "running" => r \in AdmittedIds
    <3> SUFFICES ASSUME r \in decided["admitted"], eng[r] = "running" PROVE r \in AdmittedIds
      OBVIOUS
    <3>1. r \in RunningIds /\ r \notin before
      BY <2>1 DEF RunningIds, Are, EngineTimes
    <3>2. Named("admitted") \in {{}, decided["admitted"]}
      BY DEF Named
    <3> QED
      BY <3>1, <3>2 DEF AdmittedIds
  <2>4. EngineTimes(r)'
    BY <1>1, <2>1 DEF EngineTimes
  <2>5. HasKind(trace'[r], "admit") => firstStep[r] # 0 /\ FirstIs(trace'[r], "admit", firstStep[r])
    <3>1. CASE HasKind(trace[r], "admit")
      <4>1. firstStep[r] # 0 /\ FirstIs(trace[r], "admit", firstStep[r])
        BY <2>1, <3>1 DEF AdmitRecorded
      <4>2. FirstIs(trace[r] \o b, "admit", firstStep[r])
        BY <1>2, <4>1, FirstOfConcat
      <4> QED
        BY <1>1, <4>1, <4>2
    <3>2. CASE ~HasKind(trace[r], "admit") /\ r \in AdmittedIds
      <4>1. firstStep[r] = step /\ step # 0
        BY <2>1, <2>2, <3>2 DEF EngineTimes
      <4>2. FirstIs(trace[r] \o b, "admit", step)
        BY <1>2, <1>3, <3>2, FirstOfNew
      <4> QED
        BY <1>1, <4>1, <4>2
    <3>3. CASE ~HasKind(trace[r], "admit") /\ r \notin AdmittedIds
      BY <1>3, <1>4, <3>3
    <3> QED
      BY <3>1, <3>2, <3>3
  <2>6. AdmitRecorded(r)'
    <3>1. eng[r] \in {"running", "retracted"} => HasKind(trace'[r], "admit")
      BY <1>3, <1>4, <2>1, <2>3 DEF AdmitRecorded, EngineTimes
    <3>2. ~build.nested /\ firstStep[r] # 0 => HasKind(trace'[r], "admit")
      BY <1>3, <1>4, <2>1, <2>3 DEF AdmitRecorded, EngineTimes
    <3> QED
      BY <1>1, <2>5, <3>1, <3>2 DEF AdmitRecorded
  <2>7. EntryRight(r)'
    <3>1. r \in InEngine' <=> r \in InEngine
      BY <1>1 DEF InEngine
    <3>2. /\ Scheduled(r).arrival = state[r].arrival
          /\ Scheduled(r).schedule = IF state[r].schedule = 0 THEN step ELSE state[r].schedule
      BY <1>0, TypesOfStates DEF Scheduled, Entry
    <3>3. r \in InEngine' => state'[r].arrival
      BY <1>1, <2>1, <3>1, <3>2 DEF EntryRight
    <3>4. ASSUME eng[r] \notin {"finished", "aborted"}
          PROVE  state'[r].schedule = IF HasKind(trace'[r], "admit") THEN firstStep[r] ELSE 0
      <4>1. state[r].schedule = IF HasKind(trace[r], "admit") THEN firstStep[r] ELSE 0
        BY <2>1, <3>4 DEF EntryRight
      <4>2. CASE HasKind(trace[r], "admit")
        <5>1. firstStep[r] # 0
          BY <2>1, <4>2 DEF AdmitRecorded
        <5> QED
          BY <1>1, <1>4, <3>2, <4>1, <4>2, <5>1
      <4>3. CASE ~HasKind(trace[r], "admit") /\ r \in AdmittedIds
        <5>1. firstStep[r] = step
          BY <2>1, <2>2, <4>3 DEF EngineTimes
        <5> QED
          BY <1>1, <1>3, <1>4, <3>2, <4>1, <4>3, <5>1
      <4>4. CASE ~HasKind(trace[r], "admit") /\ r \notin AdmittedIds
        BY <1>1, <1>3, <1>4, <4>1, <4>4
      <4> QED
        BY <4>2, <4>3, <4>4
    <3> QED
      BY <1>1, <3>3, <3>4 DEF EntryRight
  <2>8. EndRight(r)'
    <3>1. Ends(b, firstStep[r], ~build.nested)
      BY <1>2, <1>3, NoEnds
    <3>2. Ends(trace[r] \o b, firstStep[r], ~build.nested)
      BY <1>2, <2>1, <3>1, EndsOfConcat DEF EndRight
    <3> QED
      BY <1>1, <3>2 DEF EndRight
  <2> QED
    BY <2>4, <2>6, <2>7, <2>8 DEF TimesRight
<1> QED
  BY <1>0, <1>1, <1>5, <1>6 DEF RowOf

LEMMA RowHandleFinished ==
  ASSUME RowInv, HandleFinished, NEW r \in Requests
  PROVE  RowOf(r)'
<1>0. TypeOK /\ RowOf(r)
  BY DEF RowInv, RowOf
<1>1. PICK F \in SUBSET InEngine \ {{}} : \E A \in SUBSET F :
       /\ F \ A \subseteq Are("running")
       /\ eng' = [q \in Requests |-> IF q \in F THEN Ended(q, A) ELSE eng[q]]
       /\ tracked' = Popped(F)
       /\ state' = [q \in Requests |-> IF q \in F THEN Blank ELSE state[q]]
       /\ trace' = [q \in Requests |-> IF q \in F THEN Append(trace[q], FinishRecord(q, A)) ELSE trace[q]]
  BY DEF HandleFinished
<1>2. PICK A \in SUBSET F :
       /\ F \ A \subseteq Are("running")
       /\ eng' = [q \in Requests |-> IF q \in F THEN Ended(q, A) ELSE eng[q]]
       /\ tracked' = Popped(F)
       /\ state' = [q \in Requests |-> IF q \in F THEN Blank ELSE state[q]]
       /\ trace' = [q \in Requests |-> IF q \in F THEN Append(trace[q], FinishRecord(q, A)) ELSE trace[q]]
  BY <1>1
<1>3. /\ epc = "idle" \/ build.nested
      /\ UNCHANGED <<build, epc, step, before, decided, cur, firstStep, missed>>
  BY DEF HandleFinished
<1>4. CASE r \notin F
  <2>1. trace'[r] = trace[r] /\ eng'[r] = eng[r] /\ state'[r] = state[r]
    BY <1>2, <1>4
  <2>2. r \in InEngine' <=> r \in InEngine
    BY <2>1 DEF InEngine
  <2> QED
    BY <1>0, <1>3, <2>1, <2>2
    DEF RowOf, EndRecorded, TimesRight, EngineTimes, AdmitRecorded, EntryRight, EndRight
<1>5. CASE r \in F
  <2> DEFINE x == FinishRecord(r, A)
  <2>1. /\ x \in Record /\ x.kind = (IF r \in A THEN "abort" ELSE "finish")
        /\ x.arrival = state[r].arrival /\ x.schedule = state[r].schedule
    BY <1>0, TypesOfStates, RecIsRecord DEF FinishRecord, Outcome, Kinds, Rec
  <2>2. /\ eng[r] \in {"waiting", "running", "retracted"}
        /\ eng'[r] = IF r \in A THEN "aborted" ELSE "finished"
    BY <1>2, <1>5 DEF InEngine, Ended
  <2>3. trace[r] \in Seq(Record) /\ trace'[r] = trace[r] \o <<x>> /\ <<x>> \in Seq(Record)
    <3>1. trace'[r] = Append(trace[r], x)
      BY <1>2, <1>5
    <3>2. trace[r] \in Seq(Record)
      BY <1>0 DEF TypeOK
    <3> HIDE DEF x
    <3>3. <<x>> \in Seq(Record)
      BY <2>1, OneRecord
    <3>4. Append(trace[r], x) = trace[r] \o <<x>>
      BY <2>1, <3>2, OneRecord
    <3> QED
      BY <3>1, <3>2, <3>3, <3>4
  <2> HIDE DEF x
  <2>4. \A k : HasKind(trace'[r], k) <=> HasKind(trace[r], k) \/ k = x.kind
    <3>1. \A k : HasKind(<<x>>, k) <=> k = x.kind
      BY <2>1, OneRecord
    <3>2. \A k : HasKind(trace[r] \o <<x>>, k) <=> HasKind(trace[r], k) \/ HasKind(<<x>>, k)
      BY <2>3, KindsOfConcat
    <3> QED
      BY <2>3, <3>1, <3>2
  <2>5. EndRecorded(r)'
    <3>1. ~HasKind(trace[r], "finish") /\ ~HasKind(trace[r], "abort")
      BY <1>0, <2>2 DEF RowOf, EndRecorded
    <3> QED
      BY <2>1, <2>2, <2>4, <3>1 DEF EndRecorded
  <2>6. ASSUME ~missed PROVE TimesRight(r)'
    <3>1. EngineTimes(r) /\ AdmitRecorded(r) /\ EntryRight(r) /\ EndRight(r)
      BY <1>0, <2>6 DEF RowOf, TimesRight
    <3>2. HasKind(trace'[r], "admit") <=> HasKind(trace[r], "admit")
      BY <2>1, <2>4
    <3>3. EngineTimes(r)'
      <4>1. r \in decided["admitted"] => build.nested
        BY <1>3, <3>1 DEF EngineTimes
      <4> QED
        BY <1>3, <2>2, <3>1, <4>1 DEF EngineTimes
    <3>4. AdmitRecorded(r)'
      <4>1. HasKind(trace[r], "admit") => FirstIs(trace[r] \o <<x>>, "admit", firstStep[r])
        BY <2>3, <3>1, FirstOfConcat DEF AdmitRecorded
      <4> QED
        BY <1>3, <2>2, <2>3, <3>1, <3>2, <4>1 DEF AdmitRecorded
    <3>5. EntryRight(r)'
      BY <2>2 DEF EntryRight, InEngine
    <3>6. EndRight(r)'
      <4>1. x.arrival /\ x.schedule \in {0, firstStep[r]}
        BY <1>0, <2>1, <2>2, <3>1 DEF EntryRight, InEngine, TypeOK
      <4>2. ASSUME ~build.nested PROVE x.schedule = firstStep[r]
        <5>1. r \notin decided["admitted"]
          BY <1>3, <3>1, <4>2 DEF EngineTimes
        <5>2. firstStep[r] # 0 => HasKind(trace[r], "admit")
          BY <3>1, <4>2, <5>1 DEF AdmitRecorded
        <5> QED
          BY <2>1, <2>2, <3>1, <5>2 DEF EntryRight
      <4>3. Ends(<<x>>, firstStep[r], ~build.nested)
        <5>1. DOMAIN <<x>> = {1} /\ <<x>>[1] = x
          OBVIOUS
        <5> QED
          BY <4>1, <4>2, <5>1 DEF Ends
      <4>4. Ends(trace[r] \o <<x>>, firstStep[r], ~build.nested)
        BY <2>3, <3>1, <4>3, EndsOfConcat DEF EndRight
      <4> QED
        BY <1>3, <2>3, <4>4 DEF EndRight
    <3> QED
      BY <3>3, <3>4, <3>5, <3>6 DEF TimesRight
  <2> QED
    BY <1>3, <2>5, <2>6 DEF RowOf
<1> QED
  BY <1>4, <1>5

LEMMA RowBatchRaises ==
  ASSUME RowInv, BatchRaises, NEW r \in Requests
  PROVE  RowOf(r)'
<1>1. EndRecorded(r) /\ UNCHANGED <<eng, trace>> /\ missed'
  BY DEF RowInv, RowOf, BatchRaises, engineVars
<1> QED
  BY <1>1 DEF RowOf, EndRecorded

LEMMA RowStutters ==
  ASSUME RowInv, UNCHANGED vars, NEW r \in Requests
  PROVE  RowOf(r)'
<1>1. RowOf(r)
  BY DEF RowInv, RowOf
<1> QED
  BY <1>1 DEF vars, engineVars, trackerVars, RowOf, EndRecorded, TimesRight, EngineTimes,
     AdmitRecorded, EntryRight, EndRight, InEngine

LEMMA RowNext == RowInv /\ [Next]_vars => RowInv'
<1> SUFFICES ASSUME RowInv, [Next]_vars PROVE RowInv'
  OBVIOUS
<1>1. TypeOK'
  BY TypeNext DEF RowInv
<1>2. ASSUME NEW r \in Requests PROVE RowOf(r)'
  BY RowGenerate, RowRunBatch, RowBatchReturns, RowBatchRaises, RowHandleFinished, RowStutters DEF Next
<1> QED
  BY <1>1, <1>2 DEF RowInv, RowOf

LEMMA RowsFollow == RowInv => RowIsRight
<1> SUFFICES ASSUME RowInv, NEW r \in Requests
             PROVE  /\ Status(r) = CASE eng[r] = "finished" -> "finish"
                                     [] eng[r] = "aborted" -> "abort"
                                     [] OTHER -> "open"
                    /\ ~missed => FirstSchedule(r) \in {0, firstStep[r]}
                    /\ ~missed /\ epc = "idle" /\ ~build.nested => FirstSchedule(r) = firstStep[r]
                    /\ ~missed => \A i \in DOMAIN trace[r] :
                         trace[r][i].kind \in {"finish", "abort"} =>
                           /\ trace[r][i].arrival
                           /\ trace[r][i].schedule \in {0, firstStep[r]}
                           /\ ~build.nested => trace[r][i].schedule = firstStep[r]
  BY DEF RowIsRight
<1>1. TypeOK /\ EndRecorded(r) /\ (~missed => TimesRight(r))
  BY DEF RowInv, RowOf
<1>2. \A k : Has(r, k) <=> HasKind(trace[r], k)
  BY DEF Has, HasKind
<1>3. Status(r) = CASE eng[r] = "finished" -> "finish"
                    [] eng[r] = "aborted" -> "abort"
                    [] OTHER -> "open"
  BY <1>1, <1>2 DEF Status, EndRecorded
<1>4. ASSUME ~missed
      PROVE  /\ FirstSchedule(r) = IF HasKind(trace[r], "admit") THEN firstStep[r] ELSE 0
             /\ epc = "idle" /\ ~build.nested /\ firstStep[r] # 0 => HasKind(trace[r], "admit")
  <2>1. EngineTimes(r) /\ AdmitRecorded(r)
    BY <1>1, <1>4 DEF TimesRight
  <2>2. CASE HasKind(trace[r], "admit")
    <3>1. FirstIs(trace[r], "admit", firstStep[r]) /\ trace[r] \in Seq(Record)
      BY <1>1, <2>1, <2>2 DEF AdmitRecorded, TypeOK
    <3>2. FirstValue(r, "admit") = firstStep[r]
      BY <3>1, FirstIsValue
    <3> QED
      BY <2>2, <3>2 DEF FirstSchedule
  <2>3. CASE ~HasKind(trace[r], "admit")
    <3>1. FirstSchedule(r) = 0
      BY <1>2, <2>3 DEF FirstSchedule, FirstValue
    <3>2. epc = "idle" => r \notin decided["admitted"]
      BY <2>1 DEF EngineTimes
    <3> QED
      BY <2>1, <2>3, <3>1, <3>2 DEF AdmitRecorded
  <2> QED
    BY <2>2, <2>3
<1>5. ~missed => Ends(trace[r], firstStep[r], ~build.nested)
  BY <1>1 DEF TimesRight, EndRight
<1> QED
  BY <1>3, <1>4, <1>5 DEF Ends

\* The analysis' row of a request tells whether and how it has ended, and its
\* time of scheduling is that of the run_batch() that first admitted it, for any
\* requests, any number of calls and any kind of scheduler.
THEOREM SglangRowIsRight == Spec => []RowIsRight
<1>1. Init => RowInv
  BY TypeInit, RowInit DEF RowInv, RowOf
<1> QED
  BY <1>1, RowNext, RowsFollow, PTL DEF Spec

-----------------------------------------------------------------------------
(* The newest record.                                                      *)

Gone == {"finished", "aborted"}

\* The schedulers, and the runs of them, of which LastRecordTells speaks.
Told == ~build.stale /\ ~missed /\ ("admitted" \in build.names => "resumed" \in build.names)

\* What the scheduler does with r is what it did before the run_batch() under
\* way and what that call has decided since.
Moved(r) ==
  /\ r \in decided["admitted"] =>
       r \notin before \cup decided["preempted"] \cup decided["resumed"] /\ eng[r] \in {"running"} \cup Gone
  /\ r \in decided["resumed"] =>
       r \notin before \cup decided["preempted"] /\ eng[r] \in {"running"} \cup Gone
  /\ r \in decided["preempted"] => r \in before /\ eng[r] \in {"retracted"} \cup Gone
  /\ r \in before /\ eng[r] # "running" => build.nested \/ r \in decided["preempted"]
  /\ eng[r] = "waiting" => r \notin before
  /\ eng[r] = "running" /\ epc = "batch" =>
       r \in before \/ r \in decided["admitted"] \/ r \in decided["resumed"]
  /\ eng[r] = "retracted" /\ r \in before => r \in decided["preempted"]
  /\ eng[r] \in Gone /\ ~build.nested =>
       r \notin before \cup decided["admitted"] \cup decided["resumed"] \cup decided["preempted"]
  /\ epc = "idle" => r \notin before \cup decided["admitted"] \cup decided["resumed"] \cup decided["preempted"]

\* Until the wrapper has heard of a decision the newest record is that of the
\* time before.
LastIs(s, K) == s # <<>> => s[Len(s)].kind \in K

LastRight(r) ==
  /\ eng[r] = "waiting" => LastIs(trace[r], {"arrival"})
  /\ eng[r] = "running" /\ r \notin decided["admitted"] \cup decided["resumed"] =>
       LastIs(trace[r], {"admit", "resume"})
  /\ eng[r] = "retracted" /\ r \notin decided["preempted"] => LastIs(trace[r], {"preempt"})
  /\ eng[r] = "finished" /\ ~build.nested => LastIs(trace[r], {"finish"})
  /\ eng[r] = "aborted" /\ ~build.nested => LastIs(trace[r], {"abort"})

LastInv == TypeOK /\ \A r \in Requests : Told => Moved(r) /\ LastRight(r)

\* The newest record of a sequence that has grown.
LEMMA LastOfConcat ==
  ASSUME NEW s \in Seq(Record), NEW t \in Seq(Record), NEW K
  PROVE  /\ t = <<>> => (LastIs(s \o t, K) <=> LastIs(s, K))
         /\ t # <<>> => (LastIs(s \o t, K) <=> t[Len(t)].kind \in K)
<1>1. /\ s \o t \in Seq(Record) /\ Len(s \o t) = Len(s) + Len(t)
      /\ \A i \in 1 .. Len(s) : (s \o t)[i] = s[i]
      /\ \A i \in 1 .. Len(t) : (s \o t)[Len(s) + i] = t[i]
      /\ Len(s) \in Nat /\ Len(t) \in Nat
  BY ConcatProperties
<1>2. CASE t = <<>>
  BY <1>2, ConcatEmptySeq
<1>3. CASE t # <<>>
  <2>1. Len(t) \in 1 .. Len(t)
    BY <1>1, <1>3
  <2>2. s \o t # <<>> /\ (s \o t)[Len(s \o t)] = t[Len(t)]
    BY <1>1, <2>1
  <2> QED
    BY <1>3, <2>2 DEF LastIs
<1> QED
  BY <1>2, <1>3

LEMMA LastOfAppend ==
  ASSUME NEW s \in Seq(Record), NEW x \in Record, NEW K, x.kind \in K
  PROVE  LastIs(Append(s, x), K)
<1>1. Append(s, x)[Len(Append(s, x))] = x
  OBVIOUS
<1> QED
  BY <1>1 DEF LastIs

\* The newest of the records a run_batch() leaves in the trace of r.
LEMMA BatchLast ==
  ASSUME TypeOK, NEW r \in Requests, NEW K,
         \/ r \in ResumedIds /\ "resume" \in K
         \/ r \notin ResumedIds /\ r \in PreemptedIds /\ "preempt" \in K
         \/ r \notin ResumedIds /\ r \notin PreemptedIds /\ r \in AdmittedIds /\ "admit" \in K
  PROVE  LastIs(trace[r] \o BatchRecords(r), K)
<1> DEFINE x == Rec("admit", state[r].arrival, step)
           y == Rec("preempt", FALSE, 0)
           z == Rec("resume", FALSE, 0)
           a == IF r \in AdmittedIds THEN <<x>> ELSE <<>>
           p == IF r \in PreemptedIds THEN <<y>> ELSE <<>>
           s == IF r \in ResumedIds THEN <<z>> ELSE <<>>
<1>0. 0 \in 0 .. MaxSteps /\ FALSE \in BOOLEAN /\ trace[r] \in Seq(Record)
  BY SglangAssumption DEF SglangAssumption, TypeOK
<1>1. x \in Record /\ x.kind = "admit"
  BY TypesOfStates, RecIsRecord DEF TypeOK, Kinds, Rec
<1>2. y \in Record /\ z \in Record /\ y.kind = "preempt" /\ z.kind = "resume"
  BY <1>0, RecIsRecord DEF Kinds, Rec
<1>3. BatchRecords(r) = (a \o p) \o s
  BY DEF BatchRecords
<1> HIDE DEF x, y, z
<1>4. <<>> \in Seq(Record) /\ \A e \in Record : <<e>> \in Seq(Record) /\ <<e>> # <<>> /\ <<e>>[Len(<<e>>)] = e
  OBVIOUS
<1>5. a \in Seq(Record) /\ (r \in AdmittedIds => a = <<x>>)
  <2>1. CASE r \in AdmittedIds
    BY <1>1, <1>4, <2>1
  <2>2. CASE r \notin AdmittedIds
    BY <1>4, <2>2
  <2> QED
    BY <2>1, <2>2
<1>6. p \in Seq(Record) /\ (IF r \in PreemptedIds THEN p = <<y>> ELSE p = <<>>)
  <2>1. CASE r \in PreemptedIds
    BY <1>2, <1>4, <2>1
  <2>2. CASE r \notin PreemptedIds
    BY <1>4, <2>2
  <2> QED
    BY <2>1, <2>2
<1>7. s \in Seq(Record) /\ (IF r \in ResumedIds THEN s = <<z>> ELSE s = <<>>)
  <2>1. CASE r \in ResumedIds
    BY <1>2, <1>4, <2>1
  <2>2. CASE r \notin ResumedIds
    BY <1>4, <2>2
  <2> QED
    BY <2>1, <2>2
<1> HIDE DEF a, p, s
<1>8. a \o p \in Seq(Record) /\ (a \o p) \o s \in Seq(Record)
  BY <1>5, <1>6, <1>7, ConcatProperties
<1>9. LastIs((a \o p) \o s, K) /\ (a \o p) \o s # <<>>
  <2>1. CASE r \in ResumedIds
    <3>1. s # <<>> /\ s[Len(s)].kind = "resume" /\ "resume" \in K
      BY <1>2, <1>4, <1>7, <2>1
    <3>2. LastIs((a \o p) \o s, K)
      <4>1. s[Len(s)].kind \in K
        BY <3>1
      <4> QED
        BY <1>7, <1>8, <3>1, <4>1, LastOfConcat
    <3>3. (a \o p) \o s # <<>>
      BY <1>7, <1>8, <3>1, ConcatProperties
    <3> QED
      BY <3>2, <3>3
  <2>2. CASE r \notin ResumedIds /\ r \in PreemptedIds
    <3>1. p # <<>> /\ p[Len(p)].kind = "preempt" /\ "preempt" \in K /\ s = <<>>
      BY <1>2, <1>4, <1>6, <1>7, <2>2
    <3>2. LastIs(a \o p, K) /\ a \o p # <<>>
      BY <1>5, <1>6, <3>1, LastOfConcat, ConcatProperties
    <3>3. (a \o p) \o s = a \o p
      BY <1>8, <3>1, ConcatEmptySeq
    <3> QED
      BY <3>2, <3>3
  <2>3. CASE r \notin ResumedIds /\ r \notin PreemptedIds
    <3>1. a = <<x>> /\ p = <<>> /\ s = <<>> /\ "admit" \in K
      BY <1>5, <1>6, <1>7, <2>3
    <3>2. (a \o p) \o s = <<x>>
      BY <1>5, <1>8, <3>1, ConcatEmptySeq
    <3>3. <<x>> # <<>> /\ <<x>>[Len(<<x>>)] = x
      BY <1>1, <1>4
    <3> QED
      BY <1>1, <3>1, <3>2, <3>3 DEF LastIs
  <2> QED
    BY <2>1, <2>2, <2>3
<1>10. \A t \in Seq(Record) : t # <<>> /\ LastIs(t, K) => LastIs(trace[r] \o t, K)
  BY <1>0, LastOfConcat DEF LastIs
<1> QED
  BY <1>3, <1>8, <1>9, <1>10

\* A request that a run_batch() has left alone gets no record.
LEMMA BatchNone ==
  ASSUME TypeOK, NEW r \in Requests, r \notin ResumedIds \cup PreemptedIds \cup AdmittedIds
  PROVE  trace[r] \o BatchRecords(r) = trace[r]
<1>1. BatchRecords(r) = (<<>> \o <<>>) \o <<>>
  BY DEF BatchRecords
<1>2. trace[r] \in Seq(Record)
  BY DEF TypeOK
<1>3. <<>> \o <<>> = <<>>
  OBVIOUS
<1> QED
  BY <1>1, <1>2, <1>3, ConcatEmptySeq

LEMMA LastInit == Init => LastInv
<1> SUFFICES ASSUME Init, NEW r \in Requests PROVE Moved(r) /\ LastRight(r)
  BY TypeInit DEF LastInv
<1>1. /\ eng[r] = "absent" /\ before = {} /\ decided["admitted"] = {} /\ decided["preempted"] = {}
      /\ decided["resumed"] = {}
  BY DEF Init, Nothing, Decisions
<1> QED
  BY <1>1 DEF Moved, LastRight, Gone

\* Steps of the scheduler that leave r alone.
LEMMA LastKept ==
  ASSUME NEW r \in Requests, Moved(r), LastRight(r),
         UNCHANGED <<build, epc, before, decided, eng[r], trace[r]>>
  PROVE  Moved(r)' /\ LastRight(r)'
  BY DEF Moved, LastRight

LEMMA LastGenerate ==
  ASSUME TypeOK, NEW q \in Requests, Generate(q), NEW r \in Requests, Moved(r), LastRight(r)
  PROVE  Moved(r)' /\ LastRight(r)'
<1>1. UNCHANGED <<build, epc, before, decided>> /\ epc = "idle" /\ eng[q] = "absent"
  BY DEF Generate
<1>2. CASE r # q
  <2>1. trace'[r] = trace[r] /\ eng'[r] = eng[r]
    BY <1>2 DEF Generate, TypeOK
  <2> QED
    BY <1>1, <2>1, LastKept
<1>3. CASE r = q
  <2>1. eng'[r] = "waiting"
    BY <1>3 DEF Generate, TypeOK
  <2>2. trace'[r] = Append(trace[r], Rec("arrival", TRUE, 0)) /\ trace[r] \in Seq(Record)
    BY <1>3 DEF Generate, TypeOK
  <2>3. Rec("arrival", TRUE, 0) \in Record /\ Rec("arrival", TRUE, 0).kind = "arrival"
    <3>1. 0 \in 0 .. MaxSteps /\ TRUE \in BOOLEAN
      BY SglangAssumption DEF SglangAssumption
    <3> QED
      BY <3>1, RecIsRecord DEF Kinds, Rec
  <2>4. LastIs(trace'[r], {"arrival"})
    BY <2>2, <2>3, LastOfAppend
  <2>5. LastRight(r)'
    BY <2>1, <2>4 DEF LastRight
  <2>6. r \notin before
    BY <1>1, <1>3 DEF Moved, Gone
  <2>7. Moved(r)'
    BY <1>1, <1>3, <2>1, <2>6 DEF Moved, Gone
  <2> QED
    BY <2>5, <2>7
<1> QED
  BY <1>2, <1>3

LEMMA LastRunBatch ==
  ASSUME TypeOK, RunBatch, ~build.stale, NEW r \in Requests, Moved(r), LastRight(r)
  PROVE  Moved(r)' /\ LastRight(r)'
<1>1. PICK A \in SUBSET Are("waiting"), R \in SUBSET Are("retracted"), P \in SUBSET Are("running") :
       /\ eng' = [q \in Requests |-> CASE q \in A \cup R -> "running"
                                       [] q \in P -> "retracted"
                                       [] OTHER -> eng[q]]
       /\ cur' = (Are("running") \ P) \cup A \cup R
       /\ decided' = [d \in Decisions |-> CASE d = "admitted" -> A
                                            [] d = "preempted" -> P
                                            [] d = "resumed" -> R]
       /\ firstStep' = [q \in Requests |-> IF q \in A THEN step + 1 ELSE firstStep[q]]
  BY DEF RunBatch
<1>2. /\ UNCHANGED <<trace, build>> /\ epc = "idle" /\ epc' = "batch"
      /\ r \in before' <=> eng[r] = "running"
  BY DEF RunBatch, trackerVars, RunningIds, Are
<1>3. decided'["admitted"] = A /\ decided'["preempted"] = P /\ decided'["resumed"] = R
  BY <1>1 DEF Decisions
<1>4. /\ r \in A => eng[r] = "waiting" /\ eng'[r] = "running"
      /\ r \in R => eng[r] = "retracted" /\ eng'[r] = "running"
      /\ r \in P => eng[r] = "running" /\ eng'[r] = "retracted"
      /\ r \notin A \cup R \cup P => eng'[r] = eng[r]
  BY <1>1 DEF Are
<1>5. Moved(r)'
  BY <1>2, <1>3, <1>4 DEF Moved, Gone
<1>6. LastRight(r)'
  BY <1>2, <1>3, <1>4 DEF LastRight, Moved
<1> QED
  BY <1>5, <1>6

LEMMA LastBatchReturns ==
  ASSUME TypeOK, BatchReturns, Told, NEW r \in Requests, Moved(r), LastRight(r)
  PROVE  Moved(r)' /\ LastRight(r)'
<1>1. /\ epc = "batch" /\ epc' = "idle" /\ before' = {}
      /\ decided'["admitted"] = {} /\ decided'["preempted"] = {} /\ decided'["resumed"] = {}
      /\ UNCHANGED <<build, eng>>
      /\ trace'[r] = trace[r] \o BatchRecords(r)
  BY DEF BatchReturns, engineVars, Nothing, Decisions
<1>2. /\ r \in RunningIds <=> eng[r] = "running"
      /\ Named("admitted") \in {{}, decided["admitted"]}
      /\ Named("preempted") \in {{}, decided["preempted"]}
      /\ Named("resumed") \in {{}, decided["resumed"]}
      /\ "resumed" \in build.names => Named("resumed") = decided["resumed"]
      /\ "admitted" \notin build.names => Named("admitted") = {}
      /\ "admitted" \in build.names => "resumed" \in build.names
  BY DEF RunningIds, Are, Named, Told
<1>3. Moved(r)'
  BY <1>1 DEF Moved, Gone
<1>4. CASE eng[r] = "running"
  <2>1. r \notin PreemptedIds
    BY <1>2, <1>4 DEF PreemptedIds, Moved, Gone
  <2>2. CASE r \in decided["admitted"] \cup decided["resumed"]
    <3>1. r \in AdmittedIds \cup ResumedIds
      BY <1>2, <1>4, <2>2 DEF AdmittedIds, ResumedIds, Moved
    <3>2. LastIs(trace'[r], {"admit", "resume"})
      BY <1>1, <2>1, <3>1, BatchLast
    <3> QED
      BY <1>1, <1>3, <1>4, <3>2 DEF LastRight
  <2>3. CASE r \notin decided["admitted"] \cup decided["resumed"]
    <3>1. r \notin AdmittedIds \cup ResumedIds
      BY <1>1, <1>2, <1>4, <2>3 DEF AdmittedIds, ResumedIds, Moved
    <3>2. trace'[r] = trace[r]
      BY <1>1, <2>1, <3>1, BatchNone
    <3> QED
      BY <1>1, <1>3, <1>4, <2>3, <3>2 DEF LastRight
  <2> QED
    BY <2>2, <2>3
<1>5. CASE eng[r] = "retracted"
  <2>1. r \notin AdmittedIds \cup ResumedIds
    BY <1>2, <1>5 DEF AdmittedIds, ResumedIds, Moved, Gone
  <2>2. CASE r \in decided["preempted"]
    <3>1. r \in PreemptedIds
      BY <1>2, <1>5, <2>1, <2>2 DEF PreemptedIds, Moved
    <3>2. LastIs(trace'[r], {"preempt"})
      BY <1>1, <2>1, <3>1, BatchLast
    <3> QED
      BY <1>1, <1>3, <1>5, <3>2 DEF LastRight
  <2>3. CASE r \notin decided["preempted"]
    <3>1. r \notin PreemptedIds
      BY <1>2, <1>5, <2>3 DEF PreemptedIds, Moved
    <3>2. trace'[r] = trace[r]
      BY <1>1, <2>1, <3>1, BatchNone
    <3> QED
      BY <1>1, <1>3, <1>5, <2>3, <3>2 DEF LastRight
  <2> QED
    BY <2>2, <2>3
<1>6. CASE eng[r] = "waiting" \/ (eng[r] \in Gone /\ ~build.nested)
  <2>1. r \notin before \cup decided["admitted"] \cup decided["resumed"] \cup decided["preempted"]
    BY <1>6 DEF Moved, Gone
  <2>2. r \notin AdmittedIds \cup ResumedIds \cup PreemptedIds
    BY <1>2, <1>6, <2>1 DEF AdmittedIds, ResumedIds, PreemptedIds, Gone
  <2>3. trace'[r] = trace[r]
    BY <1>1, <2>2, BatchNone
  <2> QED
    BY <1>1, <1>3, <1>6, <2>3 DEF LastRight, Gone
<1>7. CASE eng[r] \notin {"running", "retracted", "waiting"} \cup Gone \/ (eng[r] \in Gone /\ build.nested)
  BY <1>1, <1>3, <1>7 DEF LastRight, Gone
<1> QED
  BY <1>3, <1>4, <1>5, <1>6, <1>7

LEMMA LastHandleFinished ==
  ASSUME TypeOK, HandleFinished, NEW r \in Requests, Moved(r), LastRight(r)
  PROVE  Moved(r)' /\ LastRight(r)'
<1>1. PICK F \in SUBSET InEngine \ {{}} : \E A \in SUBSET F :
       /\ F \ A \subseteq Are("running")
       /\ eng' = [q \in Requests |-> IF q \in F THEN Ended(q, A) ELSE eng[q]]
       /\ trace' = [q \in Requests |-> IF q \in F THEN Append(trace[q], FinishRecord(q, A)) ELSE trace[q]]
  BY DEF HandleFinished
<1>2. PICK A \in SUBSET F :
       /\ eng' = [q \in Requests |-> IF q \in F THEN Ended(q, A) ELSE eng[q]]
       /\ trace' = [q \in Requests |-> IF q \in F THEN Append(trace[q], FinishRecord(q, A)) ELSE trace[q]]
  BY <1>1
<1>3. (epc = "idle" \/ build.nested) /\ UNCHANGED <<build, epc, before, decided>>
  BY DEF HandleFinished
<1>4. CASE r \notin F
  <2>1. trace'[r] = trace[r] /\ eng'[r] = eng[r]
    BY <1>2, <1>4
  <2> QED
    BY <1>3, <2>1, LastKept
<1>5. CASE r \in F
  <2>1. eng'[r] = (IF r \in A THEN "aborted" ELSE "finished") /\ trace'[r] = Append(trace[r], FinishRecord(r, A))
    BY <1>2, <1>5 DEF Ended
  <2>2. /\ FinishRecord(r, A) \in Record
        /\ FinishRecord(r, A).kind = IF r \in A THEN "abort" ELSE "finish"
    BY TypesOfStates, RecIsRecord DEF FinishRecord, Outcome, Kinds, Rec
  <2>3. trace[r] \in Seq(Record)
    BY DEF TypeOK
  <2>4. LastIs(trace'[r], {IF r \in A THEN "abort" ELSE "finish"})
    BY <2>1, <2>2, <2>3, LastOfAppend
  <2>5. LastRight(r)'
    BY <2>1, <2>4 DEF LastRight
  <2>6. eng'[r] \in Gone /\ eng[r] \in {"waiting", "running", "retracted"}
    BY <1>5, <2>1 DEF Gone, InEngine
  <2>7. ~build.nested => r \notin before
    BY <1>3, <2>6 DEF Moved
  <2>8. Moved(r)'
    BY <1>3, <2>6, <2>7 DEF Moved, Gone
  <2> QED
    BY <2>5, <2>8
<1> QED
  BY <1>4, <1>5

LEMMA LastNext == LastInv /\ [Next]_vars => LastInv'
<1> SUFFICES ASSUME LastInv, [Next]_vars, NEW r \in Requests, Told' PROVE Moved(r)' /\ LastRight(r)'
  BY TypeNext DEF LastInv
<1>0. TypeOK
  BY DEF LastInv
<1>1. CASE BatchRaises
  BY <1>1 DEF BatchRaises, Told
<1>2. CASE ~BatchRaises
  <2>1. build' = build /\ missed' = missed
    BY <1>2 DEF Next, RunBatch, BatchReturns, HandleFinished, Generate, vars
  <2>2. Told /\ Moved(r) /\ LastRight(r) /\ ~build.stale
    BY <2>1 DEF Told, LastInv
  <2>3. CASE UNCHANGED vars
    BY <2>2, <2>3, LastKept DEF vars, engineVars
  <2> QED
    BY <1>0, <1>2, <2>2, <2>3, LastGenerate, LastRunBatch, LastBatchReturns, LastHandleFinished DEF Next
<1> QED
  BY <1>1, <1>2

\* The newest record of a request tells what has become of it, although the
\* probe has nothing but two looks at the running set and what the result names.
THEOREM SglangLastRecordTells == Spec => []LastRecordTells
<1>1. LastInv => LastRecordTells
  <2> SUFFICES ASSUME LastInv, epc = "idle", Told, NEW r \in Requests, trace[r] # <<>>
               PROVE  LET last == trace[r][Len(trace[r])].kind IN
                      /\ eng[r] = "waiting" => last = "arrival"
                      /\ eng[r] = "running" => last \in {"admit", "resume"}
                      /\ eng[r] = "retracted" => last = "preempt"
                      /\ eng[r] = "finished" /\ ~build.nested => last = "finish"
                      /\ eng[r] = "aborted" /\ ~build.nested => last = "abort"
    BY DEF LastRecordTells, Told
  <2> QED
    BY DEF LastInv, Moved, LastRight, LastIs
<1> QED
  BY <1>1, LastInit, LastNext, PTL DEF Spec
=============================================================================
