--------------------------- MODULE EmitterSingleton ---------------------------
(***************************************************************************)
(* The process-wide emitter of bkvt/emitter.py: get_emitter(), which every *)
(* probe calls, creates it on demand; shutdown() stops its threads and     *)
(* forgets it; a later get_emitter() creates another.                      *)
(*                                                                         *)
(* A thread has a stack of frames and executes the topmost.  A step ends   *)
(* where another thread can tell the difference: at each access of         *)
(* _emitter without the lock, at a lock, at a join.  The two background    *)
(* threads of an emitter are steps of it; the flusher's passes are module  *)
(* Emitter's subject, so that of the records only those are kept that come *)
(* after the last.  Frames of other kinds are pushed by modules that       *)
(* extend this one.  BKVT_ENABLE is set.                                   *)
(***************************************************************************)
EXTENDS Integers, Sequences, FiniteSets

CONSTANTS
  Threads,      \* engine threads
  Nobody,       \* no thread, for the locks
  MaxEmitters,  \* bound: emitters created
  MaxCalls      \* bound: calls made by the threads, nested ones not counted

ASSUME SingletonAssumption ==
  /\ Nobody \notin Threads
  /\ MaxEmitters \in Nat /\ MaxCalls \in Nat

VARIABLES
  stack,       \* stack[t]: the calls t is in, the innermost last
  ret,         \* ret[t]: what the call that ended last returned to t (0: None)
  raised,      \* raised[t]: that call has raised
  current,     \* _emitter (0: None)
  lock,        \* holder of _emitter_lock
  made,        \* emitters created so far
  flusher,     \* flusher[e], collector[e]: the threads of emitter e
  collector,
  stops,       \* stops[e]: which of its threads e has told to stop
  late,        \* history: late[e]: kinds of records put into e after its last pass
  calls,       \* calls begun
  overlapped,  \* history: threads whose call and a shutdown() have overlapped
  gaveUp       \* history: a join() has timed out

frameVars   == <<stack, ret, raised>>
emitterVars == <<made, flusher, collector, stops, late>>
singletonVars == <<frameVars, current, lock, emitterVars, calls, overlapped, gaveUp>>

Emitters == 1 .. MaxEmitters
RecordKinds == {"engine", "anchor", "counters"}

SingletonInit ==
  /\ stack = [t \in Threads |-> <<>>]
  /\ ret = [t \in Threads |-> 0] /\ raised = [t \in Threads |-> FALSE]
  /\ current = 0 /\ lock = Nobody /\ made = 0
  /\ flusher = [e \in Emitters |-> "none"] /\ collector = [e \in Emitters |-> "none"]
  /\ stops = [e \in Emitters |-> {}] /\ late = [e \in Emitters |-> {}]
  /\ calls = 0 /\ overlapped = {} /\ gaveUp = FALSE

-----------------------------------------------------------------------------
(* Frames.                                                                 *)

At(t, op, at) ==
  LET n == Len(stack[t]) IN n > 0 /\ stack[t][n].op = op /\ stack[t][n].at = at

\* t executes a frame of one of these kinds.
In(t, ops) == Len(stack[t]) > 0 /\ stack[t][Len(stack[t])].op \in ops

\* stack[t] with its topmost frame gone on to a place, and, by Enter, a call made.
Moved(t, at) == [stack[t] EXCEPT ![Len(stack[t])].at = at]
Frame(op, at) == [op |-> op, at |-> at]

Outcome(t, value, fails) == ret' = [ret EXCEPT ![t] = value] /\ raised' = [raised EXCEPT ![t] = fails]
Goto(t, at) == stack' = [stack EXCEPT ![t] = Moved(t, at)] /\ Outcome(t, 0, FALSE)
Enter(t, op, at, back) ==
  /\ stack' = [stack EXCEPT ![t] = Append(Moved(t, back), Frame(op, at))]
  /\ Outcome(t, 0, FALSE)

\* What the outermost call returns is the engine's affair.
Leave(t, value, fails) ==
  /\ stack' = [stack EXCEPT ![t] = SubSeq(@, 1, Len(@) - 1)]
  /\ IF Len(stack[t]) = 1 THEN Outcome(t, 0, FALSE) ELSE Outcome(t, value, fails)

Busy(t) == stack[t] # <<>>
ShuttingDown == \E t \in Threads : At(t, "shutdown", "collector") \/ At(t, "shutdown", "flusher")

Begin(t, frames) ==
  /\ ~Busy(t) /\ calls < MaxCalls /\ calls' = calls + 1
  /\ stack' = [stack EXCEPT ![t] = frames]
  /\ overlapped' = IF ShuttingDown THEN overlapped \cup {t} ELSE overlapped \ {t}
  /\ UNCHANGED <<ret, raised, current, lock, emitterVars, gaveUp>>

-----------------------------------------------------------------------------
(* _get_or_create_emitter().                                               *)

GetCheck(t) ==
  /\ At(t, "get", "check")
  /\ Goto(t, IF current # 0 THEN "return" ELSE "wait")
  /\ UNCHANGED <<current, lock, emitterVars, calls, overlapped, gaveUp>>

\* Somebody else has created it while this thread waited for the lock.
Found_BugUnchecked == FALSE
Found == current # 0

GetFound(t) ==
  /\ At(t, "get", "wait") /\ lock = Nobody /\ Found
  /\ Goto(t, "return")
  /\ UNCHANGED <<current, lock, emitterVars, calls, overlapped, gaveUp>>

\* The manifest is written before the lock is released.
ManifestHolds_BugNobody(t) == Nobody
ManifestHolds(t) == t

\* Emitter(cfg): its threads run before _emitter is set, which nobody can tell.
GetCreate(t) ==
  /\ At(t, "get", "wait") /\ lock = Nobody /\ ~Found /\ made < MaxEmitters
  /\ lock' = ManifestHolds(t)
  /\ made' = made + 1 /\ current' = made + 1
  /\ flusher' = [flusher EXCEPT ![made + 1] = "running"]
  /\ collector' = [collector EXCEPT ![made + 1] = "running"]
  /\ Goto(t, "manifest")
  /\ UNCHANGED <<stops, late, calls, overlapped, gaveUp>>

\* Emitter(cfg) raises, for its directory cannot be made; no thread was started.
GetFails(t) ==
  /\ At(t, "get", "wait") /\ lock = Nobody /\ ~Found
  /\ Leave(t, 0, TRUE)
  /\ UNCHANGED <<current, lock, emitterVars, calls, overlapped, gaveUp>>

\* A record of kind k is put into emitter e.
Put(e, k) == late' = IF flusher[e] = "done" THEN [late EXCEPT ![e] = @ \cup {k}] ELSE late

\* write_manifest() leaves a clock anchor, or raises before that; the emitter
\* stays.
GetManifest(t) ==
  /\ At(t, "get", "manifest")
  /\ lock' = Nobody
  /\ \/ Put(current, "anchor") /\ Goto(t, "return")
     \/ Leave(t, 0, TRUE) /\ UNCHANGED late
  /\ UNCHANGED <<current, made, flusher, collector, stops, calls, overlapped, gaveUp>>

\* Either return statement reads _emitter once more, without the lock.
GetReturn(t) ==
  /\ At(t, "get", "return")
  /\ Leave(t, current, FALSE)
  /\ UNCHANGED <<current, lock, emitterVars, calls, overlapped, gaveUp>>

Get(t) ==
  \/ GetCheck(t) \/ GetFound(t) \/ GetCreate(t) \/ GetFails(t) \/ GetManifest(t) \/ GetReturn(t)

-----------------------------------------------------------------------------
(* A probe gets the emitter and puts a record.                             *)

\* None has no attribute "enabled": the engine's call raises.
ProbePut(t) ==
  /\ At(t, "probe", "put")
  /\ IF raised[t] \/ ret[t] = 0 THEN UNCHANGED late ELSE Put(ret[t], "engine")
  /\ Leave(t, 0, raised[t] \/ ret[t] = 0)
  /\ UNCHANGED <<current, lock, made, flusher, collector, stops, calls, overlapped, gaveUp>>

-----------------------------------------------------------------------------
(* _shutdown_emitter(), Emitter.shutdown().                                *)

ShutdownLock(t) ==
  /\ At(t, "shutdown", "wait") /\ lock = Nobody /\ current # 0
  /\ lock' = t
  /\ stops' = [stops EXCEPT ![current] = @ \cup {"collector"}]
  /\ overlapped' = overlapped \cup {u \in Threads : Busy(u)}
  /\ Goto(t, "collector")
  /\ UNCHANGED <<current, made, flusher, collector, late, calls, gaveUp>>

ShutdownNothing(t) ==
  /\ At(t, "shutdown", "wait") /\ lock = Nobody /\ current = 0
  /\ Leave(t, 0, FALSE)
  /\ UNCHANGED <<current, lock, emitterVars, calls, overlapped, gaveUp>>

\* join(timeout=5.0) returns: the thread has ended or, after that time, has not.
Joined(x) == gaveUp' = (gaveUp \/ x \notin {"done", "dead"})

JoinCollector(t) ==
  /\ At(t, "shutdown", "collector")
  /\ Joined(collector[current])
  /\ stops' = [stops EXCEPT ![current] = @ \cup {"flusher"}]
  /\ Goto(t, "flusher")
  /\ UNCHANGED <<current, lock, made, flusher, collector, late, calls, overlapped>>

AfterShutdown_BugKept == current
AfterShutdown == 0

JoinFlusher(t) ==
  /\ At(t, "shutdown", "flusher")
  /\ Joined(flusher[current])
  /\ current' = AfterShutdown /\ lock' = Nobody
  /\ Leave(t, 0, FALSE)
  /\ UNCHANGED <<emitterVars, calls, overlapped>>

Shutdown(t) == ShutdownLock(t) \/ ShutdownNothing(t) \/ JoinCollector(t) \/ JoinFlusher(t)

-----------------------------------------------------------------------------
(* The threads of emitter e.                                               *)

\* The pass after the loop, and the end.
FlusherEnds(e) ==
  /\ flusher[e] = "running" /\ "flusher" \in stops[e]
  /\ flusher' = [flusher EXCEPT ![e] = "done"]
  /\ UNCHANGED <<frameVars, current, lock, made, collector, stops, late, calls, overlapped, gaveUp>>

\* A write raises: the exception ends the thread, at any time and without a word
\* to anybody.  _emitter stays, and so does the collector.
FlusherDies(e) ==
  /\ flusher[e] = "running"
  /\ flusher' = [flusher EXCEPT ![e] = "dead"]
  /\ UNCHANGED <<frameVars, current, lock, made, collector, stops, late, calls, overlapped, gaveUp>>

\* SystemCounterCollector._run() looks at its event and takes a round of samples.
CollectorSample(e) ==
  /\ collector[e] = "running" /\ "collector" \notin stops[e]
  /\ collector' = [collector EXCEPT ![e] = "sampling"]
  /\ UNCHANGED <<frameVars, current, lock, made, flusher, stops, late, calls, overlapped, gaveUp>>

CollectorPut(e) ==
  /\ collector[e] = "sampling"
  /\ collector' = [collector EXCEPT ![e] = "running"]
  /\ Put(e, "counters")
  /\ UNCHANGED <<frameVars, current, lock, made, flusher, stops, calls, overlapped, gaveUp>>

CollectorEnds(e) ==
  /\ collector[e] = "running" /\ "collector" \in stops[e]
  /\ collector' = [collector EXCEPT ![e] = "done"]
  /\ UNCHANGED <<frameVars, current, lock, made, flusher, stops, late, calls, overlapped, gaveUp>>

Background(e) ==
  FlusherEnds(e) \/ FlusherDies(e) \/ CollectorSample(e) \/ CollectorPut(e) \/ CollectorEnds(e)

\* A step of t in a call of this module.
SingletonStep(t) ==
  \/ In(t, {"get"}) /\ Get(t)
  \/ ProbePut(t)
  \/ In(t, {"shutdown"}) /\ Shutdown(t)
SingletonBegin(t) ==
  Begin(t, <<Frame("probe", "put"), Frame("get", "check")>>) \/ Begin(t, <<Frame("shutdown", "wait")>>)

-----------------------------------------------------------------------------
\* The emitter's lock is held just inside the blocks that take it.
SingletonTypeOK ==
  /\ ret \in [Threads -> Nat] /\ raised \in [Threads -> BOOLEAN]
  /\ current \in 0 .. made /\ lock \in Threads \cup {Nobody}
  /\ made \in 0 .. MaxEmitters
  /\ flusher \in [Emitters -> {"none", "running", "done", "dead"}]
  /\ collector \in [Emitters -> {"none", "running", "sampling", "done"}]
  /\ stops \in [Emitters -> SUBSET {"collector", "flusher"}]
  /\ late \in [Emitters -> SUBSET RecordKinds]
  /\ calls \in 0 .. MaxCalls /\ overlapped \in SUBSET Threads /\ gaveUp \in BOOLEAN
  /\ \A t \in Threads : lock = t <=>
       At(t, "get", "manifest") \/ At(t, "shutdown", "collector") \/ At(t, "shutdown", "flusher")

\* As long as no join times out, no two flushers write the worker's file at once,
\* whoever creates emitters and shuts them down at the same time.  Where a flusher
\* has come to its orderly end, what comes after its last pass is a probe's: the
\* counters and the clock anchors of the emitter are all in before.  Of one that
\* a failed write has ended (emitter.py:477) nothing of the kind is promised: its
\* collector goes on sampling.
OneWriter ==
  ~gaveUp =>
    /\ \A d, e \in Emitters : flusher[d] = "running" /\ flusher[e] = "running" => d = e
    /\ \A e \in Emitters : flusher[e] = "done" =>
         collector[e] = "done" /\ late[e] \subseteq {"engine"}

\* A probe's call that no shutdown() overlaps gets an emitter, and one that has
\* not been told to stop and whose flusher runs, unless a failed write has ended
\* it: then nobody replaces the emitter, and what the probes go on giving it is
\* never written.  A call that a shutdown() overlaps may be given None
\* (emitter.py:523 and :532 read _emitter once to look and once to return it) or
\* an emitter that is gone.
LiveOutsideShutdown ==
  \A t \in Threads : At(t, "probe", "put") /\ ~raised[t] /\ t \notin overlapped =>
    ret[t] # 0 /\ flusher[ret[t]] \in {"running", "dead"} /\ stops[ret[t]] = {}
=============================================================================
