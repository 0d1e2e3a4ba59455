------------------------------ MODULE Emitter ------------------------------
(***************************************************************************)
(* The in-process record emitter of bkvt/emitter.py: every engine thread   *)
(* that fires a probe puts records into a ring buffer of its own, and one  *)
(* background flusher thread drains all ring buffers into the trace file.  *)
(*                                                                         *)
(* A step of this module is a stretch of Python that CPython's interpreter *)
(* lock runs without a switch: between the two sides of a "+=" there is no *)
(* switch point, between a call that returned (len, list, deque, set) and  *)
(* the next statement there is one.  A critical section of _buf_lock or of *)
(* _live_transfers_lock holds a single statement and is one step.          *)
(*                                                                         *)
(* The variables issued, refused, lost and before are history: the code    *)
(* does not keep them, no action's guard reads them.  An operator whose    *)
(* name ends in _Bug... is the operator below it with a programming error; *)
(* nothing in the specification refers to it.                              *)
(***************************************************************************)
EXTENDS Integers, Sequences, FiniteSets, Functions

CONSTANTS
  Threads,       \* threads that fire probes
  Transfers,     \* ids new_transfer_id() may draw; it never draws one twice
  NoTransfer,    \* "this record is not about a transfer"
  EventKinds,    \* EventKinds[t], of the records of t that are about no transfer:
                 \*   "event" (serialisable) and/or "bad" (the serialiser raises)
  Capacity,      \* _RING_CAPACITY, records a ring buffer holds
  FlushRecords,  \* flush_bytes, in units of the 256 bytes charged per record
  MaxRecords,    \* bound: MaxRecords[t], records thread t issues
  Sampling,      \* TRUE: sample_transfer < 1.0, a transfer may be sampled away
  WriteMayFail   \* TRUE: the file write may raise (disk full, ...)

ASSUME ConstantsAssumption ==
  /\ Capacity \in Nat \ {0}
  /\ FlushRecords \in Nat \ {0}
  /\ MaxRecords \in [Threads -> Nat]
  /\ Sampling \in BOOLEAN
  /\ WriteMayFail \in BOOLEAN
  /\ NoTransfer \notin Transfers
  /\ EventKinds \in [Threads -> SUBSET {"event", "bad"}]

VARIABLES
  pc,           \* pc[t]: where thread t is in a probe call ("idle": in none)
  rec,          \* rec[t]: the record of the call thread t is in
  seqno,        \* seqno[t]: records thread t has issued
  ring,         \* ring[t]: the deque behind thread t's _RingBuffer
  buffers,      \* _buffers: the threads whose buffer is registered, in order
  pending,      \* _pending_approx_bytes, in units of 256 bytes
  trigger,      \* _flush_trigger
  droppedTotal, \* _dropped_total
  used,         \* transfer ids drawn so far
  handed,       \* transfer ids that transfer_start() has returned
  live,         \* keys of _live_transfers
  stop,         \* _stop_event
  fpc,          \* where the flusher thread is
  final,        \* the flusher has left its loop: this flush is the last one
  todo,         \* flusher: buffers of its snapshot still to drain
  copy,         \* flusher: what drain() took and is not yet serialised
  lines,        \* flusher: serialised records not yet written
  file,         \* the records handed to write_batch(), in file order
  issued,       \* history: records passed to event()
  refused,      \* history: records put() turned away
  lost,         \* history: accepted records that can no longer reach the file
  before        \* history: records put or refused when the stop event was set

idVars      == <<used, handed, live>>
callVars    == <<rec, seqno, issued>>
sharedVars  == <<ring, buffers, pending, trigger>>
dropVars    == <<droppedTotal, refused>>
flusherVars == <<fpc, final, todo, copy, lines, file, lost>>
stopVars    == <<stop, before>>
vars == <<pc, idVars, callVars, sharedVars, dropVars, flusherVars, stopVars>>

Kinds == {"event", "bad", "start", "end"}

Record == [thr : Threads, n : Nat, kind : Kinds, tid : Transfers \cup {NoTransfer}]

NoRecord == <<>>

Init ==
  /\ pc = [t \in Threads |-> "idle"]
  /\ rec = [t \in Threads |-> NoRecord]
  /\ seqno = [t \in Threads |-> 0]
  /\ ring = [t \in Threads |-> <<>>]
  /\ buffers = <<>>
  /\ pending = 0 /\ trigger = FALSE /\ droppedTotal = 0
  /\ used = {} /\ handed = {} /\ live = {}
  /\ stop = FALSE /\ fpc = "loop" /\ final = FALSE
  /\ todo = <<>> /\ copy = <<>> /\ lines = <<>> /\ file = <<>>
  /\ issued = {} /\ refused = {} /\ lost = {} /\ before = {}

-----------------------------------------------------------------------------
(* Probe calls, on the thread that fires the probe.                        *)

Goto(t, l) == pc' = [pc EXCEPT ![t] = l]

\* Thread t calls event() with a new record.
Enter(t, k, x) ==
  LET r == [thr |-> t, n |-> seqno[t] + 1, kind |-> k, tid |-> x] IN
  /\ pc[t] = "idle"
  /\ seqno[t] < MaxRecords[t]
  /\ seqno' = [seqno EXCEPT ![t] = @ + 1]
  /\ rec' = [rec EXCEPT ![t] = r]
  /\ issued' = issued \cup {r}
  /\ Goto(t, "getbuf")
  /\ UNCHANGED <<sharedVars, dropVars, flusherVars, stopVars>>

\* event(), and metadata() when its body is left.
Event(t) ==
  /\ \E k \in EventKinds[t] : Enter(t, k, NoTransfer)
  /\ UNCHANGED idVars

\* transfer_start() of a transfer the sampler keeps.
TransferStart(t) ==
  \E x \in Transfers \ used :
    /\ Enter(t, "start", x)
    /\ used' = used \cup {x}
    /\ UNCHANGED <<handed, live>>

\* transfer_start() of a transfer the sampler drops: an id and no record.
TransferStartSampledAway(t) ==
  /\ Sampling
  /\ pc[t] = "idle"
  /\ \E x \in Transfers \ used :
       /\ used' = used \cup {x}
       /\ handed' = handed \cup {x}
  /\ UNCHANGED <<pc, live, callVars, sharedVars, dropVars, flusherVars, stopVars>>

\* The ids transfer_end() does something for: one that some thread was given
\* and that _live_transfers holds.  For any other id the call returns without
\* a trace, a stuttering step.
Endable_BugUnchecked == handed
Endable == handed \cap live

Pop_BugGet(x) == live
Pop(x) == live \ {x}

TransferEnd(t) ==
  \E x \in Endable :
    /\ live' = Pop(x)
    /\ Enter(t, "end", x)
    /\ UNCHANGED <<used, handed>>

GetBuf(t) ==
  /\ pc[t] = "getbuf"
  /\ buffers' = IF t \in Range(buffers) THEN buffers ELSE Append(buffers, t)
  /\ Goto(t, "check")
  /\ UNCHANGED <<idVars, callVars, ring, pending, trigger, dropVars, flusherVars, stopVars>>

\* Only transfer_start() has something left to do once event() returns.
AfterEvent_BugForAll(t) == "golive"
AfterEvent(t) == IF rec[t].kind = "start" THEN "golive" ELSE "idle"

Full_BugOffByOne(t) == Len(ring[t]) > Capacity
Full(t) == Len(ring[t]) >= Capacity

PutRefuse_BugBlocks(t) == FALSE /\ UNCHANGED vars
PutRefuse(t) ==
  /\ pc[t] = "check"
  /\ Full(t)
  /\ droppedTotal' = droppedTotal + 1
  /\ refused' = refused \cup {rec[t]}
  /\ Goto(t, AfterEvent(t))
  /\ UNCHANGED <<idVars, callVars, sharedVars, flusherVars, stopVars>>

PutFits(t) ==
  /\ pc[t] = "check"
  /\ ~Full(t)
  /\ Goto(t, "append")
  /\ UNCHANGED <<idVars, callVars, sharedVars, dropVars, flusherVars, stopVars>>

Pushed_BugLeft(s, r) == <<r>> \o s
Pushed(s, r) == Append(s, r)

PutAppend(t) ==
  /\ pc[t] = "append"
  /\ ring' = [ring EXCEPT ![t] = Pushed(@, rec[t])]
  /\ Goto(t, "account")
  /\ UNCHANGED <<idVars, callVars, buffers, pending, trigger, dropVars, flusherVars, stopVars>>

\* Charge the record; the thread that reaches the threshold takes the sum back
\* to zero before it signals.
Account(t) ==
  LET over == pending + 1 >= FlushRecords IN
  /\ pc[t] = "account"
  /\ pending' = IF over THEN 0 ELSE pending + 1
  /\ Goto(t, IF over THEN "signal" ELSE AfterEvent(t))
  /\ UNCHANGED <<idVars, callVars, ring, buffers, trigger, dropVars, flusherVars, stopVars>>

Signal(t) ==
  /\ pc[t] = "signal"
  /\ trigger' = TRUE
  /\ Goto(t, AfterEvent(t))
  /\ UNCHANGED <<idVars, callVars, ring, buffers, pending, dropVars, flusherVars, stopVars>>

\* The end of transfer_start(): the id is remembered and returned.
GoLive(t) ==
  /\ pc[t] = "golive"
  /\ live' = live \cup {rec[t].tid}
  /\ handed' = handed \cup {rec[t].tid}
  /\ Goto(t, "idle")
  /\ UNCHANGED <<used, callVars, sharedVars, dropVars, flusherVars, stopVars>>

\* The record event() still has to put into the buffer.
InHand(t) == IF pc[t] \in {"getbuf", "check", "append"} THEN {rec[t]} ELSE {}

Call(t) == Event(t) \/ TransferStart(t) \/ TransferStartSampledAway(t) \/ TransferEnd(t)

\* The rest of a call already begun.
Continue(t) ==
  \/ GetBuf(t) \/ PutRefuse(t) \/ PutFits(t) \/ PutAppend(t)
  \/ Account(t) \/ Signal(t) \/ GoLive(t)

-----------------------------------------------------------------------------
(* The flusher thread.                                                     *)

\* What follows what in the loop: wait() for the trigger, clear it, zero the
\* byte count, and only then flush.
After_BugResetLast ==
  [wait |-> "snapshot", clear |-> "reset", reset |-> "loop", flush |-> "clear"]
After == [wait |-> "clear", clear |-> "reset", reset |-> "snapshot", flush |-> "loop"]

AfterFlush == IF final THEN "done" ELSE After.flush

FlusherOnly == UNCHANGED <<pc, idVars, callVars, dropVars, stopVars, buffers>>

\* The head of the while loop.
FlusherLoop ==
  /\ fpc = "loop"
  /\ final' = stop
  /\ fpc' = IF stop THEN "snapshot" ELSE "wait"
  /\ FlusherOnly /\ UNCHANGED <<todo, copy, lines, file, lost, ring, pending, trigger>>

\* wait(0.1) returns on the trigger or on the timeout, so at any moment.
FlusherWake_BugNoTimeout ==
  /\ fpc = "wait"
  /\ trigger
  /\ fpc' = After.wait
  /\ FlusherOnly /\ UNCHANGED <<final, todo, copy, lines, file, lost, ring, pending, trigger>>
FlusherWake ==
  /\ fpc = "wait"
  /\ fpc' = After.wait
  /\ FlusherOnly /\ UNCHANGED <<final, todo, copy, lines, file, lost, ring, pending, trigger>>

FlusherClear ==
  /\ fpc = "clear"
  /\ trigger' = FALSE
  /\ fpc' = After.clear
  /\ FlusherOnly /\ UNCHANGED <<final, todo, copy, lines, file, lost, ring, pending>>

FlusherReset ==
  /\ fpc = "reset"
  /\ pending' = 0
  /\ fpc' = After.reset
  /\ FlusherOnly /\ UNCHANGED <<final, todo, copy, lines, file, lost, ring, trigger>>

\* _flush_once() drains the buffers that are registered when it starts.
FlushSnapshot_BugFirstOnly ==
  /\ fpc = "snapshot"
  /\ todo' = IF buffers = <<>> THEN <<>> ELSE <<Head(buffers)>>
  /\ fpc' = "drain"
  /\ FlusherOnly /\ UNCHANGED <<final, copy, lines, file, lost, ring, pending, trigger>>
FlushSnapshot ==
  /\ fpc = "snapshot"
  /\ todo' = buffers
  /\ fpc' = "drain"
  /\ FlusherOnly /\ UNCHANGED <<final, copy, lines, file, lost, ring, pending, trigger>>

\* drain(), first half: list(self._buf).
DrainCopy ==
  /\ fpc = "drain"
  /\ copy = <<>>
  /\ todo # <<>>
  /\ copy' = ring[Head(todo)]
  /\ fpc' = "swap"
  /\ FlusherOnly /\ UNCHANGED <<final, todo, lines, file, lost, ring, pending, trigger>>

\* drain(), second half: a new deque takes the old one's place, and whatever
\* was appended to the old one since the copy goes with it.
Fresh_BugKeepsOld(t) == ring[t]
Fresh(t) == <<>>

DrainSwap ==
  LET t == Head(todo) IN
  /\ fpc = "swap"
  /\ ring' = [ring EXCEPT ![t] = Fresh(t)]
  /\ lost' = lost \cup (Range(ring[t]) \ Range(copy))
  /\ todo' = Tail(todo)
  /\ fpc' = "drain"
  /\ FlusherOnly /\ UNCHANGED <<final, copy, lines, file, pending, trigger>>

\* One turn of the loop over a drained buffer; a record the serialiser raises
\* on is skipped.
Serialise ==
  LET r == Head(copy) IN
  /\ fpc = "drain"
  /\ copy # <<>>
  /\ copy' = Tail(copy)
  /\ IF r.kind = "bad"
       THEN lost' = lost \cup {r} /\ lines' = lines
       ELSE lost' = lost /\ lines' = Append(lines, r)
  /\ FlusherOnly /\ UNCHANGED <<fpc, final, todo, file, ring, pending, trigger>>

DrainEnd ==
  /\ fpc = "drain"
  /\ copy = <<>>
  /\ todo = <<>>
  /\ fpc' = IF lines = <<>> THEN AfterFlush ELSE "write"
  /\ FlusherOnly /\ UNCHANGED <<final, todo, copy, lines, file, lost, ring, pending, trigger>>

FlushWrite ==
  /\ fpc = "write"
  /\ file' = file \o lines
  /\ lines' = <<>>
  /\ fpc' = AfterFlush
  /\ FlusherOnly /\ UNCHANGED <<final, todo, copy, lost, ring, pending, trigger>>

\* write_batch() raises, in write() or in the rotation that follows it, when
\* some of the batch is in the file: nothing catches it, and the flusher thread
\* ends.  (A record cut in two by the failure counts as not written.)
FlushWriteFails_BugRetried ==
  /\ WriteMayFail
  /\ fpc = "write"
  /\ \E k \in 0 .. Len(lines) : file' = file \o SubSeq(lines, 1, k)
  /\ fpc' = AfterFlush
  /\ FlusherOnly /\ UNCHANGED <<final, todo, copy, lines, lost, ring, pending, trigger>>
FlushWriteFails ==
  /\ WriteMayFail
  /\ fpc = "write"
  /\ \E k \in 0 .. Len(lines) :
       /\ file' = file \o SubSeq(lines, 1, k)
       /\ lost' = lost \cup {lines[i] : i \in k + 1 .. Len(lines)}
  /\ lines' = <<>>
  /\ fpc' = "dead"
  /\ FlusherOnly /\ UNCHANGED <<final, todo, copy, ring, pending, trigger>>

Flusher ==
  \/ FlusherLoop \/ FlusherWake \/ FlusherClear \/ FlusherReset \/ FlushSnapshot
  \/ DrainCopy \/ DrainSwap \/ Serialise \/ DrainEnd \/ FlushWrite \/ FlushWriteFails

-----------------------------------------------------------------------------
\* shutdown() sets the stop event and waits for the flusher, five seconds at
\* most.  It does not raise the trigger and it does not stop the probes.
Shutdown ==
  /\ ~stop
  /\ stop' = TRUE
  /\ before' = issued \ UNION {InHand(t) : t \in Threads}
  /\ UNCHANGED <<pc, idVars, callVars, sharedVars, dropVars, flusherVars>>

Next == (\E t \in Threads : Call(t) \/ Continue(t)) \/ Flusher \/ Shutdown

Spec == Init /\ [][Next]_vars

\* A probe call runs on a thread the scheduler keeps running.  Nothing is
\* assumed of the flusher, whose write may stall for ever.
ProbeSpec == Spec /\ \A t \in Threads : WF_vars(Continue(t))

\* The flusher thread keeps running too and its wait() times out.
FlusherRuns == WF_vars(Flusher)

-----------------------------------------------------------------------------
TypeOK ==
  /\ pc \in [Threads -> {"idle", "getbuf", "check", "append", "account", "signal", "golive"}]
  /\ rec \in [Threads -> Record \cup {NoRecord}]
  /\ seqno \in [Threads -> Nat]
  /\ ring \in [Threads -> Seq(Record)]
  /\ buffers \in Seq(Threads)
  /\ pending \in Nat /\ droppedTotal \in Nat
  /\ trigger \in BOOLEAN /\ stop \in BOOLEAN /\ final \in BOOLEAN
  /\ used \subseteq Transfers /\ handed \subseteq Transfers /\ live \subseteq Transfers
  /\ fpc \in {"loop", "wait", "clear", "reset", "snapshot", "drain", "swap", "write",
              "done", "dead"}
  /\ todo \in Seq(Threads)
  /\ copy \in Seq(Record) /\ lines \in Seq(Record) /\ file \in Seq(Record)
  /\ issued \subseteq Record /\ refused \subseteq Record
  /\ lost \subseteq Record /\ before \subseteq Record

\* A ring buffer never holds more than its capacity, although put() checks the
\* length and appends in two steps and the flusher swaps the deque meanwhile.
RingBounded == \A t \in Threads : Len(ring[t]) <= Capacity

Ordered(s) ==
  \A i, j \in 1 .. Len(s) : i < j /\ s[i].thr = s[j].thr => s[i].n < s[j].n

\* The records of a thread reach the file in the order in which it issued
\* them, and none twice, however put() and drain() interleave.
FileOrder == Ordered(file)

Buffered == UNION {Range(ring[t]) : t \in Threads}

\* What the flusher took out of a ring buffer and has not written.
InFlusher == Range(lines) \cup (IF fpc = "swap" THEN {} ELSE Range(copy))

\* Every record issued is in exactly one place: with the thread that issues
\* it, in a ring buffer, with the flusher, in the file, among those put()
\* turned away, which dropped_records_total counts, or among those lost.  And
\* none that was put before the stop event was set is still in a buffer when
\* the flusher thread has ended by itself (shutdown() "flushes pending records").
RecordConservation ==
  LET inHand == UNION {InHand(t) : t \in Threads} IN
  /\ issued = inHand \cup Buffered \cup InFlusher \cup Range(file) \cup refused \cup lost
  /\ Cardinality(issued) =
       Cardinality(inHand) + Cardinality(Buffered) + Cardinality(InFlusher)
         + Cardinality(Range(file)) + Cardinality(refused) + Cardinality(lost)
  /\ droppedTotal = Cardinality(refused)
  /\ fpc = "done" => before \subseteq Range(file) \cup refused \cup lost

\* However many threads end a transfer at once, at most one end or cancel
\* record is issued for it: _live_transfers gives an id away once.
AtMostOneEnd ==
  \A r, q \in issued : r.kind = "end" /\ q.kind = "end" /\ r.tid = q.tid => r = q

\* An end is issued only for a transfer whose start was issued: ends of
\* transfers that were sampled away are dropped with their starts.
NoEndForSampledTransfer ==
  \A r \in issued : r.kind = "end" => \E q \in issued : q.kind = "start" /\ q.tid = r.tid

\* Early flush: while the flusher sleeps and nobody has signalled or is about
\* to, the records in the buffers that were charged are fewer than the
\* threshold.  No order of "count = 0", set() and clear() loses a wake-up.
SizeTrigger ==
  LET uncharged == UNION {IF pc[t] = "account" THEN {rec[t]} ELSE {} : t \in Threads} IN
  fpc = "wait" /\ ~trigger /\ (\A t \in Threads : pc[t] # "signal") =>
    Cardinality(Buffered \ uncharged) < FlushRecords

\* The emitter keeps the promises of TraceLog.
Log == INSTANCE TraceLog WITH
  Records  <- Record,
  inflight <- issued \ (Range(file) \cup refused \cup lost),
  log      <- file,
  dropped  <- refused,
  count    <- droppedTotal,
  vanished <- lost

KeepsLogPromise == Log!Spec

\* A probe call returns even if the flusher never runs again: a probe never
\* waits for room in its buffer, for the flusher or for the file.
ProbeReturns == \A t \in Threads : pc[t] # "idle" ~> pc[t] = "idle"

\* Every buffer that holds records is emptied again, size trigger or not,
\* until the flusher ends; provided the flusher runs.
BuffersDrain == FlusherRuns => \A t \in Threads : ring[t] # <<>> ~> (ring[t] = <<>> \/ fpc = "done")

\* Once the stop event is set the flusher ends: it need not be woken, its
\* wait() times out.
FlusherTerminates == FlusherRuns => (stop ~> fpc = "done")

\* tests/unit/test_emitter.py:355-362: when every event() call has returned
\* before shutdown(), the file holds all the records that fitted into their
\* ring buffers once the flusher has ended.
ShutdownKeepsAll == fpc = "done" => before \subseteq Range(file) \cup refused

\* The comment at emitter.py:201-205: transfer_end() only emits for an id that
\* "had [its] start record actually emitted".
EndHasStart ==
  \A r, s \in issued : r.kind = "end" /\ s.kind = "start" /\ r.tid = s.tid => s \notin refused
=============================================================================
