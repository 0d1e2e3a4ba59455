--------------------------- MODULE EmitterProofs ---------------------------
(***************************************************************************)
(* Proofs about the emitter for every number of threads, buffer capacity,  *)
(* flush threshold and bound on the records.                               *)
(***************************************************************************)
EXTENDS Emitter, SequenceTheorems, FiniteSetTheorems, TLAPS

USE DEF NoRecord

-----------------------------------------------------------------------------
(* Types. A thread that is in a probe call holds a record, and only the     *)
(* start of a transfer has an id to remember; a flusher in the middle of   *)
(* drain() has a buffer to replace.                                        *)

Holding == \A t \in Threads :
  /\ pc[t] # "idle" => rec[t] \in Record
  /\ pc[t] # "idle" /\ rec[t].kind = "start" => rec[t].tid \in Transfers
  /\ pc[t] = "golive" => rec[t].kind = "start"

SwapHasBuffer == fpc = "swap" => todo # <<>>

Typed == TypeOK /\ Holding /\ SwapHasBuffer

LEMMA TypedInit == Init => Typed
  <1> SUFFICES ASSUME Init PROVE Typed
    OBVIOUS
  <1> USE DEF Init
  <1>1. /\ ring \in [Threads -> Seq(Record)]
        /\ buffers \in Seq(Threads) /\ todo \in Seq(Threads)
        /\ copy \in Seq(Record) /\ lines \in Seq(Record) /\ file \in Seq(Record)
    OBVIOUS
  <1>2. TypeOK
    BY <1>1 DEF TypeOK
  <1> QED
    BY <1>2 DEF Typed, Holding, SwapHasBuffer

LEMMA EnterTyped ==
  ASSUME Typed, NEW t \in Threads, NEW k \in Kinds, NEW x \in Transfers \cup {NoTransfer},
         k = "start" => x \in Transfers, Enter(t, k, x)
  PROVE  /\ pc' \in [Threads -> {"idle", "getbuf", "check", "append", "account",
                                 "signal", "golive"}]
         /\ rec' \in [Threads -> Record \cup {NoRecord}]
         /\ seqno' \in [Threads -> Nat]
         /\ issued' \subseteq Record
         /\ Holding'
  <1> DEFINE r == [thr |-> t, n |-> seqno[t] + 1, kind |-> k, tid |-> x]
  <1>1. r \in Record
    BY DEF Typed, TypeOK, Record
  <1> QED
    BY <1>1 DEF Typed, TypeOK, Holding, Enter, Goto

LEMMA TypedNext == Typed /\ [Next]_vars => Typed'
<1> SUFFICES ASSUME Typed, [Next]_vars PROVE Typed'
  OBVIOUS
<1> USE DEF Typed, TypeOK, Holding, SwapHasBuffer, Goto, FlusherOnly,
            idVars, callVars, sharedVars, dropVars, flusherVars, stopVars
<1>1. ASSUME NEW t \in Threads, Event(t) PROVE Typed'
  <2>1. PICK k \in EventKinds[t] : Enter(t, k, NoTransfer)
    BY <1>1 DEF Event
  <2>2. k \in {"event", "bad"}
    BY ConstantsAssumption
  <2> QED
    BY <1>1, <2>1, <2>2, EnterTyped DEF Event, Enter, Kinds
<1>2. ASSUME NEW t \in Threads, TransferStart(t) PROVE Typed'
  <2>1. PICK x \in Transfers \ used : Enter(t, "start", x) /\ used' = used \cup {x}
                                      /\ UNCHANGED <<handed, live>>
    BY <1>2 DEF TransferStart
  <2> QED
    BY <2>1, EnterTyped DEF Enter, Kinds
<1>3. ASSUME NEW t \in Threads, TransferStartSampledAway(t) PROVE Typed'
  BY <1>3 DEF TransferStartSampledAway
<1>4. ASSUME NEW t \in Threads, TransferEnd(t) PROVE Typed'
  <2>1. PICK x \in handed \cap live : Enter(t, "end", x) /\ live' = live \ {x}
                                      /\ UNCHANGED <<used, handed>>
    BY <1>4 DEF TransferEnd, Endable, Pop
  <2> QED
    BY <2>1, EnterTyped DEF Enter, Kinds
<1>5. ASSUME NEW t \in Threads, GetBuf(t) PROVE Typed'
  BY <1>5 DEF GetBuf
<1>6. ASSUME NEW t \in Threads, PutRefuse(t) PROVE Typed'
  BY <1>6 DEF PutRefuse, AfterEvent
<1>7. ASSUME NEW t \in Threads, PutFits(t) PROVE Typed'
  BY <1>7 DEF PutFits
<1>8. ASSUME NEW t \in Threads, PutAppend(t) PROVE Typed'
  BY <1>8 DEF PutAppend, Pushed
<1>9. ASSUME NEW t \in Threads, Account(t) PROVE Typed'
  <2>1. pending' \in Nat
    BY <1>9, ConstantsAssumption DEF Account
  <2>2. \E l \in {"signal", "golive", "idle"} :
          pc' = [pc EXCEPT ![t] = l] /\ (l = "golive" => rec[t].kind = "start")
    BY <1>9 DEF Account, AfterEvent
  <2>3. pc[t] # "idle" /\ UNCHANGED <<idVars, callVars, ring, buffers, trigger, dropVars,
                                     flusherVars, stopVars>>
    BY <1>9 DEF Account
  <2> QED
    BY <2>1, <2>2, <2>3
<1>10. ASSUME NEW t \in Threads, Signal(t) PROVE Typed'
  BY <1>10 DEF Signal, AfterEvent
<1>11. ASSUME NEW t \in Threads, GoLive(t) PROVE Typed'
  BY <1>11 DEF GoLive
<1>12. CASE Flusher
  <2>1. CASE FlusherLoop
    BY <2>1 DEF FlusherLoop
  <2>2. CASE FlusherWake
    BY <2>2 DEF FlusherWake, After
  <2>3. CASE FlusherClear
    BY <2>3 DEF FlusherClear, After
  <2>4. CASE FlusherReset
    BY <2>4 DEF FlusherReset, After
  <2>5. CASE FlushSnapshot
    BY <2>5 DEF FlushSnapshot
  <2>6. CASE DrainCopy
    <3>1. Head(todo) \in Threads
      BY <2>6 DEF DrainCopy
    <3> QED
      BY <2>6, <3>1 DEF DrainCopy
  <2>7. CASE DrainSwap
    <3>1. Head(todo) \in Threads /\ Tail(todo) \in Seq(Threads)
      BY <2>7 DEF DrainSwap
    <3>2. Range(ring[Head(todo)]) \subseteq Record
      BY <3>1 DEF Range
    <3> QED
      BY <2>7, <3>1, <3>2 DEF DrainSwap, Fresh
  <2>8. CASE Serialise
    <3>1. Head(copy) \in Record /\ Tail(copy) \in Seq(Record)
      BY <2>8, HeadTailProperties DEF Serialise
    <3>2. Append(lines, Head(copy)) \in Seq(Record)
      BY <3>1
    <3>3. lines' \in {lines, Append(lines, Head(copy))} /\ lost' \in {lost, lost \cup {Head(copy)}}
      BY <2>8 DEF Serialise
    <3>4. lines' \in Seq(Record) /\ lost' \subseteq Record
      BY <3>1, <3>2, <3>3
    <3> QED
      BY <2>8, <3>1, <3>4 DEF Serialise
  <2>9. CASE DrainEnd
    BY <2>9 DEF DrainEnd, AfterFlush, After
  <2>10. CASE FlushWrite
    BY <2>10 DEF FlushWrite, AfterFlush, After
  <2>11. CASE FlushWriteFails
    <3>1. PICK k \in 0 .. Len(lines) :
            /\ file' = file \o SubSeq(lines, 1, k)
            /\ lost' = lost \cup {lines[i] : i \in k + 1 .. Len(lines)}
      BY <2>11 DEF FlushWriteFails
    <3>2. SubSeq(lines, 1, k) \in Seq(Record) /\ \A i \in k + 1 .. Len(lines) : lines[i] \in Record
      OBVIOUS
    <3>3. file' \in Seq(Record) /\ lost' \subseteq Record
      BY <3>1, <3>2
    <3> QED
      BY <2>11, <3>3 DEF FlushWriteFails
  <2> QED
    BY <1>12, <2>1, <2>2, <2>3, <2>4, <2>5, <2>6, <2>7, <2>8, <2>9, <2>10, <2>11 DEF Flusher
<1>13. CASE Shutdown
  BY <1>13 DEF Shutdown
<1>14. CASE UNCHANGED vars
  BY <1>14 DEF vars
<1> QED
  BY <1>1, <1>2, <1>3, <1>4, <1>5, <1>6, <1>7, <1>8, <1>9, <1>10, <1>11, <1>12, <1>13, <1>14
     DEF Next, Call, Continue

\* Every variable keeps its type, whatever the interleaving of probe calls,
\* flusher and shutdown.
THEOREM TypeCorrect == Spec => []TypeOK
<1>1. Spec => []Typed
  BY TypedInit, TypedNext, PTL DEF Spec
<1> QED
  BY <1>1, PTL DEF Typed

-----------------------------------------------------------------------------
(* The capacity of a ring buffer.  A thread that has seen room in its       *)
(* buffer still finds it when it appends: nobody else appends to it, and    *)
(* the flusher only empties it.                                             *)

RoomSeen == \A t \in Threads :
  /\ Len(ring[t]) <= Capacity
  /\ pc[t] = "append" => Len(ring[t]) < Capacity

LEMMA RoomSeenNext == Typed /\ RoomSeen /\ [Next]_vars => RoomSeen'
<1> SUFFICES ASSUME Typed, RoomSeen, [Next]_vars PROVE RoomSeen'
  OBVIOUS
<1> USE ConstantsAssumption DEF Typed, TypeOK, RoomSeen, Goto
<1>1. ASSUME NEW t \in Threads, Call(t) PROVE RoomSeen'
  BY <1>1 DEF Call, Event, TransferStart, TransferStartSampledAway, TransferEnd, Enter, sharedVars
<1>2. ASSUME NEW t \in Threads, PutFits(t) PROVE RoomSeen'
  BY <1>2 DEF PutFits, Full, sharedVars
<1>3. ASSUME NEW t \in Threads, PutAppend(t) PROVE RoomSeen'
  <2>1. rec[t] \in Record /\ ring[t] \in Seq(Record)
    BY <1>3 DEF PutAppend, Holding
  <2>2. Len(Append(ring[t], rec[t])) = Len(ring[t]) + 1
    BY <2>1
  <2> QED
    BY <1>3, <2>1, <2>2 DEF PutAppend, Pushed
<1>4. ASSUME NEW t \in Threads,
             GetBuf(t) \/ PutRefuse(t) \/ Account(t) \/ Signal(t) \/ GoLive(t)
      PROVE  RoomSeen'
  BY <1>4 DEF GetBuf, PutRefuse, Account, Signal, GoLive, AfterEvent, sharedVars
<1>5. CASE DrainSwap
  <2>1. Head(todo) \in Threads
    BY <1>5 DEF DrainSwap, SwapHasBuffer
  <2>2. \A t \in Threads : ring'[t] = ring[t] \/ ring'[t] = <<>>
    BY <1>5, <2>1 DEF DrainSwap, Fresh
  <2>3. pc' = pc
    BY <1>5 DEF DrainSwap, FlusherOnly
  <2> QED
    BY <2>2, <2>3
<1>6. CASE Flusher /\ ~DrainSwap
  BY <1>6 DEF Flusher, FlusherLoop, FlusherWake, FlusherClear, FlusherReset, FlushSnapshot,
              DrainCopy, Serialise, DrainEnd, FlushWrite, FlushWriteFails, FlusherOnly
<1>7. CASE Shutdown \/ UNCHANGED vars
  BY <1>7 DEF Shutdown, vars, sharedVars
<1> QED
  BY <1>1, <1>2, <1>3, <1>4, <1>5, <1>6, <1>7 DEF Next, Continue

\* No ring buffer ever holds more than _RING_CAPACITY records, although put()
\* reads the length and appends in separate steps.
THEOREM RingsAreBounded == Spec => []RingBounded
<1>1. Init => RoomSeen
  BY ConstantsAssumption DEF Init, RoomSeen
<1>2. RoomSeen => RingBounded
  BY DEF RoomSeen, RingBounded
<1> QED
  BY <1>1, <1>2, TypedInit, TypedNext, RoomSeenNext, PTL DEF Spec

-----------------------------------------------------------------------------
(* Transfers and their ends.  _live_transfers holds ids of transfers whose  *)
(* start was issued and whose end was not; an id that is still on its way   *)
(* into it has not been given to anyone, so nobody can end it early.        *)

Starting(t) == pc[t] # "idle" /\ rec[t].kind = "start"

OneStarter ==
  /\ \A t \in Threads : Starting(t) => rec[t] \in issued /\ rec[t].tid \in used \ handed
  /\ \A t, u \in Threads : Starting(t) /\ Starting(u) /\ rec[t].tid = rec[u].tid => t = u

LiveStarted == \A x \in live : \E q \in issued : q.kind = "start" /\ q.tid = x

EndedNotLive == \A r \in issued : r.kind = "end" => r.tid \in handed \ live

Paired ==
  /\ live \subseteq handed
  /\ handed \subseteq used
  /\ OneStarter /\ LiveStarted /\ EndedNotLive
  /\ AtMostOneEnd /\ NoEndForSampledTransfer

LEMMA PairedInit == Init => Paired
  BY DEF Init, Paired, OneStarter, Starting, LiveStarted, EndedNotLive, AtMostOneEnd,
         NoEndForSampledTransfer

LEMMA PairedNext == Typed /\ Paired /\ [Next]_vars => Paired'
<1> SUFFICES ASSUME Typed, Paired, [Next]_vars PROVE Paired'
  OBVIOUS
<1> USE DEF Typed, TypeOK, Holding, Goto, Paired, OneStarter, Starting, LiveStarted,
            EndedNotLive, AtMostOneEnd, NoEndForSampledTransfer
<1>1. ASSUME NEW t \in Threads, Event(t) PROVE Paired'
  <2>1. PICK k \in EventKinds[t] : Enter(t, k, NoTransfer)
    BY <1>1 DEF Event
  <2>2. k \in {"event", "bad"}
    BY ConstantsAssumption
  <2> QED
    BY <1>1, <2>1, <2>2 DEF Event, Enter, idVars
<1>2. ASSUME NEW t \in Threads, TransferStart(t) PROVE Paired'
  <2>1. PICK x \in Transfers \ used :
          Enter(t, "start", x) /\ used' = used \cup {x} /\ UNCHANGED <<handed, live>>
    BY <1>2 DEF TransferStart
  <2> QED
    BY <2>1 DEF Enter
<1>3. ASSUME NEW t \in Threads, TransferStartSampledAway(t) PROVE Paired'
  BY <1>3 DEF TransferStartSampledAway, callVars
<1>4. ASSUME NEW t \in Threads, TransferEnd(t) PROVE Paired'
  <2>1. PICK x \in handed \cap live :
          Enter(t, "end", x) /\ live' = live \ {x} /\ UNCHANGED <<used, handed>>
    BY <1>4 DEF TransferEnd, Endable, Pop
  <2> DEFINE e == [thr |-> t, n |-> seqno[t] + 1, kind |-> "end", tid |-> x]
  <2>2. /\ issued' = issued \cup {e}
        /\ rec' = [rec EXCEPT ![t] = e]
        /\ pc' = [pc EXCEPT ![t] = "getbuf"]
    BY <2>1 DEF Enter
  <2>3. e.kind = "end" /\ e.tid = x
    OBVIOUS
  <2> HIDE DEF e
  <2>4. OneStarter'
    BY <2>1, <2>2, <2>3
  <2>5. LiveStarted'
    BY <2>1, <2>2
  <2>6. EndedNotLive'
    BY <2>1, <2>2, <2>3
  <2>7. AtMostOneEnd'
    BY <2>1, <2>2, <2>3
  <2>8. NoEndForSampledTransfer'
    BY <2>1, <2>2, <2>3
  <2> QED
    BY <2>1, <2>4, <2>5, <2>6, <2>7, <2>8
<1>5. ASSUME NEW t \in Threads,
             GetBuf(t) \/ PutRefuse(t) \/ PutFits(t) \/ PutAppend(t) \/ Account(t) \/ Signal(t)
      PROVE  Paired'
  <2>1. UNCHANGED <<rec, issued, used, handed, live>>
    BY <1>5 DEF GetBuf, PutRefuse, PutFits, PutAppend, Account, Signal, idVars, callVars
  <2>2. pc[t] # "idle" /\ \A u \in Threads : u # t => pc'[u] = pc[u]
    BY <1>5 DEF GetBuf, PutRefuse, PutFits, PutAppend, Account, Signal, AfterEvent
  <2>3. \A u \in Threads : Starting(u)' => Starting(u)
    BY <2>1, <2>2
  <2> QED
    BY <2>1, <2>3
<1>6. ASSUME NEW t \in Threads, GoLive(t) PROVE Paired'
  BY <1>6 DEF GoLive, callVars
<1>7. CASE Flusher \/ Shutdown \/ UNCHANGED vars
  <2>1. UNCHANGED <<pc, rec, issued, used, handed, live>>
    BY <1>7 DEF Flusher, FlusherLoop, FlusherWake, FlusherClear, FlusherReset, FlushSnapshot,
                DrainCopy, DrainSwap, Serialise, DrainEnd, FlushWrite, FlushWriteFails,
                FlusherOnly, Shutdown, vars, idVars, callVars
  <2> QED
    BY <2>1
<1> QED
  BY <1>1, <1>2, <1>3, <1>4, <1>5, <1>6, <1>7 DEF Next, Call, Continue

\* However many threads end a transfer, and whenever, one end record at most
\* is issued for it.
THEOREM EndsAreUnique == Spec => []AtMostOneEnd
<1>1. Paired => AtMostOneEnd
  BY DEF Paired
<1> QED
  BY <1>1, TypedInit, TypedNext, PairedInit, PairedNext, PTL DEF Spec

\* No end record is issued for a transfer that was sampled away.
THEOREM EndsHaveStarts == Spec => []NoEndForSampledTransfer
<1>1. Paired => NoEndForSampledTransfer
  BY DEF Paired
<1> QED
  BY <1>1, TypedInit, TypedNext, PairedInit, PairedNext, PTL DEF Spec

-----------------------------------------------------------------------------
(* The order of records.  A thread numbers its records as it issues them.   *)
(* On the way to the file they pass its buffer, the copy drain() takes and  *)
(* the serialised lines; for each thread, what is further on the way is     *)
(* older, and what is in its hand is the newest.                            *)

Below(s, u) ==
  \A i \in 1 .. Len(s), j \in 1 .. Len(u) : s[i].thr = u[j].thr => s[i].n < u[j].n

LEMMA AppendKeepsOrder ==
  ASSUME NEW s \in Seq(Record), NEW u \in Seq(Record), NEW r \in Record,
         Below(s, <<r>>)
  PROVE  /\ Ordered(s) => Ordered(Append(s, r))
         /\ Below(s, u) => Below(s, Append(u, r))
<1>1. /\ Append(s, r) \in Seq(Record) /\ Len(Append(s, r)) = Len(s) + 1
      /\ \A i \in 1 .. Len(s) : Append(s, r)[i] = s[i]
      /\ Append(s, r)[Len(s) + 1] = r
  OBVIOUS
<1>2. /\ Append(u, r) \in Seq(Record) /\ Len(Append(u, r)) = Len(u) + 1
      /\ \A i \in 1 .. Len(u) : Append(u, r)[i] = u[i]
      /\ Append(u, r)[Len(u) + 1] = r
  OBVIOUS
<1>3. \A i \in 1 .. Len(s) : s[i].thr = r.thr => s[i].n < r.n
  BY DEF Below
<1>4. ASSUME Ordered(s) PROVE Ordered(Append(s, r))
  <2> SUFFICES ASSUME NEW i \in 1 .. Len(s) + 1, NEW j \in 1 .. Len(s) + 1, i < j,
                      Append(s, r)[i].thr = Append(s, r)[j].thr
               PROVE  Append(s, r)[i].n < Append(s, r)[j].n
    BY <1>1 DEF Ordered
  <2>1. i \in 1 .. Len(s)
    OBVIOUS
  <2>2. CASE j \in 1 .. Len(s)
    BY <1>1, <1>4, <2>1, <2>2 DEF Ordered
  <2>3. CASE j = Len(s) + 1
    BY <1>1, <1>3, <2>1, <2>3
  <2> QED
    BY <2>2, <2>3
<1>5. ASSUME Below(s, u) PROVE Below(s, Append(u, r))
  BY <1>2, <1>3, <1>5 DEF Below
<1> QED
  BY <1>4, <1>5

LEMMA BelowAppendLeft ==
  ASSUME NEW s \in Seq(Record), NEW u \in Seq(Record), NEW r \in Record,
         Below(s, u), Below(<<r>>, u)
  PROVE  Below(Append(s, r), u)
  BY DEF Below

LEMMA ConcatKeepsOrder ==
  ASSUME NEW s \in Seq(Record), NEW v \in Seq(Record), NEW u \in Seq(Record),
         Below(s, v)
  PROVE  /\ Ordered(s) /\ Ordered(v) => Ordered(s \o v)
         /\ Below(s, u) /\ Below(v, u) => Below(s \o v, u)
<1>1. /\ s \o v \in Seq(Record) /\ Len(s \o v) = Len(s) + Len(v)
      /\ \A i \in 1 .. Len(s) : (s \o v)[i] = s[i]
      /\ \A i \in Len(s) + 1 .. Len(s) + Len(v) :
           (s \o v)[i] = v[i - Len(s)] /\ i - Len(s) \in 1 .. Len(v)
  OBVIOUS
<1>2. ASSUME Ordered(s), Ordered(v) PROVE Ordered(s \o v)
  <2> SUFFICES ASSUME NEW i \in 1 .. Len(s) + Len(v), NEW j \in 1 .. Len(s) + Len(v), i < j,
                      (s \o v)[i].thr = (s \o v)[j].thr
               PROVE  (s \o v)[i].n < (s \o v)[j].n
    BY <1>1 DEF Ordered
  <2>1. CASE j \in 1 .. Len(s)
    BY <1>1, <1>2, <2>1 DEF Ordered
  <2>2. CASE i \in Len(s) + 1 .. Len(s) + Len(v)
    BY <1>1, <1>2, <2>2 DEF Ordered
  <2>3. CASE i \in 1 .. Len(s) /\ j \in Len(s) + 1 .. Len(s) + Len(v)
    BY <1>1, <2>3 DEF Below
  <2> QED
    BY <2>1, <2>2, <2>3
<1>3. ASSUME Below(s, u), Below(v, u) PROVE Below(s \o v, u)
  <2> SUFFICES ASSUME NEW i \in 1 .. Len(s) + Len(v), NEW j \in 1 .. Len(u),
                      (s \o v)[i].thr = u[j].thr
               PROVE  (s \o v)[i].n < u[j].n
    BY <1>1 DEF Below
  <2>1. CASE i \in 1 .. Len(s)
    BY <1>1, <1>3, <2>1 DEF Below
  <2>2. CASE i \in Len(s) + 1 .. Len(s) + Len(v)
    BY <1>1, <1>3, <2>2 DEF Below
  <2> QED
    BY <2>1, <2>2
<1> QED
  BY <1>2, <1>3

LEMMA FrontKeepsOrder ==
  ASSUME NEW s \in Seq(Record), NEW u \in Seq(Record), NEW k \in 0 .. Len(s)
  PROVE  /\ SubSeq(s, 1, k) \in Seq(Record) /\ Len(SubSeq(s, 1, k)) = k
         /\ \A i \in 1 .. k : SubSeq(s, 1, k)[i] = s[i]
         /\ Ordered(s) => Ordered(SubSeq(s, 1, k))
         /\ Below(s, u) => Below(SubSeq(s, 1, k), u)
         /\ Below(u, s) => Below(u, SubSeq(s, 1, k))
<1>1. /\ SubSeq(s, 1, k) \in Seq(Record) /\ Len(SubSeq(s, 1, k)) = k
      /\ \A i \in 1 .. k : SubSeq(s, 1, k)[i] = s[i]
  OBVIOUS
<1>2. Len(s) \in Nat
  OBVIOUS
<1>3. Ordered(s) => Ordered(SubSeq(s, 1, k))
  BY <1>1, <1>2 DEF Ordered
<1>4. Below(s, u) => Below(SubSeq(s, 1, k), u)
  BY <1>1, <1>2 DEF Below
<1>5. Below(u, s) => Below(u, SubSeq(s, 1, k))
  BY <1>1, <1>2 DEF Below
<1> QED
  BY <1>1, <1>3, <1>4, <1>5

LEMMA TailKeepsOrder ==
  ASSUME NEW s \in Seq(Record), NEW u \in Seq(Record), s # <<>>
  PROVE  /\ Ordered(s) => Ordered(Tail(s)) /\ Below(<<Head(s)>>, Tail(s))
         /\ Below(s, u) => Below(Tail(s), u) /\ Below(<<Head(s)>>, u)
         /\ Below(u, s) => Below(u, Tail(s)) /\ Below(u, <<Head(s)>>)
<1>1. /\ Len(Tail(s)) = Len(s) - 1 /\ Len(s) \in Nat \ {0}
      /\ \A i \in 1 .. Len(s) - 1 : Tail(s)[i] = s[i + 1]
      /\ Head(s) = s[1]
  BY HeadTailProperties
<1>2. Len(<<Head(s)>>) = 1 /\ <<Head(s)>>[1] = s[1]
  BY <1>1
<1>3. ASSUME Ordered(s) PROVE Ordered(Tail(s)) /\ Below(<<Head(s)>>, Tail(s))
  <2>1. Ordered(Tail(s))
    BY <1>1, <1>3 DEF Ordered
  <2>2. Below(<<Head(s)>>, Tail(s))
    BY <1>1, <1>2, <1>3 DEF Ordered, Below
  <2> QED
    BY <2>1, <2>2
<1>4. ASSUME Below(s, u) PROVE Below(Tail(s), u) /\ Below(<<Head(s)>>, u)
  BY <1>1, <1>2, <1>4 DEF Below
<1>5. ASSUME Below(u, s) PROVE Below(u, Tail(s)) /\ Below(u, <<Head(s)>>)
  BY <1>1, <1>2, <1>5 DEF Below
<1> QED
  BY <1>3, <1>4, <1>5

AtHand == {"getbuf", "check", "append"}

\* Nothing in s is newer than the last record of its thread (numbered by sq),
\* nor as new as the one its thread, at p, still has in hand.
Older(s, sq, p) == \A i \in 1 .. Len(s) :
  /\ s[i].n <= sq[s[i].thr]
  /\ p[s[i].thr] \in AtHand => s[i].n < sq[s[i].thr]

Newest == \A t \in Threads : pc[t] # "idle" => rec[t].thr = t /\ rec[t].n = seqno[t]

RingsOwn == \A t \in Threads : \A i \in 1 .. Len(ring[t]) : ring[t][i].thr = t

RingsSorted == \A t \in Threads :
  /\ Ordered(ring[t]) /\ Older(ring[t], seqno, pc)
  /\ Below(file, ring[t]) /\ Below(lines, ring[t])
  /\ fpc # "swap" => Below(copy, ring[t])

FlusherSorted ==
  /\ Ordered(file) /\ Ordered(lines) /\ Ordered(copy)
  /\ Older(file, seqno, pc) /\ Older(lines, seqno, pc) /\ Older(copy, seqno, pc)
  /\ Below(file, lines) /\ Below(file, copy) /\ Below(lines, copy)

\* Between its two halves, what drain() copied is still the front of the
\* buffer.
CopyIsFront == fpc = "swap" =>
  /\ Len(copy) <= Len(ring[Head(todo)])
  /\ \A i \in 1 .. Len(copy) : copy[i] = ring[Head(todo)][i]

Sorted == Newest /\ RingsOwn /\ RingsSorted /\ FlusherSorted /\ CopyIsFront

LEMMA SortedInit == Init => Sorted
  BY DEF Init, Sorted, Newest, RingsOwn, RingsSorted, FlusherSorted, CopyIsFront, Older,
         Ordered, Below

\* A record stays older when its thread moves on.
LEMMA OlderLater ==
  ASSUME NEW sq \in [Threads -> Nat], NEW sq2 \in [Threads -> Nat], NEW p, NEW p2,
         \A t \in Threads : \/ sq2[t] = sq[t] /\ (p2[t] \in AtHand => p[t] \in AtHand)
                            \/ sq2[t] > sq[t]
  PROVE  \A s \in Seq(Record) : Older(s, sq, p) => Older(s, sq2, p2)
<1> SUFFICES ASSUME NEW s \in Seq(Record), Older(s, sq, p), NEW i \in 1 .. Len(s)
             PROVE  /\ s[i].n <= sq2[s[i].thr]
                    /\ p2[s[i].thr] \in AtHand => s[i].n < sq2[s[i].thr]
  BY DEF Older
<1>1. s[i] \in Record
  OBVIOUS
<1>2. s[i].thr \in Threads /\ s[i].n \in Nat
  BY <1>1 DEF Record
<1>3. /\ s[i].n <= sq[s[i].thr]
      /\ p[s[i].thr] \in AtHand => s[i].n < sq[s[i].thr]
  BY DEF Older
<1>4. sq[s[i].thr] \in Nat /\ sq2[s[i].thr] \in Nat
  BY <1>2
<1>5. CASE sq2[s[i].thr] > sq[s[i].thr]
  BY <1>2, <1>3, <1>4, <1>5
<1>6. CASE sq2[s[i].thr] = sq[s[i].thr] /\ (p2[s[i].thr] \in AtHand => p[s[i].thr] \in AtHand)
  BY <1>3, <1>6
<1> QED
  BY <1>2, <1>5, <1>6

\* What moves neither the records nor the flusher keeps the order.
LEMMA StillSorted ==
  ASSUME Typed, Typed', Sorted, Newest', UNCHANGED <<ring, file, lines, copy, fpc, todo>>,
         \A t \in Threads : \/ seqno'[t] = seqno[t] /\ (pc'[t] \in AtHand => pc[t] \in AtHand)
                            \/ seqno'[t] > seqno[t]
  PROVE  Sorted'
<1>1. \A s \in Seq(Record) : Older(s, seqno, pc) => Older(s, seqno', pc')
  BY OlderLater DEF Typed, TypeOK
<1>2. RingsOwn' /\ CopyIsFront'
  BY DEF Sorted, RingsOwn, CopyIsFront
<1>3. RingsSorted'
  BY <1>1 DEF Sorted, RingsSorted, Typed, TypeOK
<1>4. FlusherSorted'
  BY <1>1 DEF Sorted, FlusherSorted, Typed, TypeOK
<1> QED
  BY <1>2, <1>3, <1>4 DEF Sorted

\* A call that enters event() ages every record there is.
LEMMA EnterSorted ==
  ASSUME Typed, Typed', Sorted, NEW t \in Threads, NEW k \in Kinds,
         NEW x \in Transfers \cup {NoTransfer}, Enter(t, k, x)
  PROVE  Sorted'
<1> USE DEF Typed, TypeOK
<1>1. /\ seqno' = [seqno EXCEPT ![t] = @ + 1] /\ pc' = [pc EXCEPT ![t] = "getbuf"]
      /\ UNCHANGED <<ring, file, lines, copy, fpc, todo>>
  BY DEF Enter, Goto, sharedVars, flusherVars
<1>2. rec'[t].thr = t /\ rec'[t].n = seqno[t] + 1
  BY DEF Enter
<1>3. \A u \in Threads \ {t} : rec'[u] = rec[u]
  BY DEF Enter
<1>4. Newest'
  BY <1>1, <1>2, <1>3 DEF Sorted, Newest
<1>5. \A u \in Threads :
        \/ seqno'[u] = seqno[u] /\ (pc'[u] \in AtHand => pc[u] \in AtHand)
        \/ seqno'[u] > seqno[u]
  BY <1>1
<1> QED
  BY <1>1, <1>4, <1>5, StillSorted

\* The record in hand is put behind everything else of its thread.
LEMMA AppendSorted ==
  ASSUME Typed, Typed', Sorted, NEW t \in Threads, PutAppend(t)
  PROVE  Sorted'
<1> DEFINE r == rec[t]
<1>1. /\ pc[t] = "append" /\ pc' = [pc EXCEPT ![t] = "account"]
      /\ ring' = [ring EXCEPT ![t] = Append(@, r)]
      /\ UNCHANGED <<rec, seqno, file, lines, copy, fpc, todo>>
  BY DEF PutAppend, Pushed, Goto, callVars, flusherVars
<1>2. r \in Record /\ r.thr = t /\ r.n = seqno[t] /\ seqno[t] \in Nat
  BY <1>1 DEF Typed, TypeOK, Holding, Sorted, Newest
<1>3. /\ \A u \in Threads : ring[u] \in Seq(Record)
      /\ file \in Seq(Record) /\ lines \in Seq(Record) /\ copy \in Seq(Record)
  BY DEF Typed, TypeOK
<1>4. \A s \in Seq(Record) : Older(s, seqno, pc) => Older(s, seqno', pc')
  <2>1. \A u \in Threads : seqno'[u] = seqno[u] /\ (pc'[u] \in AtHand => pc[u] \in AtHand)
    BY <1>1 DEF AtHand, Typed, TypeOK
  <2>2. seqno \in [Threads -> Nat] /\ seqno' \in [Threads -> Nat]
    BY DEF Typed, TypeOK
  <2> QED
    BY <2>1, <2>2, OlderLater
<1>5. \A s \in Seq(Record) : Older(s, seqno, pc) => Below(s, <<r>>)
  BY <1>1, <1>2 DEF Older, Below, AtHand
<1>6. Newest'
  BY <1>1 DEF Sorted, Newest, Typed, TypeOK
<1>7. FlusherSorted'
  BY <1>1, <1>3, <1>4 DEF Sorted, FlusherSorted
<1>8. ring'[t] = Append(ring[t], r) /\ \A u \in Threads \ {t} : ring'[u] = ring[u]
  BY <1>1 DEF Typed, TypeOK
<1>9. /\ Append(ring[t], r) \in Seq(Record)
      /\ Len(Append(ring[t], r)) = Len(ring[t]) + 1
      /\ \A i \in 1 .. Len(ring[t]) : Append(ring[t], r)[i] = ring[t][i]
      /\ Append(ring[t], r)[Len(ring[t]) + 1] = r
  BY <1>2, <1>3
<1>10. RingsOwn'
  BY <1>2, <1>8, <1>9 DEF Sorted, RingsOwn
<1>11. RingsSorted'
  <2>1. \A u \in Threads \ {t} :
          /\ Ordered(ring'[u]) /\ Older(ring'[u], seqno', pc')
          /\ Below(file, ring'[u]) /\ Below(lines, ring'[u])
          /\ fpc # "swap" => Below(copy, ring'[u])
    BY <1>3, <1>4, <1>8 DEF Sorted, RingsSorted
  <2>2. /\ Below(ring[t], <<r>>) /\ Below(file, <<r>>) /\ Below(lines, <<r>>)
        /\ Below(copy, <<r>>)
    BY <1>3, <1>5 DEF Sorted, RingsSorted, FlusherSorted
  <2>3. /\ Ordered(Append(ring[t], r)) /\ Below(file, Append(ring[t], r))
        /\ Below(lines, Append(ring[t], r))
        /\ fpc # "swap" => Below(copy, Append(ring[t], r))
    BY <1>2, <1>3, <2>2, AppendKeepsOrder DEF Sorted, RingsSorted
  <2>4. Older(Append(ring[t], r), seqno', pc')
    <3>1. Older(ring[t], seqno', pc')
      BY <1>3, <1>4 DEF Sorted, RingsSorted
    <3>2. pc'[t] \notin AtHand /\ seqno' = seqno
      BY <1>1 DEF AtHand, Typed, TypeOK
    <3> QED
      BY <1>2, <1>9, <3>1, <3>2 DEF Older
  <2> QED
    BY <1>1, <1>8, <2>1, <2>3, <2>4 DEF RingsSorted
<1>12. CopyIsFront'
  <2> SUFFICES ASSUME fpc = "swap" PROVE CopyIsFront'
    BY <1>1 DEF CopyIsFront
  <2>1. Head(todo) \in Threads
    BY DEF Typed, TypeOK, SwapHasBuffer
  <2>2. CASE Head(todo) = t
    BY <1>1, <1>3, <1>8, <1>9, <2>2 DEF Sorted, CopyIsFront
  <2>3. CASE Head(todo) # t
    BY <1>1, <1>8, <2>1, <2>3 DEF Sorted, CopyIsFront
  <2> QED
    BY <2>2, <2>3
<1> QED
  BY <1>6, <1>7, <1>10, <1>11, <1>12 DEF Sorted

\* drain() copies a buffer: the copy is its front, all of it.
LEMMA CopySorted ==
  ASSUME Typed, Sorted, DrainCopy
  PROVE  Sorted'
<1>1. /\ copy' = ring[Head(todo)] /\ fpc' = "swap" /\ todo # <<>>
      /\ UNCHANGED <<pc, rec, seqno, ring, file, lines, todo>>
  BY DEF DrainCopy, FlusherOnly, callVars
<1>2. Head(todo) \in Threads
  BY <1>1 DEF Typed, TypeOK
<1>3. Newest' /\ RingsOwn' /\ RingsSorted'
  BY <1>1 DEF Sorted, Newest, RingsOwn, RingsSorted
<1>4. FlusherSorted'
  BY <1>1, <1>2 DEF Sorted, RingsSorted, FlusherSorted
<1>5. CopyIsFront'
  BY <1>1, <1>2 DEF CopyIsFront, Typed, TypeOK
<1> QED
  BY <1>3, <1>4, <1>5 DEF Sorted

\* The new deque is empty, so the copy precedes all that its thread has there.
LEMMA SwapSorted ==
  ASSUME Typed, Sorted, DrainSwap
  PROVE  Sorted'
<1> DEFINE t == Head(todo)
<1>1. /\ fpc = "swap" /\ fpc' = "drain" /\ ring' = [ring EXCEPT ![t] = <<>>]
      /\ UNCHANGED <<pc, rec, seqno, file, lines, copy>>
  BY DEF DrainSwap, Fresh, FlusherOnly, callVars
<1>2. t \in Threads
  BY <1>1 DEF Typed, TypeOK, SwapHasBuffer
<1>3. ring'[t] = <<>> /\ \A u \in Threads \ {t} : ring'[u] = ring[u]
  BY <1>1, <1>2 DEF Typed, TypeOK
<1>4. \A u \in Threads \ {t} : ring[u] \in Seq(Record)
  BY DEF Typed, TypeOK
<1>5. \A i \in 1 .. Len(copy) : copy[i].thr = t
  <2>1. Len(copy) <= Len(ring[t]) /\ \A i \in 1 .. Len(copy) : copy[i] = ring[t][i]
    BY <1>1 DEF Sorted, CopyIsFront
  <2>2. Len(copy) \in Nat /\ Len(ring[t]) \in Nat
    BY <1>2 DEF Typed, TypeOK
  <2>3. \A i \in 1 .. Len(ring[t]) : ring[t][i].thr = t
    BY <1>2 DEF Sorted, RingsOwn
  <2> QED
    BY <2>1, <2>2, <2>3
<1>6. Newest' /\ FlusherSorted' /\ CopyIsFront'
  BY <1>1 DEF Sorted, Newest, FlusherSorted, CopyIsFront
<1>7. RingsOwn'
  BY <1>3 DEF Sorted, RingsOwn
<1>8. RingsSorted'
  <2>1. \A u \in Threads \ {t} :
          /\ Ordered(ring'[u]) /\ Older(ring'[u], seqno', pc')
          /\ Below(file', ring'[u]) /\ Below(lines', ring'[u])
    BY <1>1, <1>3 DEF Sorted, RingsSorted
  <2>2. \A u \in Threads \ {t} : Below(copy', ring'[u])
    BY <1>1, <1>3, <1>5 DEF Sorted, RingsOwn, Below
  <2>3. /\ Ordered(ring'[t]) /\ Older(ring'[t], seqno', pc')
        /\ Below(file', ring'[t]) /\ Below(lines', ring'[t]) /\ Below(copy', ring'[t])
    BY <1>3 DEF Ordered, Older, Below
  <2> QED
    BY <2>1, <2>2, <2>3 DEF RingsSorted
<1> QED
  BY <1>6, <1>7, <1>8 DEF Sorted

\* The first record of the copy goes behind the lines, or is skipped.
LEMMA SerialiseSorted ==
  ASSUME Typed, Sorted, Serialise
  PROVE  Sorted'
<1> DEFINE r == Head(copy)
<1>1. /\ fpc = "drain" /\ copy # <<>> /\ copy' = Tail(copy)
      /\ lines' = lines \/ lines' = Append(lines, r)
      /\ UNCHANGED <<pc, rec, seqno, ring, file, fpc, todo>>
  BY DEF Serialise, FlusherOnly, callVars
<1>2. /\ \A t \in Threads : ring[t] \in Seq(Record)
      /\ file \in Seq(Record) /\ lines \in Seq(Record) /\ copy \in Seq(Record)
  BY DEF Typed, TypeOK
<1>3. /\ r \in Record /\ Tail(copy) \in Seq(Record)
      /\ Len(Tail(copy)) = Len(copy) - 1
      /\ \A i \in 1 .. Len(Tail(copy)) : Tail(copy)[i] = copy[i + 1]
      /\ r = copy[1] /\ Len(copy) \in Nat \ {0}
  BY <1>1, <1>2, HeadTailProperties
<1>4. /\ Ordered(Tail(copy)) /\ Below(<<r>>, Tail(copy))
      /\ Below(file, Tail(copy)) /\ Below(file, <<r>>)
      /\ Below(lines, Tail(copy)) /\ Below(lines, <<r>>)
  BY <1>1, <1>2, TailKeepsOrder DEF Sorted, FlusherSorted
<1>5. \A t \in Threads : Below(Tail(copy), ring[t]) /\ Below(<<r>>, ring[t])
  BY <1>1, <1>2, TailKeepsOrder DEF Sorted, RingsSorted
<1>6. Older(Tail(copy), seqno, pc) /\ Older(<<r>>, seqno, pc)
  <2>1. Older(copy, seqno, pc)
    BY DEF Sorted, FlusherSorted
  <2> QED
    BY <1>3, <2>1 DEF Older
<1>7. /\ Ordered(Append(lines, r)) /\ Below(file, Append(lines, r))
      /\ Below(Append(lines, r), Tail(copy))
      /\ \A t \in Threads : Below(Append(lines, r), ring[t])
  <2>1. Ordered(Append(lines, r))
    BY <1>2, <1>3, <1>4, AppendKeepsOrder DEF Sorted, FlusherSorted
  <2>2. Below(file, Append(lines, r))
    BY <1>2, <1>3, <1>4, AppendKeepsOrder DEF Sorted, FlusherSorted
  <2>3. Below(Append(lines, r), Tail(copy))
    BY <1>2, <1>3, <1>4, BelowAppendLeft
  <2>4. \A t \in Threads : Below(Append(lines, r), ring[t])
    BY <1>2, <1>3, <1>5, BelowAppendLeft DEF Sorted, RingsSorted
  <2> QED
    BY <2>1, <2>2, <2>3, <2>4
<1>8. Older(Append(lines, r), seqno, pc)
  <2>1. /\ Len(Append(lines, r)) = Len(lines) + 1
        /\ \A i \in 1 .. Len(lines) : Append(lines, r)[i] = lines[i]
        /\ Append(lines, r)[Len(lines) + 1] = r
    BY <1>2, <1>3
  <2>2. Older(lines, seqno, pc)
    BY DEF Sorted, FlusherSorted
  <2> QED
    BY <1>6, <2>1, <2>2 DEF Older
<1>9. Newest' /\ RingsOwn' /\ CopyIsFront'
  BY <1>1 DEF Sorted, Newest, RingsOwn, CopyIsFront
<1>10. FlusherSorted'
  BY <1>1, <1>4, <1>6, <1>7, <1>8 DEF Sorted, FlusherSorted
<1>11. RingsSorted'
  BY <1>1, <1>5, <1>7 DEF Sorted, RingsSorted
<1> QED
  BY <1>9, <1>10, <1>11 DEF Sorted

\* A batch, or the front of one, is written behind the file.
LEMMA WriteSorted ==
  ASSUME Typed, Sorted, FlushWrite \/ FlushWriteFails
  PROVE  Sorted'
<1>1. /\ fpc = "write" /\ fpc' # "swap" /\ lines' = <<>>
      /\ UNCHANGED <<pc, rec, seqno, ring, copy, todo>>
  BY DEF FlushWrite, FlushWriteFails, AfterFlush, After, FlusherOnly, callVars
<1>2. /\ \A t \in Threads : ring[t] \in Seq(Record)
      /\ file \in Seq(Record) /\ lines \in Seq(Record) /\ copy \in Seq(Record)
  BY DEF Typed, TypeOK
<1>3. PICK w \in Seq(Record) :
        /\ file' = file \o w
        /\ Ordered(w) /\ Older(w, seqno, pc) /\ Below(file, w) /\ Below(w, copy)
        /\ \A t \in Threads : Below(w, ring[t])
  <2>1. CASE FlushWrite
    BY <1>2, <2>1 DEF FlushWrite, Sorted, FlusherSorted, RingsSorted
  <2>2. CASE FlushWriteFails
    <3>1. PICK k \in 0 .. Len(lines) : file' = file \o SubSeq(lines, 1, k)
      BY <2>2 DEF FlushWriteFails
    <3> DEFINE v == SubSeq(lines, 1, k)
    <3>2. v \in Seq(Record) /\ Len(v) = k /\ \A i \in 1 .. k : v[i] = lines[i]
      BY <1>2, FrontKeepsOrder
    <3>3. Ordered(v) /\ Below(file, v) /\ Below(v, copy)
      BY <1>2, FrontKeepsOrder DEF Sorted, FlusherSorted
    <3>4. \A t \in Threads : Below(v, ring[t])
      BY <1>2, FrontKeepsOrder DEF Sorted, RingsSorted
    <3>5. Older(v, seqno, pc)
      <4>1. Older(lines, seqno, pc) /\ Len(lines) \in Nat
        BY <1>2 DEF Sorted, FlusherSorted
      <4> QED
        BY <3>2, <4>1 DEF Older
    <3> QED
      BY <3>1, <3>2, <3>3, <3>4, <3>5
  <2> QED
    BY <2>1, <2>2
<1>4. /\ Ordered(file \o w) /\ Below(file \o w, copy)
      /\ \A t \in Threads : Below(file \o w, ring[t])
  <2>1. Ordered(file \o w)
    BY <1>2, <1>3, ConcatKeepsOrder DEF Sorted, FlusherSorted
  <2>2. Below(file \o w, copy)
    BY <1>2, <1>3, ConcatKeepsOrder DEF Sorted, FlusherSorted
  <2>3. \A t \in Threads : Below(file \o w, ring[t])
    BY <1>2, <1>3, ConcatKeepsOrder DEF Sorted, RingsSorted
  <2> QED
    BY <2>1, <2>2, <2>3
<1>5. Older(file \o w, seqno, pc)
  <2>1. /\ Len(file \o w) = Len(file) + Len(w) /\ Len(file) \in Nat /\ Len(w) \in Nat
        /\ \A i \in 1 .. Len(file) : (file \o w)[i] = file[i]
        /\ \A i \in Len(file) + 1 .. Len(file) + Len(w) :
             (file \o w)[i] = w[i - Len(file)] /\ i - Len(file) \in 1 .. Len(w)
    BY <1>2
  <2>2. Older(file, seqno, pc)
    BY DEF Sorted, FlusherSorted
  <2>3. \A i \in 1 .. Len(file) + Len(w) :
          \/ i \in 1 .. Len(file) /\ (file \o w)[i] = file[i]
          \/ \E j \in 1 .. Len(w) : (file \o w)[i] = w[j]
    BY <2>1
  <2> QED
    BY <1>3, <2>1, <2>2, <2>3 DEF Older
<1>6. /\ Ordered(lines') /\ Older(lines', seqno, pc) /\ Below(file', lines') /\ Below(lines', copy)
      /\ \A t \in Threads : Below(lines', ring[t])
  BY <1>1 DEF Ordered, Older, Below
<1>7. Newest' /\ RingsOwn' /\ CopyIsFront'
  BY <1>1 DEF Sorted, Newest, RingsOwn, CopyIsFront
<1>8. FlusherSorted' /\ RingsSorted'
  BY <1>1, <1>3, <1>4, <1>5, <1>6 DEF Sorted, FlusherSorted, RingsSorted
<1> QED
  BY <1>7, <1>8 DEF Sorted

LEMMA SortedNext == Typed /\ Typed' /\ Sorted /\ [Next]_vars => Sorted'
<1> SUFFICES ASSUME Typed, Typed', Sorted, [Next]_vars PROVE Sorted'
  OBVIOUS
<1>1. ASSUME NEW t \in Threads, Event(t) \/ TransferStart(t) \/ TransferEnd(t) PROVE Sorted'
  <2>1. CASE Event(t)
    <3>1. PICK k \in EventKinds[t] : Enter(t, k, NoTransfer)
      BY <2>1 DEF Event
    <3>2. k \in {"event", "bad"}
      BY ConstantsAssumption
    <3> QED
      BY <3>1, <3>2, EnterSorted DEF Kinds
  <2>2. CASE TransferStart(t)
    <3>1. PICK x \in Transfers : Enter(t, "start", x)
      BY <2>2 DEF TransferStart
    <3> QED
      BY <3>1, EnterSorted DEF Kinds
  <2>3. CASE TransferEnd(t)
    <3>1. PICK x \in Transfers : Enter(t, "end", x)
      BY <2>3 DEF TransferEnd, Endable, Typed, TypeOK
    <3> QED
      BY <3>1, EnterSorted DEF Kinds
  <2> QED
    BY <1>1, <2>1, <2>2, <2>3
<1>2. ASSUME NEW t \in Threads,
             \/ TransferStartSampledAway(t)
             \/ GetBuf(t) \/ PutRefuse(t) \/ PutFits(t) \/ Account(t) \/ Signal(t) \/ GoLive(t)
      PROVE  Sorted'
  <2>1. UNCHANGED <<rec, seqno, ring, file, lines, copy, fpc, todo>>
    BY <1>2 DEF TransferStartSampledAway, GetBuf, PutRefuse, PutFits, Account, Signal, GoLive,
                callVars, sharedVars, flusherVars
  <2>2. \A u \in Threads : /\ pc'[u] \in AtHand => pc[u] \in AtHand
                           /\ pc'[u] # "idle" => pc[u] # "idle"
    BY <1>2 DEF TransferStartSampledAway, GetBuf, PutRefuse, PutFits, Account, Signal, GoLive,
                Goto, AfterEvent, AtHand, Typed, TypeOK
  <2>3. Newest'
    BY <2>1, <2>2 DEF Sorted, Newest
  <2> QED
    BY <2>1, <2>2, <2>3, StillSorted
<1>3. ASSUME NEW t \in Threads, PutAppend(t) PROVE Sorted'
  BY <1>3, AppendSorted
<1>4. CASE DrainCopy
  BY <1>4, CopySorted
<1>5. CASE DrainSwap
  BY <1>5, SwapSorted
<1>6. CASE Serialise
  BY <1>6, SerialiseSorted
<1>7. CASE FlushWrite \/ FlushWriteFails
  BY <1>7, WriteSorted
<1>8. CASE \/ FlusherLoop \/ FlusherWake \/ FlusherClear \/ FlusherReset \/ FlushSnapshot
           \/ DrainEnd
  <2>1. UNCHANGED <<pc, rec, seqno, ring, file, lines, copy>> /\ fpc # "swap" /\ fpc' # "swap"
    BY <1>8 DEF FlusherLoop, FlusherWake, FlusherClear, FlusherReset, FlushSnapshot, DrainEnd,
                After, AfterFlush, FlusherOnly, callVars
  <2> QED
    BY <2>1 DEF Sorted, Newest, RingsOwn, RingsSorted, FlusherSorted, CopyIsFront
<1>9. CASE Shutdown \/ UNCHANGED vars
  <2>1. UNCHANGED <<pc, rec, seqno, ring, file, lines, copy, fpc, todo>>
    BY <1>9 DEF Shutdown, vars, callVars, sharedVars, flusherVars
  <2> QED
    BY <2>1 DEF Sorted, Newest, RingsOwn, RingsSorted, FlusherSorted, CopyIsFront
<1> QED
  BY <1>1, <1>2, <1>3, <1>4, <1>5, <1>6, <1>7, <1>8, <1>9 DEF Next, Call, Continue, Flusher

\* The records of a thread reach the file in the order it issued them, none
\* twice.
THEOREM FileIsOrdered == Spec => []FileOrder
<1>1. Sorted => FileOrder
  BY DEF Sorted, FlusherSorted, FileOrder
<1> QED
  BY <1>1, TypedInit, TypedNext, SortedInit, SortedNext, PTL DEF Spec

-----------------------------------------------------------------------------
(* The records of a sequence, as a set.                                    *)

LEMMA RangeInParts ==
  ASSUME NEW S, NEW s \in Seq(S)
  PROVE  /\ Range(<<>>) = {}
         /\ \A x : x \in Range(s) <=> \E i \in 1 .. Len(s) : x = s[i]
         /\ \A r \in S : Range(Append(s, r)) = Range(s) \cup {r}
         /\ \A u \in Seq(S) : Range(s \o u) = Range(s) \cup Range(u)
         /\ s # <<>> => Head(s) \in S /\ Range(s) = {Head(s)} \cup Range(Tail(s))
<1>1. DOMAIN s = 1 .. Len(s) /\ DOMAIN <<>> = {}
  OBVIOUS
<1>2. \A x : x \in Range(s) <=> \E i \in 1 .. Len(s) : x = s[i]
  BY <1>1 DEF Range
<1>3. Range(<<>>) = {}
  BY <1>1 DEF Range
<1>4. ASSUME NEW r \in S PROVE Range(Append(s, r)) = Range(s) \cup {r}
  <2>1. /\ DOMAIN Append(s, r) = 1 .. Len(s) + 1 /\ Append(s, r)[Len(s) + 1] = r
        /\ \A i \in 1 .. Len(s) : Append(s, r)[i] = s[i]
    OBVIOUS
  <2> QED
    BY <1>2, <2>1 DEF Range
<1>5. ASSUME NEW u \in Seq(S) PROVE Range(s \o u) = Range(s) \cup Range(u)
  <2>1. /\ s \o u \in Seq(S) /\ Len(s \o u) = Len(s) + Len(u)
        /\ \A i \in 1 .. Len(s) : (s \o u)[i] = s[i]
        /\ \A i \in Len(s) + 1 .. Len(s) + Len(u) :
             (s \o u)[i] = u[i - Len(s)] /\ i - Len(s) \in 1 .. Len(u)
        /\ \A j \in 1 .. Len(u) : Len(s) + j \in Len(s) + 1 .. Len(s) + Len(u) /\ (Len(s) + j) - Len(s) = j
    OBVIOUS
  <2>2. /\ DOMAIN (s \o u) = 1 .. Len(s) + Len(u) /\ DOMAIN u = 1 .. Len(u)
        /\ Len(s) \in Nat /\ Len(u) \in Nat
    BY <2>1
  <2>3. ASSUME NEW x \in Range(s \o u) PROVE x \in Range(s) \cup Range(u)
    <3>1. PICK i \in 1 .. Len(s) + Len(u) : x = (s \o u)[i]
      BY <2>2 DEF Range
    <3>2. CASE i \in 1 .. Len(s)
      BY <1>2, <2>1, <3>1, <3>2
    <3>3. CASE i \in Len(s) + 1 .. Len(s) + Len(u)
      BY <2>1, <2>2, <3>1, <3>3 DEF Range
    <3> QED
      BY <2>2, <3>2, <3>3
  <2>4. ASSUME NEW x \in Range(s) PROVE x \in Range(s \o u)
    <3>1. PICK i \in 1 .. Len(s) : x = s[i]
      BY <1>2
    <3>2. i \in DOMAIN (s \o u) /\ (s \o u)[i] = x
      BY <2>1, <2>2, <3>1
    <3> QED
      BY <3>2 DEF Range
  <2>5. ASSUME NEW x \in Range(u) PROVE x \in Range(s \o u)
    <3>1. PICK j \in 1 .. Len(u) : x = u[j]
      BY <2>2 DEF Range
    <3>2. Len(s) + j \in DOMAIN (s \o u) /\ (s \o u)[Len(s) + j] = x
      BY <2>1, <2>2, <3>1
    <3> QED
      BY <3>2 DEF Range
  <2> QED
    BY <2>3, <2>4, <2>5
<1>6. ASSUME s # <<>> PROVE Head(s) \in S /\ Range(s) = {Head(s)} \cup Range(Tail(s))
  <2>1. /\ Tail(s) \in Seq(S) /\ Len(Tail(s)) = Len(s) - 1 /\ Len(s) \in Nat \ {0}
        /\ \A i \in 1 .. Len(s) - 1 : Tail(s)[i] = s[i + 1]
        /\ Head(s) = s[1] /\ Head(s) \in S
    BY <1>6, HeadTailProperties
  <2>2. DOMAIN Tail(s) = 1 .. Len(s) - 1
    BY <2>1
  <2>3. ASSUME NEW x \in Range(s) PROVE x \in {Head(s)} \cup Range(Tail(s))
    <3>1. PICK i \in 1 .. Len(s) : x = s[i]
      BY <1>2
    <3>2. CASE i = 1
      BY <2>1, <3>1, <3>2
    <3>3. CASE i # 1
      <4>1. i - 1 \in 1 .. Len(s) - 1 /\ (i - 1) + 1 = i
        BY <2>1, <3>3
      <4>2. Tail(s)[i - 1] = x
        BY <2>1, <3>1, <4>1
      <4> QED
        BY <2>2, <4>1, <4>2 DEF Range
    <3> QED
      BY <3>2, <3>3
  <2>4. ASSUME NEW x \in Range(Tail(s)) PROVE x \in Range(s)
    <3>1. PICK i \in 1 .. Len(s) - 1 : x = Tail(s)[i]
      BY <2>2 DEF Range
    <3>2. i + 1 \in 1 .. Len(s) /\ x = s[i + 1]
      BY <2>1, <3>1
    <3> QED
      BY <1>2, <3>2
  <2>5. Head(s) \in Range(s)
    <3>1. 1 \in 1 .. Len(s)
      BY <2>1
    <3> QED
      BY <1>2, <2>1, <3>1
  <2> QED
    BY <2>1, <2>3, <2>4, <2>5
<1> QED
  BY <1>2, <1>3, <1>4, <1>5, <1>6

LEMMA RangeParts ==
  ASSUME NEW s \in Seq(Record)
  PROVE  /\ Range(<<>>) = {}
         /\ \A x : x \in Range(s) <=> \E i \in 1 .. Len(s) : x = s[i]
         /\ \A r \in Record : Range(Append(s, r)) = Range(s) \cup {r}
         /\ \A u \in Seq(Record) : Range(s \o u) = Range(s) \cup Range(u)
         /\ s # <<>> => Head(s) \in Record /\ Range(s) = {Head(s)} \cup Range(Tail(s))
  BY RangeInParts

\* Buffers are registered for good and drained from the front.
LEMMA RangeOfThreads ==
  ASSUME NEW s \in Seq(Threads)
  PROVE  /\ Range(<<>>) = {}
         /\ \A t \in Threads : Range(Append(s, t)) = Range(s) \cup {t}
         /\ s # <<>> => Range(s) = {Head(s)} \cup Range(Tail(s))
  BY RangeInParts

\* What is ordered holds no record twice; what precedes something shares none
\* with it.
LEMMA OrderSeparates ==
  ASSUME NEW s \in Seq(Record)
  PROVE  /\ \A u \in Seq(Record) : Below(s, u) => Range(s) \cap Range(u) = {}
         /\ \A r \in Record : Below(<<r>>, s) => r \notin Range(s)
<1>1. ASSUME NEW v \in Seq(Record), NEW u \in Seq(Record), Below(v, u) PROVE Range(v) \cap Range(u) = {}
  <2> SUFFICES ASSUME NEW x \in Range(v), x \in Range(u) PROVE FALSE
    OBVIOUS
  <2>1. PICK i \in 1 .. Len(v) : x = v[i]
    BY RangeParts
  <2>2. PICK j \in 1 .. Len(u) : x = u[j]
    BY RangeParts
  <2>3. x.n < x.n
    BY <1>1, <2>1, <2>2 DEF Below
  <2>4. x \in Record
    BY <2>1
  <2>5. x.n \in Nat
    BY <2>4 DEF Record
  <2> QED
    BY <2>3, <2>5
<1>2. ASSUME NEW r \in Record, Below(<<r>>, s) PROVE r \notin Range(s)
  <2>1. <<r>> \in Seq(Record) /\ r \in Range(<<r>>)
    BY DEF Range
  <2> QED
    BY <1>1, <1>2, <2>1
<1> QED
  BY <1>1, <1>2

\* An ordered sequence cut in two.
LEMMA CutInTwo ==
  ASSUME NEW s \in Seq(Record), NEW k \in 0 .. Len(s), Ordered(s), NEW R, R = {s[i] : i \in k + 1 .. Len(s)}
  PROVE  /\ SubSeq(s, 1, k) \in Seq(Record)
         /\ Range(s) = Range(SubSeq(s, 1, k)) \cup R
         /\ Range(SubSeq(s, 1, k)) \cap R = {}
<1>1. /\ SubSeq(s, 1, k) \in Seq(Record) /\ Len(SubSeq(s, 1, k)) = k
      /\ \A i \in 1 .. k : SubSeq(s, 1, k)[i] = s[i]
  BY FrontKeepsOrder
<1>2. Len(s) \in Nat
  OBVIOUS
<1>3. \A x : x \in Range(s) <=> \E i \in 1 .. Len(s) : x = s[i]
  BY RangeParts
<1>4. \A x : x \in Range(SubSeq(s, 1, k)) <=> \E i \in 1 .. k : x = s[i]
  <2> PICK v \in Seq(Record) : v = SubSeq(s, 1, k)
    BY <1>1
  <2>1. \A x : x \in Range(v) <=> \E i \in 1 .. Len(v) : x = v[i]
    BY RangeParts
  <2> QED
    BY <1>1, <2>1
<1>5. \A i \in 1 .. Len(s) : i \in 1 .. k \/ i \in k + 1 .. Len(s)
  BY <1>2
<1>6. \A i \in 1 .. k : i \in 1 .. Len(s)
  BY <1>2
<1>7. \A i \in k + 1 .. Len(s) : i \in 1 .. Len(s)
  BY <1>2
<1>8. ASSUME NEW i \in 1 .. k, NEW j \in k + 1 .. Len(s), s[i] = s[j] PROVE FALSE
  <2>1. i \in 1 .. Len(s) /\ j \in 1 .. Len(s) /\ i < j
    BY <1>2
  <2>2. s[i].n < s[j].n
    BY <1>8, <2>1 DEF Ordered
  <2>3. s[i] \in Record
    BY <2>1
  <2>4. s[i].n \in Nat
    BY <2>3 DEF Record
  <2> QED
    BY <1>8, <2>2, <2>4
<1>9. Range(s) = Range(SubSeq(s, 1, k)) \cup R
  BY <1>3, <1>4, <1>5, <1>6, <1>7
<1>10. Range(SubSeq(s, 1, k)) \cap R = {}
  BY <1>4, <1>8
<1> QED
  BY <1>1, <1>9, <1>10

-----------------------------------------------------------------------------
(* Where the records are.  Every record issued is with the thread that      *)
(* issues it, in a ring buffer, with the flusher, in the file, turned away  *)
(* or lost, and in one of these places only; a new record is newer than all *)
(* that its thread has issued.                                              *)

InHands == UNION {InHand(t) : t \in Threads}
Kept == InHands \cup Buffered \cup InFlusher \cup Range(file)

Numbered == \A r \in issued : r.n <= seqno[r.thr]

Conserved ==
  /\ issued = Kept \cup refused \cup lost
  /\ Kept \cap (refused \cup lost) = {}
  /\ refused \cap lost = {}
  /\ IsFiniteSet(issued)
  /\ droppedTotal = Cardinality(refused)
  /\ Numbered

\* The places of the records that are still kept have no record in common.
LEMMA PlacesApart ==
  ASSUME Typed, Sorted
  PROVE  /\ \A t, u \in Threads : t # u => InHand(t) \cap InHand(u) = {} /\ Range(ring[t]) \cap Range(ring[u]) = {}
         /\ InHands \cap (Buffered \cup InFlusher \cup Range(file)) = {}
         /\ Buffered \cap (InFlusher \cup Range(file)) = {}
         /\ InFlusher \cap Range(file) = {}
         /\ fpc = "swap" => Range(copy) \subseteq Range(ring[Head(todo)])
         /\ Range(lines) \cap Range(copy) = {}
<1>1. /\ \A t \in Threads : ring[t] \in Seq(Record)
      /\ file \in Seq(Record) /\ lines \in Seq(Record) /\ copy \in Seq(Record)
      /\ pc \in [Threads -> {"idle", "getbuf", "check", "append", "account", "signal", "golive"}]
  BY DEF Typed, TypeOK
<1>2. \A t \in Threads : \A r \in InHand(t) :
        r = rec[t] /\ r \in Record /\ r.thr = t /\ r.n = seqno[t] /\ pc[t] \in AtHand
  BY <1>1 DEF InHand, AtHand, Typed, Holding, Sorted, Newest
<1>3. \A t \in Threads : \A r \in Range(ring[t]) : r.thr = t
  <2> SUFFICES ASSUME NEW t \in Threads, NEW r \in Range(ring[t]) PROVE r.thr = t
    OBVIOUS
  <2> PICK s \in Seq(Record) : s = ring[t]
    BY <1>1
  <2>1. PICK i \in 1 .. Len(s) : r = s[i]
    BY RangeParts
  <2> QED
    BY <2>1 DEF Sorted, RingsOwn
<1>4. ASSUME NEW s \in Seq(Record), Older(s, seqno, pc), NEW t \in Threads
      PROVE  InHand(t) \cap Range(s) = {}
  <2> SUFFICES ASSUME NEW r \in InHand(t), r \in Range(s) PROVE FALSE
    OBVIOUS
  <2>1. PICK i \in 1 .. Len(s) : r = s[i]
    BY RangeParts
  <2>2. r.n < seqno[t]
    BY <1>2, <1>4, <2>1 DEF Older
  <2>3. r.n = seqno[t] /\ seqno[t] \in Nat
    BY <1>2 DEF Typed, TypeOK
  <2> QED
    BY <2>2, <2>3
<1>5. \A t, u \in Threads : t # u => InHand(t) \cap InHand(u) = {} /\ Range(ring[t]) \cap Range(ring[u]) = {}
  BY <1>2, <1>3
<1>6. InHands \cap (Buffered \cup InFlusher \cup Range(file)) = {}
  <2>1. \A t, u \in Threads : InHand(t) \cap Range(ring[u]) = {}
    BY <1>1, <1>4 DEF Sorted, RingsSorted
  <2>2. \A t \in Threads : InHand(t) \cap Range(file) = {} /\ InHand(t) \cap Range(lines) = {}
                           /\ InHand(t) \cap Range(copy) = {}
    BY <1>1, <1>4 DEF Sorted, FlusherSorted
  <2>3. \A r \in Buffered : \E u \in Threads : r \in Range(ring[u])
    BY DEF Buffered
  <2>4. \A r \in InHands : \E t \in Threads : r \in InHand(t)
    BY DEF InHands
  <2>5. InFlusher \subseteq Range(lines) \cup Range(copy)
    BY DEF InFlusher
  <2> QED
    BY <2>1, <2>2, <2>3, <2>4, <2>5
<1>7. Buffered \cap (InFlusher \cup Range(file)) = {}
  <2>1. \A u \in Threads : /\ Range(file) \cap Range(ring[u]) = {} /\ Range(lines) \cap Range(ring[u]) = {}
                           /\ fpc # "swap" => Range(copy) \cap Range(ring[u]) = {}
    BY <1>1, OrderSeparates DEF Sorted, RingsSorted
  <2> QED
    BY <2>1 DEF Buffered, InFlusher
<1>8. /\ Range(file) \cap Range(lines) = {} /\ Range(file) \cap Range(copy) = {}
      /\ Range(lines) \cap Range(copy) = {}
  BY <1>1, OrderSeparates DEF Sorted, FlusherSorted
<1>9. InFlusher \cap Range(file) = {}
  BY <1>8 DEF InFlusher
<1>10. ASSUME fpc = "swap" PROVE Range(copy) \subseteq Range(ring[Head(todo)])
  <2>1. Head(todo) \in Threads
    BY <1>10 DEF Typed, TypeOK, SwapHasBuffer
  <2> PICK s \in Seq(Record) : s = ring[Head(todo)]
    BY <1>1, <2>1
  <2>2. Len(copy) <= Len(s) /\ \A i \in 1 .. Len(copy) : copy[i] = s[i]
    BY <1>10 DEF Sorted, CopyIsFront
  <2>3. Len(s) \in Nat /\ Len(copy) \in Nat
    BY <1>1
  <2>4. \A i \in 1 .. Len(copy) : i \in 1 .. Len(s)
    BY <2>2, <2>3
  <2>5. \A x \in Range(copy) : \E i \in 1 .. Len(copy) : x = copy[i]
    BY <1>1, RangeParts
  <2>6. \A i \in 1 .. Len(s) : s[i] \in Range(s)
    BY RangeParts
  <2> QED
    BY <2>2, <2>4, <2>5, <2>6
<1> QED
  BY <1>5, <1>6, <1>7, <1>8, <1>9, <1>10

LEMMA ConservedInit == Init => Conserved
<1> SUFFICES ASSUME Init PROVE Conserved
  OBVIOUS
<1>1. Range(<<>>) = {}
  <2>1. <<>> \in Seq(Record)
    OBVIOUS
  <2> QED
    BY <2>1, RangeParts
<1>2. InHands = {} /\ Buffered = {} /\ InFlusher = {} /\ Range(file) = {}
  BY <1>1 DEF Init, InHands, InHand, Buffered, InFlusher
<1> QED
  BY <1>2, FS_EmptySet DEF Init, Conserved, Kept, Numbered

-----------------------------------------------------------------------------
(* What a step does with the records: nothing, or it issues one, or turns   *)
(* one away, or writes some and loses others.                               *)

Same == Kept' = Kept /\ UNCHANGED <<issued, seqno, refused, droppedTotal, lost, file>>

Issue(r) ==
  /\ r \in Record \ issued /\ issued' = issued \cup {r} /\ Kept' = Kept \cup {r}
  /\ r.n = seqno[r.thr] + 1 /\ seqno' = [seqno EXCEPT ![r.thr] = @ + 1]
  /\ UNCHANGED <<refused, droppedTotal, lost, file>>

Refuse(r) ==
  /\ r \in Kept \ Range(file) /\ Kept' = Kept \ {r}
  /\ refused' = refused \cup {r} /\ droppedTotal' = droppedTotal + 1
  /\ UNCHANGED <<issued, seqno, lost, file>>

Lose(L, w) ==
  /\ L \subseteq Kept \ Range(file) /\ Kept' = Kept \ L /\ lost' = lost \cup L
  /\ w \in Seq(Record) /\ Range(w) \subseteq Kept \ (Range(file) \cup L) /\ file' = file \o w
  /\ UNCHANGED <<issued, seqno, refused, droppedTotal>>

Fate ==
  \/ Same
  \/ \E r \in Record : Issue(r)
  \/ \E r \in Record : Refuse(r)
  \/ \E L \in SUBSET Record : \E w \in Seq(Record) : Lose(L, w)

\* The hands change only with the thread that takes the step.
LEMMA HandsOf ==
  ASSUME Typed, NEW t \in Threads, \A u \in Threads : u # t => InHand(u)' = InHand(u)
  PROVE  /\ InHand(t)' = InHand(t) => InHands' = InHands
         /\ InHand(t) = {} => InHands' = InHands \cup InHand(t)'
         /\ Sorted /\ InHand(t)' = {} => InHands' = InHands \ InHand(t)
<1>1. \A x : x \in InHands' <=> \E u \in Threads : x \in InHand(u)'
  BY DEF InHands
<1>2. \A x : x \in InHands <=> \E u \in Threads : x \in InHand(u)
  BY DEF InHands
<1>3. ASSUME InHand(t)' = InHand(t) PROVE InHands' = InHands
  BY <1>1, <1>2, <1>3
<1>4. ASSUME InHand(t) = {} PROVE InHands' = InHands \cup InHand(t)'
  BY <1>1, <1>2, <1>4
<1>5. ASSUME Sorted, InHand(t)' = {} PROVE InHands' = InHands \ InHand(t)
  <2>1. \A u \in Threads : u # t => InHand(t) \cap InHand(u) = {}
    BY <1>5, PlacesApart
  <2> QED
    BY <1>1, <1>2, <1>5, <2>1
<1> QED
  BY <1>3, <1>4, <1>5

LEMMA EnterIssues ==
  ASSUME Typed, Sorted, Numbered, NEW t \in Threads, NEW k \in Kinds,
         NEW x \in Transfers \cup {NoTransfer}, Enter(t, k, x)
  PROVE  \E r \in Record : Issue(r)
<1> PICK r : r = [thr |-> t, n |-> seqno[t] + 1, kind |-> k, tid |-> x]
  OBVIOUS
<1>1. r \in Record /\ r.thr = t /\ r.n = seqno[t] + 1 /\ seqno[t] \in Nat
  BY DEF Record, Typed, TypeOK
<1>2. r \notin issued
  BY <1>1 DEF Numbered
<1>3. /\ pc' = [pc EXCEPT ![t] = "getbuf"] /\ rec' = [rec EXCEPT ![t] = r] /\ pc[t] = "idle"
      /\ issued' = issued \cup {r} /\ seqno' = [seqno EXCEPT ![t] = @ + 1]
      /\ UNCHANGED <<ring, fpc, copy, lines, file, lost, refused, droppedTotal>>
  BY DEF Enter, Goto, sharedVars, dropVars, flusherVars
<1>4. InHand(t) = {} /\ InHand(t)' = {r} /\ \A u \in Threads : u # t => InHand(u)' = InHand(u)
  BY <1>3 DEF InHand, Typed, TypeOK
<1>5. InHands' = InHands \cup {r}
  BY <1>4, HandsOf
<1>6. Buffered' = Buffered /\ InFlusher' = InFlusher /\ Range(file)' = Range(file)
  BY <1>3 DEF Buffered, InFlusher
<1>7. Kept' = Kept \cup {r}
  BY <1>5, <1>6 DEF Kept
<1> QED
  BY <1>1, <1>2, <1>3, <1>7 DEF Issue

\* Of the rest of a call, only put() moves the record.
LEMMA ContinueFate ==
  ASSUME Typed, Sorted, NEW t \in Threads, Continue(t)
  PROVE  Fate
<1> USE DEF Typed, TypeOK
<1>1. UNCHANGED <<issued, seqno, lost, file, rec, fpc, copy, lines>>
  BY DEF Continue, GetBuf, PutRefuse, PutFits, PutAppend, Account, Signal, GoLive, callVars, flusherVars
<1>2. InFlusher' = InFlusher /\ Range(file)' = Range(file)
  BY <1>1 DEF InFlusher
<1>3. \A u \in Threads : u # t => InHand(u)' = InHand(u)
  BY <1>1 DEF Continue, GetBuf, PutRefuse, PutFits, PutAppend, Account, Signal, GoLive, Goto, InHand
<1>4. CASE GetBuf(t) \/ PutFits(t) \/ Account(t) \/ Signal(t) \/ GoLive(t)
  <2>1. InHand(t)' = InHand(t) /\ ring' = ring /\ UNCHANGED <<refused, droppedTotal>>
    BY <1>1, <1>4 DEF GetBuf, PutFits, Account, Signal, GoLive, Goto, AfterEvent, InHand, sharedVars, dropVars
  <2>2. InHands' = InHands /\ Buffered' = Buffered
    BY <1>3, <2>1, HandsOf DEF Buffered
  <2> QED
    BY <1>1, <1>2, <2>1, <2>2 DEF Fate, Same, Kept
<1>5. CASE PutRefuse(t)
  <2> PICK r : r = rec[t]
    OBVIOUS
  <2>1. /\ pc[t] = "check" /\ ring' = ring /\ refused' = refused \cup {r} /\ droppedTotal' = droppedTotal + 1
        /\ pc' = [pc EXCEPT ![t] = AfterEvent(t)]
    BY <1>5 DEF PutRefuse, Goto, sharedVars
  <2>2. InHand(t) = {r} /\ InHand(t)' = {} /\ r \in Record
    BY <2>1 DEF InHand, AfterEvent, Holding
  <2>0. InHands' = InHands \ {r}
    BY <1>3, <2>2, HandsOf
  <2>3. InHands' = InHands \ {r} /\ Buffered' = Buffered /\ r \in InHands
    BY <2>1, <2>2, <2>0 DEF Buffered, InHands
  <2>4. r \notin Buffered \cup InFlusher \cup Range(file)
    BY <2>3, PlacesApart
  <2>5. Kept' = Kept \ {r} /\ r \in Kept
    BY <1>2, <2>3, <2>4 DEF Kept
  <2> QED
    BY <1>1, <2>1, <2>2, <2>4, <2>5 DEF Fate, Refuse
<1>6. CASE PutAppend(t)
  <2> PICK r : r = rec[t]
    OBVIOUS
  <2>1. /\ pc[t] = "append" /\ ring' = [ring EXCEPT ![t] = Append(@, r)] /\ UNCHANGED <<refused, droppedTotal>>
        /\ pc' = [pc EXCEPT ![t] = "account"]
    BY <1>6 DEF PutAppend, Pushed, Goto, dropVars
  <2>2. InHand(t) = {r} /\ InHand(t)' = {} /\ r \in Record
    BY <2>1 DEF InHand, Holding
  <2>3. InHands' = InHands \ {r} /\ r \in InHands
    <3>1. InHands' = InHands \ {r}
      BY <1>3, <2>2, HandsOf
    <3> QED
      BY <2>2, <3>1 DEF InHands
  <2>4. Range(ring'[t]) = Range(ring[t]) \cup {r} /\ \A u \in Threads : u # t => ring'[u] = ring[u]
    BY <2>1, <2>2, RangeParts
  <2>5. Buffered' = Buffered \cup {r}
    <3>1. \A x : x \in Buffered' <=> \E u \in Threads : x \in Range(ring'[u])
      BY DEF Buffered
    <3>2. \A x : x \in Buffered <=> \E u \in Threads : x \in Range(ring[u])
      BY DEF Buffered
    <3> QED
      BY <2>4, <3>1, <3>2, Zenon
  <2>6. Kept' = Kept
    BY <1>2, <2>3, <2>5 DEF Kept
  <2> QED
    BY <1>1, <2>1, <2>6 DEF Fate, Same
<1> QED
  BY <1>4, <1>5, <1>6 DEF Continue

\* The buffer of one thread gives way to an empty one.
LEMMA Emptied ==
  ASSUME Typed, Sorted, NEW t \in Threads, ring' = [ring EXCEPT ![t] = <<>>]
  PROVE  /\ Buffered' = Buffered \ Range(ring[t])
         /\ Range(ring[t]) \subseteq Buffered
<1>1. \A x : x \in Buffered' <=> \E u \in Threads : x \in Range(ring'[u])
  BY DEF Buffered
<1>2. \A x : x \in Buffered <=> \E u \in Threads : x \in Range(ring[u])
  BY DEF Buffered
<1>3. ring'[t] = <<>> /\ \A u \in Threads : u # t => ring'[u] = ring[u]
  BY DEF Typed, TypeOK
<1>4. Range(ring'[t]) = {}
  <2>1. <<>> \in Seq(Record)
    OBVIOUS
  <2> QED
    BY <1>3, <2>1, RangeParts
<1>5. \A u \in Threads : u # t => Range(ring[u]) \cap Range(ring[t]) = {} /\ Range(ring'[u]) = Range(ring[u])
  BY <1>3, PlacesApart
<1> QED
  BY <1>1, <1>2, <1>4, <1>5

LEMMA SwapFate ==
  ASSUME Typed, Sorted, DrainSwap
  PROVE  Fate
<1> PICK t : t = Head(todo)
  OBVIOUS
<1> PICK L : L = Range(ring[t]) \ Range(copy)
  OBVIOUS
<1>1. /\ fpc = "swap" /\ fpc' = "drain" /\ ring' = [ring EXCEPT ![t] = <<>>] /\ lost' = lost \cup L
      /\ UNCHANGED <<pc, rec, issued, seqno, copy, lines, file, refused, droppedTotal>>
  BY DEF DrainSwap, Fresh, FlusherOnly, callVars, dropVars
<1>2. t \in Threads
  BY <1>1 DEF Typed, TypeOK, SwapHasBuffer
<1>3. Buffered' = Buffered \ Range(ring[t]) /\ Range(ring[t]) \subseteq Buffered
  BY <1>1, <1>2, Emptied
<1>4. Range(copy) \subseteq Range(ring[t])
  BY <1>1, PlacesApart
<1>5. InFlusher' = InFlusher \cup Range(copy) /\ InHands' = InHands /\ Range(file)' = Range(file)
  BY <1>1 DEF InFlusher, InHands, InHand
<1>6. L \subseteq Buffered /\ L \cap (InHands \cup InFlusher \cup Range(file)) = {}
  BY <1>3, PlacesApart
<1>7. Kept' = Kept \ L
  BY <1>3, <1>4, <1>5, <1>6 DEF Kept
<1>8. L \in SUBSET Record
  <2>1. ring[t] \in Seq(Record)
    BY <1>2 DEF Typed, TypeOK
  <2> QED
    BY <2>1 DEF Range
<1>9. <<>> \in Seq(Record) /\ Range(<<>>) = {} /\ file' = file \o <<>>
  <2>1. <<>> \in Seq(Record) /\ file \o <<>> = file
    BY DEF Typed, TypeOK
  <2> QED
    BY <1>1, <2>1, RangeParts
<1>10. Lose(L, <<>>)
  BY <1>1, <1>6, <1>7, <1>9 DEF Lose, Kept
<1> QED
  BY <1>8, <1>9, <1>10 DEF Fate

LEMMA SerialiseFate ==
  ASSUME Typed, Sorted, Serialise
  PROVE  Fate
<1> PICK r : r = Head(copy)
  OBVIOUS
<1>1. /\ fpc = "drain" /\ fpc' = "drain" /\ copy # <<>> /\ copy' = Tail(copy)
      /\ UNCHANGED <<pc, rec, ring, issued, seqno, file, refused, droppedTotal>>
  BY DEF Serialise, FlusherOnly, callVars, dropVars
<1>2. copy \in Seq(Record) /\ lines \in Seq(Record) /\ file \in Seq(Record)
  BY DEF Typed, TypeOK
<1>3. r \in Record /\ Range(copy) = {r} \cup Range(Tail(copy))
  BY <1>1, <1>2, RangeParts
<1>4. InHands' = InHands /\ Buffered' = Buffered /\ Range(file)' = Range(file)
  BY <1>1 DEF InHands, InHand, Buffered
<1>5. InFlusher = Range(lines) \cup {r} \cup Range(Tail(copy)) /\ InFlusher' = Range(lines') \cup Range(Tail(copy))
  BY <1>1, <1>3 DEF InFlusher
<1>6. CASE lost' = lost /\ lines' = Append(lines, r)
  <2>1. Range(lines') = Range(lines) \cup {r}
    BY <1>2, <1>3, <1>6, RangeParts
  <2>2. Kept' = Kept
    BY <1>4, <1>5, <2>1 DEF Kept
  <2> QED
    BY <1>1, <1>6, <2>2 DEF Fate, Same
<1>7. CASE lost' = lost \cup {r} /\ lines' = lines
  <2>1. r \notin Range(Tail(copy))
    <3>1. Below(<<r>>, Tail(copy)) /\ Tail(copy) \in Seq(Record)
      BY <1>1, <1>2, TailKeepsOrder DEF Sorted, FlusherSorted
    <3> QED
      BY <1>3, <3>1, OrderSeparates
  <2>2. r \in InFlusher /\ r \notin Range(lines) \cup InHands \cup Buffered \cup Range(file)
    BY <1>3, <1>5, PlacesApart
  <2>3. Kept' = Kept \ {r}
    BY <1>4, <1>5, <1>7, <2>1, <2>2 DEF Kept
  <2>4. <<>> \in Seq(Record) /\ Range(<<>>) = {} /\ file' = file \o <<>>
    <3>1. <<>> \in Seq(Record) /\ file \o <<>> = file
      BY <1>2
    <3> QED
      BY <1>1, <3>1, RangeParts
  <2>5. Lose({r}, <<>>)
    BY <1>1, <1>7, <2>2, <2>3, <2>4 DEF Lose, Kept
  <2> QED
    BY <1>3, <2>4, <2>5 DEF Fate
<1> QED
  BY <1>6, <1>7 DEF Serialise

LEMMA WriteFate ==
  ASSUME Typed, Sorted, FlushWrite \/ FlushWriteFails
  PROVE  Fate
<1>1. /\ fpc = "write" /\ fpc' # "swap" /\ lines' = <<>>
      /\ UNCHANGED <<pc, rec, ring, copy, issued, seqno, refused, droppedTotal>>
  BY DEF FlushWrite, FlushWriteFails, AfterFlush, After, FlusherOnly, callVars, dropVars
<1>2. copy \in Seq(Record) /\ lines \in Seq(Record) /\ file \in Seq(Record) /\ Ordered(lines)
  BY DEF Typed, TypeOK, Sorted, FlusherSorted
<1>3. PICK L, w : /\ w \in Seq(Record) /\ L \subseteq Record /\ file' = file \o w /\ lost' = lost \cup L
                  /\ Range(lines) = Range(w) \cup L /\ Range(w) \cap L = {}
  <2>1. CASE FlushWrite
    <3>1. file' = file \o lines /\ lost' = lost \cup {} /\ Range(lines) = Range(lines) \cup {}
      BY <2>1 DEF FlushWrite
    <3>2. {} \subseteq Record /\ Range(lines) \cap {} = {}
      OBVIOUS
    <3> QED
      BY <1>2, <3>1, <3>2, Zenon
  <2>2. CASE FlushWriteFails
    <3>1. PICK k \in 0 .. Len(lines) : /\ file' = file \o SubSeq(lines, 1, k)
                                       /\ lost' = lost \cup {lines[i] : i \in k + 1 .. Len(lines)}
      BY <2>2 DEF FlushWriteFails
    <3> PICK R : R = {lines[i] : i \in k + 1 .. Len(lines)}
      OBVIOUS
    <3> PICK s \in Seq(Record) : s = lines
      BY <1>2
    <3>2. /\ SubSeq(s, 1, k) \in Seq(Record) /\ Range(s) = Range(SubSeq(s, 1, k)) \cup R
          /\ Range(SubSeq(s, 1, k)) \cap R = {}
      <4>1. k \in 0 .. Len(s) /\ Ordered(s) /\ R = {s[i] : i \in k + 1 .. Len(s)}
        BY <1>2
      <4> QED
        BY <4>1, CutInTwo
    <3>3. R \subseteq Record
      BY <1>2
    <3>4. lost' = lost \cup R
      BY <3>1
    <3> QED
      BY <3>1, <3>2, <3>3, <3>4, Zenon
  <2> QED
    BY <2>1, <2>2
<1>4. Range(<<>>) = {} /\ Range(file') = Range(file) \cup Range(w)
  <2>1. <<>> \in Seq(Record)
    OBVIOUS
  <2> QED
    BY <1>2, <1>3, <2>1, RangeParts
<1>5. InHands' = InHands /\ Buffered' = Buffered
  BY <1>1 DEF InHands, InHand, Buffered
<1>6. InFlusher = Range(w) \cup L \cup Range(copy) /\ InFlusher' = Range(copy)
  BY <1>1, <1>3, <1>4 DEF InFlusher
<1>7. /\ L \cap (InHands \cup Buffered \cup Range(file) \cup Range(copy)) = {}
      /\ Range(w) \cap Range(file) = {}
  BY <1>3, <1>6, PlacesApart
<1>8. Kept' = Kept \ L
  BY <1>3, <1>4, <1>5, <1>6, <1>7 DEF Kept
<1>9. Lose(L, w)
  BY <1>1, <1>3, <1>6, <1>7, <1>8 DEF Lose, Kept
<1> QED
  BY <1>3, <1>9 DEF Fate

LEMMA EveryFate ==
  ASSUME Typed, Sorted, Numbered, [Next]_vars
  PROVE  Fate
<1>1. ASSUME NEW t \in Threads, Call(t) PROVE Fate
  <2>1. CASE Event(t)
    <3>1. PICK k \in EventKinds[t] : Enter(t, k, NoTransfer)
      BY <2>1 DEF Event
    <3>2. k \in {"event", "bad"}
      BY ConstantsAssumption
    <3> QED
      BY <3>1, <3>2, EnterIssues DEF Kinds, Fate
  <2>2. CASE TransferStart(t)
    <3>1. PICK x \in Transfers : Enter(t, "start", x)
      BY <2>2 DEF TransferStart
    <3> QED
      BY <3>1, EnterIssues DEF Kinds, Fate
  <2>3. CASE TransferEnd(t)
    <3>1. PICK x \in Transfers : Enter(t, "end", x)
      BY <2>3 DEF TransferEnd, Endable, Typed, TypeOK
    <3> QED
      BY <3>1, EnterIssues DEF Kinds, Fate
  <2>4. CASE TransferStartSampledAway(t)
    <3>1. UNCHANGED <<pc, rec, ring, fpc, copy, lines, file, issued, seqno, refused, droppedTotal, lost>>
      BY <2>4 DEF TransferStartSampledAway, callVars, sharedVars, dropVars, flusherVars
    <3> QED
      BY <3>1 DEF Fate, Same, Kept, InHands, InHand, Buffered, InFlusher
  <2> QED
    BY <1>1, <2>1, <2>2, <2>3, <2>4 DEF Call
<1>2. ASSUME NEW t \in Threads, Continue(t) PROVE Fate
  BY <1>2, ContinueFate
<1>3. CASE \/ FlusherLoop \/ FlusherWake \/ FlusherClear \/ FlusherReset \/ FlushSnapshot \/ DrainCopy
           \/ DrainEnd \/ Shutdown \/ UNCHANGED vars
  <2>1. UNCHANGED <<pc, rec, ring, lines, file, issued, seqno, refused, droppedTotal, lost>>
    BY <1>3 DEF FlusherLoop, FlusherWake, FlusherClear, FlusherReset, FlushSnapshot, DrainCopy, DrainEnd,
                Shutdown, vars, FlusherOnly, callVars, sharedVars, dropVars, flusherVars
  <2>2. InFlusher' = InFlusher
    <3>1. CASE DrainCopy
      <4>1. fpc = "drain" /\ copy = <<>> /\ fpc' = "swap"
        BY <3>1 DEF DrainCopy
      <4>2. Range(copy) = {}
        <5>1. <<>> \in Seq(Record)
          OBVIOUS
        <5> QED
          BY <4>1, <5>1, RangeParts
      <4> QED
        BY <2>1, <4>1, <4>2 DEF InFlusher
    <3>2. CASE ~DrainCopy
      <4>1. copy' = copy /\ (fpc = "swap" <=> fpc' = "swap")
        BY <1>3, <3>2 DEF FlusherLoop, FlusherWake, FlusherClear, FlusherReset, FlushSnapshot, DrainEnd,
                          Shutdown, vars, flusherVars, After, AfterFlush
      <4> QED
        BY <2>1, <4>1 DEF InFlusher
    <3> QED
      BY <3>1, <3>2
  <2> QED
    BY <2>1, <2>2 DEF Fate, Same, Kept, InHands, InHand, Buffered
<1> QED
  BY <1>1, <1>2, <1>3, SwapFate, SerialiseFate, WriteFate DEF Next, Flusher

LEMMA ConservedNext == Typed /\ Sorted /\ Conserved /\ [Next]_vars => Conserved'
<1> SUFFICES ASSUME Typed, Sorted, Conserved, [Next]_vars PROVE Conserved'
  OBVIOUS
<1> USE DEF Conserved
<1>1. Fate
  BY EveryFate
<1>2. \A r \in issued : r.thr \in Threads /\ r.n \in Nat
  BY DEF Typed, TypeOK, Record
<1>3. CASE Same
  BY <1>3 DEF Same, Numbered
<1>4. ASSUME NEW r \in Record, Issue(r) PROVE Conserved'
  <2>1. r.thr \in Threads /\ r.n = seqno[r.thr] + 1 /\ seqno \in [Threads -> Nat]
    BY <1>4 DEF Issue, Record, Typed, TypeOK
  <2>2. Numbered'
    <3> SUFFICES ASSUME NEW q \in issued' PROVE q.n <= seqno'[q.thr]
      BY DEF Numbered
    <3>1. seqno' = [seqno EXCEPT ![r.thr] = @ + 1]
      BY <1>4 DEF Issue
    <3>2. CASE q = r
      BY <2>1, <3>1, <3>2
    <3>3. CASE q \in issued
      <4>1. q.n <= seqno[q.thr] /\ q.thr \in Threads /\ q.n \in Nat
        BY <1>2, <3>3 DEF Numbered
      <4> QED
        BY <2>1, <3>1, <4>1
    <3> QED
      BY <1>4, <3>2, <3>3 DEF Issue
  <2>3. IsFiniteSet(issued')
    BY <1>4, FS_AddElement DEF Issue
  <2> QED
    BY <1>4, <2>2, <2>3 DEF Issue
<1>5. ASSUME NEW r \in Record, Refuse(r) PROVE Conserved'
  <2>1. r \in issued /\ r \notin refused /\ IsFiniteSet(refused)
    <3>1. refused \in SUBSET issued
      OBVIOUS
    <3> QED
      BY <1>5, <3>1, FS_Subset DEF Refuse
  <2>2. Cardinality(refused') = Cardinality(refused) + 1
    BY <1>5, <2>1, FS_AddElement DEF Refuse
  <2>3. droppedTotal' = Cardinality(refused')
    BY <1>5, <2>2 DEF Refuse
  <2> QED
    BY <1>5, <2>1, <2>3 DEF Refuse, Numbered
<1>6. ASSUME NEW L \in SUBSET Record, NEW w \in Seq(Record), Lose(L, w) PROVE Conserved'
  BY <1>6 DEF Lose, Numbered
<1> QED
  BY <1>1, <1>3, <1>4, <1>5, <1>6 DEF Fate

-----------------------------------------------------------------------------
(* The promise of TraceLog.                                                 *)

Placed == Typed /\ Sorted /\ Conserved

LEMMA PlacedAlways == Spec => []Placed
<1>1. Init => Placed
  BY TypedInit, SortedInit, ConservedInit DEF Placed
<1>2. Placed /\ [Next]_vars => Placed'
  BY TypedNext, SortedNext, ConservedNext DEF Placed
<1> QED
  BY <1>1, <1>2, PTL DEF Spec

LEMMA LogInit == Init => Log!Init
<1> SUFFICES ASSUME Init PROVE Log!Init
  OBVIOUS
<1>1. issued = {} /\ file = <<>> /\ refused = {} /\ lost = {} /\ droppedTotal = 0
  BY DEF Init
<1> QED
  BY <1>1 DEF Log!Init

LEMMA LogStep ==
  ASSUME Placed, Placed', [Next]_vars
  PROVE  [Log!Next]_Log!vars
<1>1. Fate
  BY EveryFate DEF Placed, Conserved
<1>2. issued \ (Range(file) \cup refused \cup lost) = Kept \ Range(file)
  BY DEF Placed, Conserved, Kept
<1>3. CASE Same
  BY <1>3 DEF Same, Log!vars
<1>4. ASSUME NEW r \in Record, Issue(r) PROVE Log!Next
  <2>1. /\ issued' = issued \cup {r} /\ r \notin issued
        /\ UNCHANGED <<file, refused, droppedTotal, lost>>
    BY <1>4 DEF Issue
  <2>2. Range(file) \cup refused \cup lost \subseteq issued
    BY DEF Placed, Conserved, Kept
  <2>3. \A q \in issued : q.thr = r.thr => q.n < r.n
    <3> SUFFICES ASSUME NEW q \in issued, q.thr = r.thr PROVE q.n < r.n
      OBVIOUS
    <3>1. q.n <= seqno[q.thr]
      BY DEF Placed, Conserved, Numbered
    <3>2. r.n = seqno[r.thr] + 1 /\ r.thr \in Threads
      BY <1>4 DEF Issue, Record
    <3>3. q.n \in Nat /\ seqno[r.thr] \in Nat
      BY <3>2 DEF Placed, Typed, TypeOK, Record
    <3> QED
      BY <3>1, <3>2, <3>3
  <2>4. Log!Offer
    <3>1. Log!Known = issued
      BY <2>2 DEF Log!Known, Log!Range, Range
    <3> QED
      BY <2>1, <2>2, <2>3, <3>1 DEF Log!Offer
  <2> QED
    BY <2>4 DEF Log!Next
<1>5. ASSUME NEW r \in Record, Refuse(r) PROVE Log!Next
  <2>1. r \in issued \ (Range(file) \cup refused \cup lost)
    BY <1>2, <1>5 DEF Refuse
  <2>2. Log!Drop
    BY <1>5, <2>1 DEF Refuse, Log!Drop
  <2> QED
    BY <2>2 DEF Log!Next
<1>6. ASSUME NEW L \in SUBSET Record, NEW w \in Seq(Record), Lose(L, w) PROVE Log!Next
  <2> PICK F : F = issued \ (Range(file) \cup refused \cup lost)
    OBVIOUS
  <2>1. /\ file' = file \o w /\ lost' = lost \cup L /\ UNCHANGED <<issued, refused, droppedTotal>>
        /\ L \subseteq F /\ Range(w) \subseteq F \ L
    BY <1>2, <1>6 DEF Lose
  <2>2. file \in Seq(Record)
    BY DEF Placed, Typed, TypeOK
  <2>3. Range(file') = Range(file) \cup Range(w)
    BY <2>1, <2>2, RangeParts
  <2>4. Log!Deliver
    <3>1. Log!Ordered(file')
      BY DEF Placed, Sorted, FlusherSorted, Ordered, Log!Ordered
    <3>2. /\ Len(file') = Len(file) + Len(w) /\ Len(file) \in Nat /\ Len(w) \in Nat
          /\ \A i \in 1 .. Len(file) : file'[i] = file[i]
          /\ \A i \in Len(file) + 1 .. Len(file) + Len(w) :
               file'[i] = w[i - Len(file)] /\ i - Len(file) \in 1 .. Len(w)
      BY <2>1, <2>2
    <3>3. \A j \in 1 .. Len(w) : w[j] \in F
      <4>1. \A j \in 1 .. Len(w) : w[j] \in Range(w)
        BY RangeParts
      <4> QED
        BY <2>1, <4>1
    <3>4. \A i \in Len(file) + 1 .. Len(file') : file'[i] \in F
      BY <3>2, <3>3
    <3>5. Len(file') >= Len(file)
      BY <3>2
    <3> QED
      BY <3>1, <3>2, <3>4, <3>5 DEF Log!Deliver
  <2>5. L \cap Range(file') = {}
    BY <2>1, <2>3
  <2>6. (issued \ (Range(file) \cup refused \cup lost))' = F \ (L \cup Range(file'))
    BY <2>1, <2>3
  <2>7. Log!DeliverOrVanish
    <3>1. Log!Range(file') = Range(file')
      BY DEF Log!Range, Range
    <3>2. L \in SUBSET F /\ Log!Vanish(L) /\ UNCHANGED <<refused, droppedTotal>>
      BY <2>1 DEF Log!Vanish
    <3> QED
      BY <2>4, <2>5, <2>6, <3>1, <3>2, Zenon DEF Log!DeliverOrVanish
  <2> QED
    BY <2>7 DEF Log!Next
<1> QED
  BY <1>1, <1>3, <1>4, <1>5, <1>6 DEF Fate

\* Every behaviour of the emitter, seen as records in flight, in the file, turned
\* away and lost, is one TraceLog allows.
THEOREM ImplementsTraceLog == Spec => KeepsLogPromise
<1>1. Placed /\ Placed' /\ [Next]_vars => [Log!Next]_Log!vars
  BY LogStep
<1> QED
  BY <1>1, LogInit, PlacedAlways, PTL DEF Spec, KeepsLogPromise, Log!Spec

-----------------------------------------------------------------------------
(* The last flush.  A buffer that is used is registered; the flusher holds   *)
(* records only while it flushes; and from the snapshot of the last flush on *)
(* a record put before the stop event is in a buffer still to be drained, if *)
(* it is in any.                                                             *)

Registered == \A t \in Threads : ring[t] # <<>> \/ pc[t] \in {"check", "append"} => t \in Range(buffers)

Flushing == {"drain", "swap"}

EmptyHanded ==
  /\ fpc \notin Flushing => todo = <<>> /\ copy = <<>>
  /\ fpc \notin Flushing \cup {"write"} => lines = <<>>

LastFlush ==
  /\ final => stop /\ fpc \in Flushing \cup {"snapshot", "write", "done", "dead"}
  /\ fpc = "done" => final
  /\ before \subseteq issued /\ before \cap InHands = {}
  /\ final /\ fpc # "snapshot" => \A t \in Threads : t \in Range(todo) \/ Range(ring[t]) \cap before = {}

LastInv == Registered /\ EmptyHanded /\ LastFlush

LEMMA LastInit == Init => LastInv
<1> SUFFICES ASSUME Init PROVE LastInv
  OBVIOUS
<1>1. InHands = {}
  BY DEF Init, InHands, InHand
<1> QED
  BY <1>1 DEF Init, LastInv, Registered, EmptyHanded, LastFlush, Flushing

\* A step that leaves the flusher and the stop event alone and puts nothing old
\* into a buffer.
LEMMA LastQuiet ==
  ASSUME Placed, LastInv, Registered', UNCHANGED <<flusherVars, stopVars>>, issued \subseteq issued',
         \A r \in InHands' : r \in InHands \/ r \notin issued,
         \A t \in Threads : \A r \in Range(ring'[t]) : r \in Range(ring[t]) \/ r \in InHands
  PROVE  LastInv'
<1>1. UNCHANGED <<fpc, final, todo, copy, lines, stop, before>>
  BY DEF flusherVars, stopVars
<1>2. before' \cap InHands' = {} /\ before' \subseteq issued'
  BY <1>1 DEF LastInv, LastFlush
<1>3. \A t \in Threads : Range(ring[t]) \cap before = {} => Range(ring'[t]) \cap before' = {}
  BY <1>1 DEF LastInv, LastFlush
<1> QED
  BY <1>1, <1>2, <1>3 DEF LastInv, EmptyHanded, LastFlush

\* A step of the flusher that leaves the buffers and the stop event alone.
LEMMA LastFlusher ==
  ASSUME Placed, LastInv, UNCHANGED <<pc, rec, buffers, issued, ring, stop, before>>, EmptyHanded',
         final' => stop /\ fpc' \in Flushing \cup {"snapshot", "write", "done", "dead"},
         fpc' = "done" => final',
         final' /\ fpc' # "snapshot" => \A t \in Threads : t \in Range(todo') \/ Range(ring[t]) \cap before = {}
  PROVE  LastInv'
<1>1. InHands' = InHands
  BY DEF InHands, InHand
<1> QED
  BY <1>1 DEF LastInv, LastFlush, Registered

LEMMA LastCalls ==
  ASSUME Placed, LastInv, NEW t \in Threads, Call(t) \/ Continue(t)
  PROVE  LastInv'
<1> USE DEF Placed, Typed, TypeOK
<1>1. UNCHANGED <<flusherVars, stopVars>>
  BY DEF Call, Event, TransferStart, TransferStartSampledAway, TransferEnd, Enter, Continue, GetBuf, PutRefuse,
         PutFits, PutAppend, Account, Signal, GoLive
<1>2. \A u \in Threads : u # t => pc'[u] = pc[u] /\ rec'[u] = rec[u]
  BY DEF Call, Event, TransferStart, TransferStartSampledAway, TransferEnd, Enter, Continue, GetBuf, PutRefuse,
         PutFits, PutAppend, Account, Signal, GoLive, Goto, callVars
<1>3. \A u \in Threads : u # t => InHand(u)' = InHand(u)
  BY <1>2 DEF InHand
<1>4. CASE Call(t)
  <2>1. UNCHANGED <<ring, buffers>> /\ issued \subseteq issued' /\ pc'[t] \in {"idle", "getbuf"}
    BY <1>4 DEF Call, Event, TransferStart, TransferStartSampledAway, TransferEnd, Enter, Goto, sharedVars, callVars
  <2>2. Registered'
    BY <1>2, <2>1 DEF LastInv, Registered
  <2>3. \A r \in InHand(t)' : r \notin issued
    <3>1. ASSUME NEW k \in Kinds, NEW x, Enter(t, k, x), NEW r \in InHand(t)' PROVE r \notin issued
      <4>1. r.n = seqno[t] + 1 /\ r.thr = t /\ seqno[t] \in Nat
        BY <3>1 DEF Enter, InHand, Goto
      <4> QED
        BY <4>1 DEF Conserved, Numbered
    <3>2. CASE \E k \in Kinds : \E x : Enter(t, k, x)
      BY <3>1, <3>2
    <3>3. CASE TransferStartSampledAway(t)
      BY <3>3 DEF TransferStartSampledAway, InHand
    <3>4. Event(t) => \E k \in Kinds : \E x : Enter(t, k, x)
      <4>1. EventKinds[t] \subseteq Kinds
        BY ConstantsAssumption DEF Kinds
      <4> QED
        BY <4>1 DEF Event
    <3>5. TransferStart(t) \/ TransferEnd(t) => \E k \in Kinds : \E x : Enter(t, k, x)
      BY DEF TransferStart, TransferEnd, Kinds
    <3> QED
      BY <1>4, <3>2, <3>3, <3>4, <3>5 DEF Call
  <2>4. ASSUME NEW r \in InHands' PROVE r \in InHands \/ r \notin issued
    <3>1. PICK u \in Threads : r \in InHand(u)'
      BY DEF InHands
    <3>2. CASE u = t
      BY <2>3, <3>1, <3>2
    <3>3. CASE u # t
      <4>1. r \in InHand(u)
        BY <1>3, <3>1, <3>3
      <4> QED
        BY <4>1 DEF InHands
    <3> QED
      BY <3>2, <3>3
  <2> QED
    BY <1>1, <2>1, <2>2, <2>4, LastQuiet
<1>5. CASE Continue(t)
  <2>1. UNCHANGED <<rec, issued>>
    BY <1>5 DEF Continue, GetBuf, PutRefuse, PutFits, PutAppend, Account, Signal, GoLive, callVars
  <2>2. InHand(t)' \subseteq InHand(t)
    BY <1>5, <2>1 DEF Continue, GetBuf, PutRefuse, PutFits, PutAppend, Account, Signal, GoLive, Goto, AfterEvent, InHand
  <2>3. ASSUME NEW r \in InHands' PROVE r \in InHands
    <3>1. PICK u \in Threads : r \in InHand(u)'
      BY DEF InHands
    <3>2. r \in InHand(u)
      BY <1>3, <2>2, <3>1
    <3> QED
      BY <3>2 DEF InHands
  <2>4. CASE GetBuf(t)
    <3>1. ring' = ring /\ buffers' \in {buffers, Append(buffers, t)} /\ t \in Range(buffers')
      <4>1. Range(Append(buffers, t)) = Range(buffers) \cup {t}
        BY RangeOfThreads
      <4> QED
        BY <2>4, <4>1 DEF GetBuf
    <3>2. Range(buffers) \subseteq Range(buffers')
      <4>1. Range(Append(buffers, t)) = Range(buffers) \cup {t}
        BY RangeOfThreads
      <4> QED
        BY <3>1, <4>1
    <3>3. Registered'
      BY <1>2, <3>1, <3>2 DEF LastInv, Registered
    <3> QED
      BY <1>1, <2>1, <2>3, <3>1, <3>3, LastQuiet
  <2>5. CASE PutAppend(t)
    <3>1. /\ pc[t] = "append" /\ buffers' = buffers /\ pc' = [pc EXCEPT ![t] = "account"]
          /\ ring' = [ring EXCEPT ![t] = Append(@, rec[t])]
      BY <2>5 DEF PutAppend, Pushed, Goto
    <3>2. t \in Range(buffers)
      BY <3>1 DEF LastInv, Registered
    <3>3. \A u \in Threads : u # t => ring'[u] = ring[u]
      BY <3>1
    <3>4. Registered'
      BY <1>2, <3>1, <3>2, <3>3 DEF LastInv, Registered
    <3>5. rec[t] \in Record /\ rec[t] \in InHands
      BY <3>1 DEF InHands, InHand, Holding
    <3>6. Range(ring'[t]) = Range(ring[t]) \cup {rec[t]}
      BY <3>1, <3>5, RangeParts
    <3>7. ASSUME NEW u \in Threads, NEW r \in Range(ring'[u]) PROVE r \in Range(ring[u]) \/ r \in InHands
      <4>1. CASE u = t
        BY <3>5, <3>6, <4>1
      <4>2. CASE u # t
        BY <3>3, <4>2
      <4> QED
        BY <4>1, <4>2
    <3> QED
      BY <1>1, <2>1, <2>3, <3>4, <3>7, LastQuiet
  <2>6. CASE PutRefuse(t) \/ PutFits(t) \/ Account(t) \/ Signal(t) \/ GoLive(t)
    <3>1. UNCHANGED <<ring, buffers>> /\ (pc'[t] \in {"check", "append"} => pc[t] \in {"check", "append"})
      BY <2>6 DEF PutRefuse, PutFits, Account, Signal, GoLive, Goto, AfterEvent, sharedVars
    <3>2. Registered'
      BY <1>2, <3>1 DEF LastInv, Registered
    <3> QED
      BY <1>1, <2>1, <2>3, <3>1, <3>2, LastQuiet
  <2> QED
    BY <1>5, <2>4, <2>5, <2>6 DEF Continue
<1> QED
  BY <1>4, <1>5

LEMMA LastFlushes ==
  ASSUME Placed, LastInv, Flusher
  PROVE  LastInv'
<1> USE DEF Flushing, FlusherOnly, idVars, callVars, stopVars
<1>1. UNCHANGED <<pc, rec, buffers, issued, stop, before>>
  BY DEF Flusher, FlusherLoop, FlusherWake, FlusherClear, FlusherReset, FlushSnapshot, DrainCopy, DrainSwap,
         Serialise, DrainEnd, FlushWrite, FlushWriteFails
<1>2. CASE FlusherLoop \/ FlusherWake \/ FlusherClear \/ FlusherReset
  <2>1. /\ UNCHANGED <<ring, todo, copy, lines>> /\ fpc \notin {"drain", "swap", "write", "snapshot", "done", "dead"}
        /\ fpc' \notin {"drain", "swap", "write", "done", "dead"}
        /\ final' => stop /\ fpc' = "snapshot"
    <3>1. CASE FlusherLoop
      BY <3>1 DEF FlusherLoop
    <3>2. CASE FlusherWake \/ FlusherClear \/ FlusherReset
      BY <3>2 DEF FlusherWake, FlusherClear, FlusherReset, After, LastInv, LastFlush
    <3> QED
      BY <1>2, <3>1, <3>2
  <2>2. EmptyHanded'
    BY <2>1 DEF LastInv, EmptyHanded
  <2> QED
    BY <1>1, <2>1, <2>2, LastFlusher
<1>3. CASE FlushSnapshot
  <2>1. /\ fpc = "snapshot" /\ fpc' = "drain" /\ todo' = buffers /\ UNCHANGED <<ring, copy, lines, final>>
    BY <1>3 DEF FlushSnapshot
  <2>2. \A t \in Threads : t \in Range(todo') \/ Range(ring[t]) \cap before = {}
    <3>1. <<>> \in Seq(Record)
      OBVIOUS
    <3>2. Range(<<>>) = {}
      BY <3>1, RangeParts
    <3> QED
      BY <2>1, <3>2 DEF LastInv, Registered
  <2> QED
    BY <1>1, <2>1, <2>2, LastFlusher DEF LastInv, LastFlush, EmptyHanded
<1>4. CASE DrainCopy \/ Serialise
  <2>1. /\ fpc \in Flushing /\ fpc' \in Flushing /\ UNCHANGED <<ring, todo, final>>
    BY <1>4 DEF DrainCopy, Serialise
  <2> QED
    BY <1>1, <2>1, LastFlusher DEF LastInv, LastFlush, EmptyHanded
<1>5. CASE DrainSwap
  <2> PICK t : t = Head(todo)
    OBVIOUS
  <2>1. /\ fpc = "swap" /\ fpc' = "drain" /\ ring' = [ring EXCEPT ![t] = <<>>] /\ todo' = Tail(todo)
        /\ UNCHANGED <<final, copy, lines>>
    BY <1>5 DEF DrainSwap, Fresh
  <2>2. todo # <<>> /\ todo \in Seq(Threads) /\ t \in Threads /\ ring \in [Threads -> Seq(Record)]
    BY <2>1 DEF Placed, Typed, TypeOK, SwapHasBuffer
  <2>3. Range(todo) = {t} \cup Range(Tail(todo))
    BY <2>2, RangeOfThreads
  <2>4. ring'[t] = <<>> /\ \A u \in Threads : u # t => ring'[u] = ring[u]
    BY <2>1, <2>2
  <2>5. Range(<<>>) = {}
    <3>1. <<>> \in Seq(Record)
      OBVIOUS
    <3> QED
      BY <3>1, RangeParts
  <2>6. final' => \A u \in Threads : u \in Range(todo') \/ Range(ring'[u]) \cap before = {}
    <3> SUFFICES ASSUME final, NEW u \in Threads PROVE u \in Range(todo') \/ Range(ring'[u]) \cap before = {}
      BY <2>1
    <3>1. u \in Range(todo) \/ Range(ring[u]) \cap before = {}
      BY <2>1 DEF LastInv, LastFlush
    <3>2. CASE u = t
      BY <2>4, <2>5, <3>2
    <3>3. CASE u # t
      BY <2>1, <2>3, <2>4, <3>1, <3>3
    <3> QED
      BY <3>2, <3>3
  <2>7. Registered'
    BY <1>1, <2>4 DEF LastInv, Registered
  <2>8. InHands' = InHands
    BY <1>1 DEF InHands, InHand
  <2> QED
    BY <1>1, <2>1, <2>6, <2>7, <2>8 DEF LastInv, LastFlush, EmptyHanded
<1>6. CASE DrainEnd \/ FlushWrite \/ FlushWriteFails
  <2>1. /\ fpc \in {"drain", "write"} /\ UNCHANGED <<ring, final, todo, copy>> /\ todo = <<>> /\ copy = <<>>
        /\ lines' = <<>> \/ fpc' = "write"
        /\ fpc' \in {"loop", "done", "write", "dead"}
        /\ (fpc' = "done" => final) /\ (fpc' = "loop" => ~final)
    BY <1>6 DEF DrainEnd, FlushWrite, FlushWriteFails, AfterFlush, After, LastInv, EmptyHanded
  <2> QED
    BY <1>1, <2>1, LastFlusher DEF LastInv, LastFlush, EmptyHanded
<1> QED
  BY <1>2, <1>3, <1>4, <1>5, <1>6 DEF Flusher

LEMMA LastNext ==
  ASSUME Placed, LastInv, [Next]_vars
  PROVE  LastInv'
<1>1. CASE Shutdown
  <2>1. /\ ~stop /\ before' = issued \ InHands
        /\ UNCHANGED <<pc, rec, buffers, issued, ring, fpc, final, todo, copy, lines>>
    BY <1>1 DEF Shutdown, InHands, callVars, sharedVars, flusherVars
  <2>2. InHands' = InHands
    BY <2>1 DEF InHands, InHand
  <2> QED
    BY <2>1, <2>2 DEF LastInv, LastFlush, Registered, EmptyHanded
<1>2. CASE UNCHANGED vars
  <2>1. UNCHANGED <<pc, rec, buffers, issued, ring, fpc, final, todo, copy, lines, stop, before>>
    BY <1>2 DEF vars, callVars, sharedVars, flusherVars, stopVars
  <2>2. InHands' = InHands
    BY <2>1 DEF InHands, InHand
  <2> QED
    BY <2>1, <2>2 DEF LastInv, LastFlush, Registered, EmptyHanded
<1> QED
  BY <1>1, <1>2, LastCalls, LastFlushes DEF Next

-----------------------------------------------------------------------------
(* The count.                                                               *)

LEMMA DisjointSum ==
  ASSUME NEW A, NEW B, IsFiniteSet(A), IsFiniteSet(B), A \cap B = {}
  PROVE  IsFiniteSet(A \cup B) /\ Cardinality(A \cup B) = Cardinality(A) + Cardinality(B)
<1>1. Cardinality(A \cap B) = 0
  BY FS_EmptySet
<1>2. Cardinality(A) \in Nat /\ Cardinality(B) \in Nat
  BY FS_CardinalityType
<1>3. IsFiniteSet(A \cup B) /\ Cardinality(A \cup B) = Cardinality(A) + Cardinality(B) - Cardinality(A \cap B)
  BY FS_Union
<1> QED
  BY <1>1, <1>2, <1>3

LEMMA Counted ==
  ASSUME NEW A, NEW B, NEW C, NEW D, NEW E, NEW F, NEW S,
         IsFiniteSet(S), S = A \cup B \cup C \cup D \cup E \cup F,
         A \cap (B \cup C \cup D) = {}, B \cap (C \cup D) = {}, C \cap D = {},
         (A \cup B \cup C \cup D) \cap (E \cup F) = {}, E \cap F = {}
  PROVE  Cardinality(S) = Cardinality(A) + Cardinality(B) + Cardinality(C) + Cardinality(D)
                            + Cardinality(E) + Cardinality(F)
<1>1. /\ IsFiniteSet(A) /\ IsFiniteSet(B) /\ IsFiniteSet(C)
      /\ IsFiniteSet(D) /\ IsFiniteSet(E) /\ IsFiniteSet(F)
  <2>1. /\ A \in SUBSET S /\ B \in SUBSET S /\ C \in SUBSET S
        /\ D \in SUBSET S /\ E \in SUBSET S /\ F \in SUBSET S
    OBVIOUS
  <2> QED
    BY <2>1, FS_Subset
<1> PICK AB : AB = A \cup B
  OBVIOUS
<1> PICK ABC : ABC = AB \cup C
  OBVIOUS
<1> PICK ABCD : ABCD = ABC \cup D
  OBVIOUS
<1> PICK ABCDE : ABCDE = ABCD \cup E
  OBVIOUS
<1>2. IsFiniteSet(AB) /\ Cardinality(AB) = Cardinality(A) + Cardinality(B)
  <2>1. A \cap B = {}
    OBVIOUS
  <2> QED
    BY <1>1, <2>1, DisjointSum
<1>3. IsFiniteSet(ABC) /\ Cardinality(ABC) = Cardinality(AB) + Cardinality(C)
  <2>1. AB \cap C = {}
    OBVIOUS
  <2> QED
    BY <1>1, <1>2, <2>1, DisjointSum
<1>4. IsFiniteSet(ABCD) /\ Cardinality(ABCD) = Cardinality(ABC) + Cardinality(D)
  <2>1. ABC \cap D = {}
    OBVIOUS
  <2> QED
    BY <1>1, <1>3, <2>1, DisjointSum
<1>5. IsFiniteSet(ABCDE) /\ Cardinality(ABCDE) = Cardinality(ABCD) + Cardinality(E)
  <2>1. ABCD \cap E = {}
    OBVIOUS
  <2> QED
    BY <1>1, <1>4, <2>1, DisjointSum
<1>6. Cardinality(S) = Cardinality(ABCDE) + Cardinality(F)
  <2>1. ABCDE \cap F = {} /\ S = ABCDE \cup F
    OBVIOUS
  <2> QED
    BY <1>1, <1>5, <2>1, DisjointSum
<1> QED
  BY <1>2, <1>3, <1>4, <1>5, <1>6

\* No record is lost without a trace in the accounts, nor in two places; and
\* none put before the stop event is left in a buffer once the flusher is done.
THEOREM RecordsAreConserved == Spec => []RecordConservation
<1>1. Placed /\ LastInv => RecordConservation
  <2> SUFFICES ASSUME Placed, LastInv PROVE RecordConservation
    OBVIOUS
  <2>1. issued = InHands \cup Buffered \cup InFlusher \cup Range(file) \cup refused \cup lost
    BY DEF Placed, Conserved, Kept
  <2>2. /\ InHands \cap (Buffered \cup InFlusher \cup Range(file)) = {}
        /\ Buffered \cap (InFlusher \cup Range(file)) = {}
        /\ InFlusher \cap Range(file) = {}
    BY PlacesApart DEF Placed
  <2>3. Cardinality(issued) =
          Cardinality(InHands) + Cardinality(Buffered) + Cardinality(InFlusher)
            + Cardinality(Range(file)) + Cardinality(refused) + Cardinality(lost)
    <3>1. /\ IsFiniteSet(issued) /\ refused \cap lost = {}
          /\ (InHands \cup Buffered \cup InFlusher \cup Range(file)) \cap (refused \cup lost) = {}
      BY DEF Placed, Conserved, Kept
    <3> QED
      BY <2>1, <2>2, <3>1, Counted
  <2>4. ASSUME fpc = "done" PROVE before \subseteq Range(file) \cup refused \cup lost
    <3>1. final /\ todo = <<>> /\ copy = <<>> /\ lines = <<>>
      BY <2>4 DEF LastInv, LastFlush, EmptyHanded, Flushing
    <3>2. Range(<<>>) = {}
      <4>1. <<>> \in Seq(Record)
        OBVIOUS
      <4> QED
        BY <4>1, RangeParts
    <3>3. InFlusher = {}
      BY <3>1, <3>2 DEF InFlusher
    <3>4. before \cap Buffered = {}
      BY <2>4, <3>1, <3>2 DEF LastInv, LastFlush, Buffered
    <3>5. before \subseteq issued /\ before \cap InHands = {}
      BY DEF LastInv, LastFlush
    <3> QED
      BY <2>1, <3>3, <3>4, <3>5
  <2>5. droppedTotal = Cardinality(refused)
    BY DEF Placed, Conserved
  <2> QED
    BY <2>1, <2>3, <2>4, <2>5 DEF RecordConservation, InHands
<1>2. Placed /\ LastInv /\ [Next]_vars => LastInv'
  BY LastNext
<1> QED
  BY <1>1, <1>2, LastInit, PlacedAlways, PTL DEF Spec

-----------------------------------------------------------------------------
(* The size trigger.  The byte count covers the charged records of all ring  *)
(* buffers that the flusher is not about to drain, unless a signal is on its *)
(* way to the flusher or has reached it.                                     *)

Uncharged == UNION {IF pc[t] = "account" THEN {rec[t]} ELSE {} : t \in Threads}
Due == (UNION {Range(ring[t]) : t \in Threads \ Range(todo)}) \ Uncharged

Unsignalled ==
  /\ ~final /\ fpc \notin {"clear", "reset", "snapshot", "dead"}
  /\ ~trigger /\ \A t \in Threads : pc[t] # "signal"

ChargedIn ==
  /\ pending < FlushRecords
  /\ Unsignalled => Cardinality(Due) <= pending

LEMMA DueIsFinite ==
  ASSUME Placed
  PROVE  IsFiniteSet(Due) /\ \A S \in SUBSET Due : IsFiniteSet(S) /\ Cardinality(S) <= Cardinality(Due)
<1>1. Due \in SUBSET issued
  BY DEF Due, Buffered, Placed, Conserved, Kept
<1>2. IsFiniteSet(Due)
  BY <1>1, FS_Subset DEF Placed, Conserved
<1> QED
  BY <1>2, FS_Subset

LEMMA ChargedInit == Init => ChargedIn
<1> SUFFICES ASSUME Init PROVE ChargedIn
  OBVIOUS
<1>1. Range(<<>>) = {}
  <2>1. <<>> \in Seq(Record)
    OBVIOUS
  <2> QED
    BY <2>1, RangeParts
<1>2. Due = {} /\ pending = 0
  BY <1>1 DEF Init, Due
<1> QED
  BY <1>2, FS_EmptySet, ConstantsAssumption DEF ChargedIn

\* A step that adds nothing to what is due and leaves the count alone.
LEMMA ChargedQuiet ==
  ASSUME Placed, ChargedIn, Due' \subseteq Due, pending' = pending, Unsignalled' => Unsignalled
  PROVE  ChargedIn'
<1>1. Unsignalled' => Cardinality(Due') <= Cardinality(Due) /\ Cardinality(Due) <= pending
  BY DueIsFinite DEF ChargedIn
<1>2. Cardinality(Due) \in Nat /\ Cardinality(Due') \in Nat /\ pending \in Nat
  BY DueIsFinite, FS_CardinalityType DEF Placed, Typed, TypeOK
<1> QED
  BY <1>1, <1>2 DEF ChargedIn

\* What is due changes with the buffers, the records to charge and the flusher's
\* list alone.
LEMMA DueIn ==
  ASSUME NEW r
  PROVE  /\ r \in Due <=> r \notin Uncharged /\ \E t \in Threads : t \notin Range(todo) /\ r \in Range(ring[t])
         /\ r \in Due' <=> r \notin Uncharged' /\ \E t \in Threads : t \notin Range(todo') /\ r \in Range(ring'[t])
         /\ r \in Uncharged <=> \E t \in Threads : pc[t] = "account" /\ r = rec[t]
         /\ r \in Uncharged' <=> \E t \in Threads : pc'[t] = "account" /\ r = rec'[t]
<1>1. /\ r \in Due <=> r \notin Uncharged /\ \E t \in Threads : t \notin Range(todo) /\ r \in Range(ring[t])
      /\ r \in Due' <=> r \notin Uncharged' /\ \E t \in Threads : t \notin Range(todo') /\ r \in Range(ring'[t])
  BY DEF Due
<1>2. /\ r \in Uncharged <=> \E t \in Threads : pc[t] = "account" /\ r = rec[t]
      /\ r \in Uncharged' <=> \E t \in Threads : pc'[t] = "account" /\ r = rec'[t]
  BY DEF Uncharged
<1> QED
  BY <1>1, <1>2

LEMMA ChargedCalls ==
  ASSUME Placed, LastInv, ChargedIn, NEW t \in Threads, Call(t) \/ Continue(t)
  PROVE  ChargedIn'
<1> USE DEF Placed, Typed, TypeOK, Goto
<1>1. UNCHANGED <<fpc, final, todo>>
  BY DEF Call, Event, TransferStart, TransferStartSampledAway, TransferEnd, Enter, Continue, GetBuf, PutRefuse,
         PutFits, PutAppend, Account, Signal, GoLive, flusherVars
<1>2. \A u \in Threads : u # t => pc'[u] = pc[u] /\ rec'[u] = rec[u]
  BY DEF Call, Event, TransferStart, TransferStartSampledAway, TransferEnd, Enter, Continue, GetBuf, PutRefuse,
         PutFits, PutAppend, Account, Signal, GoLive, callVars
<1>3. CASE Call(t) \/ GetBuf(t) \/ PutRefuse(t) \/ PutFits(t) \/ GoLive(t)
  <2>1. /\ UNCHANGED <<ring, pending, trigger>>
        /\ pc[t] # "account" /\ pc[t] # "signal" /\ pc'[t] # "account" /\ pc'[t] # "signal"
    BY <1>3 DEF Call, Event, TransferStart, TransferStartSampledAway, TransferEnd, Enter, GetBuf, PutRefuse,
                PutFits, GoLive, AfterEvent, sharedVars
  <2>2. ASSUME NEW r PROVE r \in Uncharged' <=> r \in Uncharged
    <3>1. \A u \in Threads : (pc'[u] = "account" /\ r = rec'[u]) <=> (pc[u] = "account" /\ r = rec[u])
      BY <1>2, <2>1
    <3> QED
      BY <3>1, DueIn
  <2>3. \A r \in Due' : r \in Due
    BY <1>1, <2>1, <2>2, DueIn
  <2>4. Unsignalled' => Unsignalled
    BY <1>1, <1>2, <2>1 DEF Unsignalled
  <2> QED
    BY <2>1, <2>3, <2>4, ChargedQuiet
<1>4. CASE PutAppend(t)
  <2>1. /\ pc[t] = "append" /\ pc'[t] = "account" /\ ring' = [ring EXCEPT ![t] = Append(@, rec[t])]
        /\ UNCHANGED <<rec, pending, trigger>>
    BY <1>4 DEF PutAppend, Pushed, callVars
  <2>2. rec[t] \in Record /\ ring[t] \in Seq(Record)
    BY <2>1 DEF Holding
  <2>3. Range(ring'[t]) = Range(ring[t]) \cup {rec[t]} /\ \A u \in Threads : u # t => ring'[u] = ring[u]
    BY <2>1, <2>2, RangeParts
  <2>4. ASSUME NEW r \in Due' PROVE r \in Due
    <3>1. PICK u \in Threads : u \notin Range(todo) /\ r \in Range(ring'[u])
      BY <1>1, DueIn
    <3>2. r # rec[t]
      BY <2>1, DueIn
    <3>3. r \in Range(ring[u])
      BY <2>3, <3>1, <3>2
    <3>4. r \notin Uncharged
      <4>1. r \notin Uncharged'
        BY DueIn
      <4> QED
        BY <1>2, <2>1, <4>1, DueIn
    <3> QED
      BY <3>1, <3>3, <3>4, DueIn
  <2>5. Unsignalled' => Unsignalled
    BY <1>1, <1>2, <2>1 DEF Unsignalled
  <2> QED
    BY <2>1, <2>4, <2>5, ChargedQuiet
<1>5. CASE Account(t)
  <2>1. pc[t] = "account" /\ UNCHANGED <<rec, ring, trigger>>
    BY <1>5 DEF Account, callVars
  <2>2. CASE pending + 1 >= FlushRecords
    <3>1. pending' = 0 /\ pc'[t] = "signal"
      BY <1>5, <2>2 DEF Account
    <3> QED
      BY <3>1, ConstantsAssumption DEF ChargedIn, Unsignalled
  <2>3. CASE ~(pending + 1 >= FlushRecords)
    <3>1. pending' = pending + 1 /\ pc'[t] \notin {"account", "signal"}
      BY <1>5, <2>3 DEF Account, AfterEvent
    <3>2. ASSUME NEW r \in Due' PROVE r \in Due \cup {rec[t]}
      <4>1. PICK u \in Threads : u \notin Range(todo) /\ r \in Range(ring[u])
        BY <1>1, <2>1, DueIn
      <4>2. r \notin Uncharged'
        BY DueIn
      <4>3. r = rec[t] \/ r \notin Uncharged
        BY <1>2, <4>2, DueIn
      <4> QED
        BY <4>1, <4>3, DueIn
    <3>3. Unsignalled' => Unsignalled
      BY <1>1, <1>2, <2>1, <3>1 DEF Unsignalled
    <3>4. /\ IsFiniteSet(Due \cup {rec[t]}) /\ Cardinality(Due \cup {rec[t]}) <= Cardinality(Due) + 1
          /\ Cardinality(Due) \in Nat
      <4>1. IsFiniteSet(Due) /\ Cardinality(Due) \in Nat
        BY DueIsFinite, FS_CardinalityType
      <4> PICK D : D = Due
        OBVIOUS
      <4> PICK r : r = rec[t]
        OBVIOUS
      <4>2. IsFiniteSet(D) /\ Cardinality(D) \in Nat
        BY <4>1
      <4>3. /\ IsFiniteSet(D \cup {r})
            /\ Cardinality(D \cup {r}) = IF r \in D THEN Cardinality(D) ELSE Cardinality(D) + 1
        BY <4>2, FS_AddElement
      <4>4. Cardinality(D \cup {r}) <= Cardinality(D) + 1
        BY <4>2, <4>3
      <4> QED
        BY <4>1, <4>3, <4>4
    <3>5. Cardinality(Due') <= Cardinality(Due \cup {rec[t]}) /\ Cardinality(Due') \in Nat
      <4>1. Due' \in SUBSET (Due \cup {rec[t]})
        BY <3>2
      <4> QED
        BY <3>4, <4>1, FS_Subset, FS_CardinalityType
    <3>6. Cardinality(Due \cup {rec[t]}) \in Nat
      BY <3>4, FS_CardinalityType
    <3>7. Unsignalled' => Cardinality(Due') <= pending'
      BY <3>1, <3>3, <3>4, <3>5, <3>6 DEF ChargedIn
    <3>8. pending' < FlushRecords
      BY <2>3, <3>1, ConstantsAssumption
    <3> QED
      BY <3>7, <3>8 DEF ChargedIn
  <2> QED
    BY <2>2, <2>3
<1>6. CASE Signal(t)
  BY <1>6 DEF Signal, ChargedIn, Unsignalled
<1> QED
  BY <1>3, <1>4, <1>5, <1>6 DEF Continue

LEMMA ChargedFlushes ==
  ASSUME Placed, LastInv, ChargedIn, Flusher
  PROVE  ChargedIn'
<1> USE DEF FlusherOnly, callVars
<1>1. UNCHANGED <<pc, rec>>
  BY DEF Flusher, FlusherLoop, FlusherWake, FlusherClear, FlusherReset, FlushSnapshot, DrainCopy, DrainSwap,
         Serialise, DrainEnd, FlushWrite, FlushWriteFails
<1>2. \A r : r \in Uncharged' <=> r \in Uncharged
  BY <1>1, DueIn
<1>3. CASE FlusherLoop \/ DrainCopy \/ Serialise \/ DrainEnd \/ FlushWrite
  <2>1. UNCHANGED <<ring, todo, pending, trigger>>
    BY <1>3 DEF FlusherLoop, DrainCopy, Serialise, DrainEnd, FlushWrite
  <2>2. \A r \in Due' : r \in Due
    BY <1>2, <2>1, DueIn
  <2>3. Unsignalled' => Unsignalled
    BY <1>1, <1>3 DEF FlusherLoop, DrainCopy, Serialise, DrainEnd, FlushWrite, AfterFlush, After, Unsignalled,
                      LastInv, LastFlush, Flushing
  <2> QED
    BY <2>1, <2>2, <2>3, ChargedQuiet
<1>4. CASE FlusherWake \/ FlusherClear \/ FlusherReset \/ FlushWriteFails
  BY <1>4, ConstantsAssumption
     DEF FlusherWake, FlusherClear, FlusherReset, FlushWriteFails, After, ChargedIn, Unsignalled
<1>5. CASE FlushSnapshot
  <2>1. UNCHANGED <<ring, pending>> /\ todo' = buffers
    BY <1>5 DEF FlushSnapshot
  <2>2. Range(<<>>) = {}
    <3>1. <<>> \in Seq(Record)
      OBVIOUS
    <3> QED
      BY <3>1, RangeParts
  <2>3. \A r : r \notin Due'
    BY <2>1, <2>2, DueIn DEF LastInv, Registered
  <2>4. Due' = {}
    BY <2>3
  <2>5. Cardinality(Due') = 0 /\ pending \in Nat
    BY <2>4, FS_EmptySet DEF Placed, Typed, TypeOK
  <2> QED
    BY <2>1, <2>5 DEF ChargedIn
<1>6. CASE DrainSwap
  <2> PICK t : t = Head(todo)
    OBVIOUS
  <2>1. /\ fpc = "swap" /\ fpc' = "drain" /\ ring' = [ring EXCEPT ![t] = <<>>] /\ todo' = Tail(todo)
        /\ UNCHANGED <<final, pending, trigger>>
    BY <1>6 DEF DrainSwap, Fresh
  <2>2. todo # <<>> /\ todo \in Seq(Threads) /\ t \in Threads /\ ring \in [Threads -> Seq(Record)]
    BY <2>1 DEF Placed, Typed, TypeOK, SwapHasBuffer
  <2>3. Range(todo) = {t} \cup Range(Tail(todo))
    BY <2>2, RangeOfThreads
  <2>4. Range(ring'[t]) = {} /\ \A u \in Threads : u # t => ring'[u] = ring[u]
    <3>1. <<>> \in Seq(Record)
      OBVIOUS
    <3>2. ring'[t] = <<>> /\ \A u \in Threads : u # t => ring'[u] = ring[u]
      BY <2>1, <2>2
    <3> QED
      BY <3>1, <3>2, RangeParts
  <2>5. ASSUME NEW r \in Due' PROVE r \in Due
    <3>1. PICK u \in Threads : u \notin Range(todo') /\ r \in Range(ring'[u])
      BY DueIn
    <3>2. u # t
      BY <2>4, <3>1
    <3>3. u \notin Range(todo) /\ r \in Range(ring[u])
      BY <2>1, <2>3, <2>4, <3>1, <3>2
    <3>4. r \notin Uncharged
      BY <1>2, DueIn
    <3> QED
      BY <3>3, <3>4, DueIn
  <2>6. Unsignalled' => Unsignalled
    BY <1>1, <2>1 DEF Unsignalled
  <2> QED
    BY <2>1, <2>5, <2>6, ChargedQuiet
<1> QED
  BY <1>3, <1>4, <1>5, <1>6 DEF Flusher

\* No order of the byte count's resets, set() and clear() loses a wake-up: while
\* the flusher sleeps unsignalled, the charged records are below the threshold.
THEOREM NoWakeUpIsLost == Spec => []SizeTrigger
<1>1. Placed /\ LastInv /\ ChargedIn /\ [Next]_vars => ChargedIn'
  <2> SUFFICES ASSUME Placed, LastInv, ChargedIn, [Next]_vars PROVE ChargedIn'
    OBVIOUS
  <2>1. CASE Shutdown \/ UNCHANGED vars
    <3>1. UNCHANGED <<pc, rec, ring, todo, pending, trigger, fpc, final>>
      BY <2>1 DEF Shutdown, vars, callVars, sharedVars, flusherVars
    <3>2. \A r \in Due' : r \in Due
      BY <3>1, DueIn
    <3>3. Unsignalled' => Unsignalled
      BY <3>1 DEF Unsignalled
    <3> QED
      BY <3>1, <3>2, <3>3, ChargedQuiet
  <2> QED
    BY <2>1, ChargedCalls, ChargedFlushes DEF Next
<1>2. Placed /\ LastInv /\ ChargedIn => SizeTrigger
  <2> SUFFICES ASSUME Placed, LastInv, ChargedIn, fpc = "wait", ~trigger, \A t \in Threads : pc[t] # "signal"
               PROVE  Cardinality(Buffered \ Uncharged) < FlushRecords
    BY DEF SizeTrigger, Uncharged
  <2>1. todo = <<>> /\ Unsignalled
    BY DEF LastInv, LastFlush, EmptyHanded, Flushing, Unsignalled
  <2>2. Range(<<>>) = {}
    <3>1. <<>> \in Seq(Record)
      OBVIOUS
    <3> QED
      BY <3>1, RangeParts
  <2>3. Due = Buffered \ Uncharged
    BY <2>1, <2>2 DEF Due, Buffered
  <2>4. Cardinality(Due) \in Nat /\ pending \in Nat
    BY DueIsFinite, FS_CardinalityType DEF Placed, Typed, TypeOK
  <2> QED
    BY <2>1, <2>3, <2>4, ConstantsAssumption DEF ChargedIn
<1>3. Placed /\ LastInv /\ [Next]_vars => LastInv'
  BY LastNext
<1> QED
  BY <1>1, <1>2, <1>3, LastInit, ChargedInit, PlacedAlways, PTL DEF Spec
=============================================================================
