--------------------------- MODULE OutputFileProofs ---------------------------
(***************************************************************************)
(* Proofs about the files of a worker's trace and what is read from them,  *)
(* for any number of records, batches, rotations and processes.            *)
(***************************************************************************)
EXTENDS TraceReaders, SequenceTheorems, FiniteSetTheorems, TLAPS

-----------------------------------------------------------------------------
(* Types, and where the writer is in its files.                            *)

Kinds == {"front", "end"}
File == Seq((Nat \ {0}) \X Kinds)
Zipped == [is : {"none", "partial", "whole"}, data : File]

Typed ==
  /\ life \in 0 .. MaxLives /\ count \in 0 .. MaxRecords
  /\ wpc \in {"down", "idle", "flush", "open", "closed", "dead"}
  /\ seq \in Nat \ {0} /\ written \in Nat /\ buf \in File
  /\ jsonl \in [Seqs -> File] /\ gz \in [Seqs -> Zipped]
  /\ zip \in [Seqs -> {"none", "begin", "copy", "remove"}]
  /\ first \in [Lives -> Nat] /\ spoilt \subseteq Nat /\ fresh \in BOOLEAN

\* A file is left only after a record was written since it was opened, so
\* there are enough numbers; what is flushed or closed is no longer buffered.
Numbers ==
  /\ seq <= count + 1
  /\ written > 0 => seq <= count
  /\ wpc \in {"flush", "open"} => written > 0
  /\ wpc # "down" => life > 0
  /\ wpc \in {"open", "closed", "down"} => buf = <<>>
  /\ \A s \in Seqs : gz[s].is # "whole" => gz[s].data = <<>>

Placed == Typed /\ Numbers

LEMMA Appended ==
  ASSUME NEW S, NEW p \in Seq(S), NEW q \in Seq(S)
  PROVE  /\ p \o q \in Seq(S) /\ Len(p \o q) = Len(p) + Len(q)
         /\ \A i \in 1 .. Len(p) : (p \o q)[i] = p[i]
         /\ \A i \in 1 .. Len(q) : (p \o q)[Len(p) + i] = q[i]
<1>1. Len(p) \in Nat /\ Len(q) \in Nat
  OBVIOUS
<1> QED
  BY <1>1, ConcatProperties, Z3

LEMMA CutAt ==
  ASSUME NEW S, NEW p \in Seq(S), NEW k \in 0 .. Len(p)
  PROVE  /\ SubSeq(p, 1, k) \in Seq(S) /\ Len(SubSeq(p, 1, k)) = k
         /\ \A i \in 1 .. k : SubSeq(p, 1, k)[i] = p[i]
         /\ SubSeq(p, k + 1, Len(p)) \in Seq(S) /\ Len(SubSeq(p, k + 1, Len(p))) = Len(p) - k
         /\ \A i \in 1 .. Len(p) - k : SubSeq(p, k + 1, Len(p))[i] = p[k + i]
<1>1. Len(p) \in Nat /\ \A i \in 1 .. Len(p) : p[i] \in S
  OBVIOUS
<1>2. /\ SubSeq(p, 1, k) \in Seq(S) /\ Len(SubSeq(p, 1, k)) = IF 1 <= k THEN k - 1 + 1 ELSE 0
      /\ \A i \in 1 .. k - 1 + 1 : SubSeq(p, 1, k)[i] = p[1 + i - 1]
  BY <1>1, SubSeqProperties
<1> DEFINE m == k + 1
           n == Len(p)
<1>3. m \in Int /\ n \in Int /\ \A i \in m .. n : p[i] \in S
  BY <1>1
<1>4. /\ SubSeq(p, m, n) \in Seq(S) /\ Len(SubSeq(p, m, n)) = IF m <= n THEN n - m + 1 ELSE 0
      /\ \A i \in 1 .. n - m + 1 : SubSeq(p, m, n)[i] = p[m + i - 1]
  <2> HIDE DEF m, n
  <2> QED
    BY <1>3, SubSeqProperties
<1> QED
  BY <1>1, <1>2, <1>4

LEMMA FileAppended ==
  ASSUME NEW p \in File, NEW q \in File
  PROVE  /\ p \o q \in File /\ Len(p \o q) = Len(p) + Len(q)
         /\ Len(p) \in Nat /\ Len(q) \in Nat
         /\ \A i \in 1 .. Len(p) : (p \o q)[i] = p[i]
         /\ \A i \in 1 .. Len(q) : (p \o q)[Len(p) + i] = q[i]
<1>1. Len(p) \in Nat /\ Len(q) \in Nat
  BY DEF File
<1> QED
  BY <1>1, Appended DEF File

LEMMA FileCut ==
  ASSUME NEW p \in File, NEW k \in 0 .. Len(p)
  PROVE  /\ SubSeq(p, 1, k) \in File /\ Len(SubSeq(p, 1, k)) = k
         /\ \A i \in 1 .. k : SubSeq(p, 1, k)[i] = p[i]
         /\ SubSeq(p, k + 1, Len(p)) \in File /\ Len(SubSeq(p, k + 1, Len(p))) = Len(p) - k
         /\ \A i \in 1 .. Len(p) - k : SubSeq(p, k + 1, Len(p))[i] = p[k + i]
  BY CutAt DEF File

\* The new records of a batch.
LEMMA LinesTyped ==
  ASSUME count \in Nat, NEW n \in Nat
  PROVE  /\ Lines(n) \in File /\ Len(Lines(n)) = 2 * n
         /\ \A i \in 1 .. 2 * n : Lines(n)[i] = <<count + (i + 1) \div 2, IF i % 2 = 1 THEN "front" ELSE "end">>
<1>1. \A i \in 1 .. 2 * n : <<count + (i + 1) \div 2, IF i % 2 = 1 THEN "front" ELSE "end">> \in (Nat \ {0}) \X Kinds
  BY DEF Kinds
<1>2. Lines(n) \in [1 .. 2 * n -> (Nat \ {0}) \X Kinds]
  BY <1>1 DEF Lines
<1>3. 2 * n \in Nat
  OBVIOUS
<1> QED
  BY <1>2, <1>3 DEF Lines, File

\* What the file object passes on, and what it keeps.
LEMMA Spilled ==
  ASSUME Typed, seq \in Seqs, NEW p \in File, NEW k \in 0 .. Len(p),
         jsonl' = [jsonl EXCEPT ![seq] = @ \o SubSeq(p, 1, k)]
  PROVE  /\ jsonl' \in [Seqs -> File]
         /\ SubSeq(p, k + 1, Len(p)) \in File
<1>1. SubSeq(p, 1, k) \in File /\ SubSeq(p, k + 1, Len(p)) \in File
  BY FileCut
<1>2. jsonl[seq] \o SubSeq(p, 1, k) \in File
  BY <1>1, FileAppended DEF Typed
<1> QED
  BY <1>1, <1>2 DEF Typed

LEMMA InSeqs ==
  ASSUME Placed
  PROVE  seq \in Seqs /\ (wpc = "open" => seq + 1 \in Seqs)
  BY OutputFileAssumption DEF Placed, Typed, Numbers, Seqs

LEMMA PlacedInit == Init => Placed
<1> SUFFICES ASSUME Init PROVE Placed
  OBVIOUS
<1>1. <<>> \in File
  BY DEF File
<1>2. NoGz \in Zipped /\ NoGz.data = <<>>
  BY <1>1 DEF NoGz, Zipped
<1> QED
  BY <1>1, <1>2, OutputFileAssumption DEF Init, Placed, Typed, Numbers

LEMMA PlacedNext ==
  ASSUME Placed, [Next]_vars
  PROVE  Placed'
<1> USE DEF writer, disk, history
<1>0. /\ seq \in Seqs /\ (wpc = "open" => seq + 1 \in Seqs)
      /\ <<>> \in File /\ Len(buf) \in Nat /\ 0 \in 0 .. Len(buf) /\ Len(buf) \in 0 .. Len(buf)
  BY InSeqs DEF Placed, Typed, File
<1>1. CASE Start
  <2> count + 1 \in Nat /\ MaxLives \in Nat /\ life \in Nat /\ spoilt \subseteq Nat
    BY OutputFileAssumption DEF Placed, Typed
  <2>4. first' = [first EXCEPT ![life + 1] = count + 1] /\ first \in [Lives -> Nat]
    BY <1>1 DEF Start, Placed, Typed
  <2>1. life' \in 0 .. MaxLives /\ first' \in [Lives -> Nat]
    <3>1. first' \in [Lives -> Nat]
      BY <2>4
    <3> QED
      BY <1>1, <3>1 DEF Start
  <2>3. spoilt' \subseteq Nat
    BY <1>1 DEF Start, OpenAppend
  <2>2. fresh' \in BOOLEAN
    BY <1>1 DEF Start, Placed, Typed
  <2> QED
    BY <1>0, <1>1, <2>1, <2>2, <2>3 DEF Start, Placed, Typed, Numbers
<1>2. CASE WriteBatch
  <2>0. PICK n \in 1 .. MaxBatch :
          /\ count + n <= MaxRecords /\ count' = count + n
          /\ \E k \in 0 .. Len(buf) + 2 * n : Spill(buf \o Lines(n), k)
          /\ written' = written + n
          /\ wpc' = IF written + n >= RotateAt THEN "flush" ELSE "idle"
    BY <1>2 DEF WriteBatch
  <2>1. PICK k \in 0 .. Len(buf) + 2 * n : Spill(buf \o Lines(n), k)
    BY <2>0
  <2>2. Lines(n) \in File /\ Len(Lines(n)) = 2 * n
    BY LinesTyped DEF Placed, Typed
  <2>3. buf \o Lines(n) \in File /\ Len(buf \o Lines(n)) = Len(buf) + 2 * n
    BY <2>2, FileAppended DEF Placed, Typed
  <2>4. jsonl' \in [Seqs -> File] /\ buf' \in File
    BY <1>0, <2>1, <2>3, Spilled DEF Spill, Placed
  <2> QED
    BY <1>0, <1>2, <2>0, <2>4, OutputFileAssumption DEF WriteBatch, Placed, Typed, Numbers
<1>3. CASE WriteFails
  <2>0. PICK n \in 1 .. MaxBatch :
          /\ count + n <= MaxRecords /\ count' = count + n
          /\ \E m \in Len(buf) .. Len(buf) + 2 * n : \E k \in 0 .. m :
               Spill(SubSeq(buf \o Lines(n), 1, m), k)
    BY <1>3 DEF WriteFails
  <2> PICK m \in Len(buf) .. Len(buf) + 2 * n : \E k \in 0 .. m :
               Spill(SubSeq(buf \o Lines(n), 1, m), k)
    BY <2>0
  <2>1. PICK k \in 0 .. m : Spill(SubSeq(buf \o Lines(n), 1, m), k)
    OBVIOUS
  <2>2. Lines(n) \in File /\ Len(Lines(n)) = 2 * n
    BY LinesTyped DEF Placed, Typed
  <2>3. buf \o Lines(n) \in File /\ Len(buf \o Lines(n)) = Len(buf) + 2 * n
    BY <2>2, FileAppended DEF Placed, Typed
  <2>4. m \in 0 .. Len(buf \o Lines(n))
    BY <1>0, <2>3
  <2>5. SubSeq(buf \o Lines(n), 1, m) \in File /\ Len(SubSeq(buf \o Lines(n), 1, m)) = m
    BY <2>3, <2>4, FileCut
  <2>6. jsonl' \in [Seqs -> File] /\ buf' \in File
    BY <1>0, <2>1, <2>5, Spilled DEF Spill, Placed
  <2> QED
    BY <1>0, <1>3, <2>0, <2>6, OutputFileAssumption DEF WriteFails, Placed, Typed, Numbers
<1>4. CASE RotateFlush \/ Close
  <2>1. Spill(buf, Len(buf))
    BY <1>4 DEF RotateFlush, Close
  <2>2. jsonl' \in [Seqs -> File] /\ buf' \in File
    BY <1>0, <2>1, Spilled DEF Spill, Placed, Typed
  <2>3. buf' = <<>>
    BY <2>1, SubSeqEmpty, <1>0 DEF Spill
  <2> QED
    BY <1>0, <1>4, <2>2, <2>3 DEF RotateFlush, Close, Placed, Typed, Numbers
<1>5. CASE RotateOpen
  <2>1. spoilt' \subseteq Nat
    BY <1>5 DEF RotateOpen, OpenAppend, Placed, Typed
  <2> QED
    BY <1>0, <1>5, <2>1 DEF RotateOpen, Placed, Typed, Numbers
<1>6. CASE RotateFails
  BY <1>0, <1>6 DEF RotateFails, Placed, Typed, Numbers
<1>7. CASE ProcessEnds
  <2>1. PICK k \in {0, Len(buf)} : jsonl' = [jsonl EXCEPT ![seq] = @ \o SubSeq(buf, 1, k)]
    BY <1>7 DEF ProcessEnds
  <2>2. jsonl' \in [Seqs -> File]
    BY <1>0, <2>1, Spilled DEF Placed, Typed
  <2> QED
    BY <1>0, <1>7, <2>2 DEF ProcessEnds, Placed, Typed, Numbers
<1>8. ASSUME NEW s \in Seqs, Zip(s) PROVE Placed'
  <2>1. Partial \in Zipped /\ Partial.data = <<>>
    BY <1>0 DEF Partial, Zipped
  <2>2. Whole(jsonl[s]) \in Zipped /\ Whole(jsonl[s]).is = "whole"
    BY DEF Whole, Zipped, Placed, Typed
  <2>3. \A k \in 0 .. Len(jsonl[s]) : Whole(SubSeq(jsonl[s], 1, k)) \in Zipped /\ Whole(SubSeq(jsonl[s], 1, k)).is = "whole"
    BY FileCut DEF Whole, Zipped, Placed, Typed
  <2>4. UNCHANGED <<life, writer, count, history>> /\ zip' \in [Seqs -> {"none", "begin", "copy", "remove"}]
    BY <1>8 DEF Zip, ZipBegin, ZipCopy, ZipRemove, ZipFails, Placed, Typed
  <2>5. jsonl' \in [Seqs -> File]
    BY <1>0, <1>8 DEF Zip, ZipBegin, ZipCopy, ZipRemove, ZipFails, Placed, Typed
  <2>6. PICK z \in Zipped : /\ z.is # "whole" => z.data = <<>>
                           /\ gz' = [gz EXCEPT ![s] = z]
    <3>1. gz = [gz EXCEPT ![s] = gz[s]] /\ gz[s] \in Zipped /\ (gz[s].is # "whole" => gz[s].data = <<>>)
      BY DEF Placed, Typed, Numbers
    <3>2. CASE UNCHANGED gz
      BY <3>1, <3>2
    <3>3. CASE gz' = [gz EXCEPT ![s] = Partial] \/ gz' = [gz EXCEPT ![s] = Whole(jsonl[s])]
      BY <2>1, <2>2, <3>3
    <3>4. CASE \E k \in 0 .. Len(jsonl[s]) : gz' = [gz EXCEPT ![s] = Whole(SubSeq(jsonl[s], 1, k))]
      BY <2>3, <3>4
    <3> QED
      BY <1>8, <3>2, <3>3, <3>4 DEF Zip, ZipBegin, ZipCopy, ZipRemove, ZipFails
  <2>7. gz' \in [Seqs -> Zipped] /\ \A q \in Seqs : gz'[q].is # "whole" => gz'[q].data = <<>>
    BY <2>6 DEF Placed, Typed, Numbers
  <2> QED
    BY <2>4, <2>5, <2>7 DEF Placed, Typed, Numbers
<1>9. CASE UNCHANGED vars
  BY <1>9 DEF vars, Placed, Typed, Numbers
<1> QED
  BY <1>1, <1>2, <1>3, <1>4, <1>5, <1>6, <1>7, <1>8, <1>9 DEF Next, Writer

LEMMA AlwaysPlaced == Spec => []Placed
  BY PlacedInit, PlacedNext, PTL DEF Spec

-----------------------------------------------------------------------------
(* The gzip threads: each works on a file the writer has left, and removes *)
(* it only when its copy is complete.                                      *)

ZipsAt(s) ==
  /\ zip[s] # "none" => wpc # "down" /\ s < seq
  /\ zip[s] = "copy" => gz[s] = Partial
  /\ zip[s] = "remove" => gz[s] = Whole(jsonl[s])
  /\ fresh /\ zip[s] = "begin" => gz[s] = NoGz
  /\ fresh /\ wpc # "down" /\ s >= seq => gz[s] = NoGz
Zipping == \A s \in Seqs : ZipsAt(s)

\* The steps of the writer that leave the compression alone.
LEMMA ZippingKept ==
  ASSUME Placed, Placed', Zipping, seq' = seq, wpc # "down", wpc' # "down", UNCHANGED <<gz, zip, fresh>>,
         \A s \in Seqs : s # seq => jsonl'[s] = jsonl[s]
  PROVE  Zipping'
<1> SUFFICES ASSUME NEW s \in Seqs PROVE ZipsAt(s)'
  BY DEF Zipping
<1>1. zip[s] # "none" => s # seq
  BY DEF Zipping, ZipsAt, Placed, Typed
<1> QED
  BY <1>1 DEF Zipping, ZipsAt, Whole

LEMMA ZippingInit == Init => Zipping
  BY DEF Init, Zipping, ZipsAt

LEMMA ZippingNext ==
  ASSUME Placed, Placed', Zipping, [Next]_vars
  PROVE  Zipping'
<1> USE DEF writer, disk, history
<1>0. seq \in Seqs /\ seq \in Nat
  BY InSeqs DEF Placed, Typed
<1>1. CASE Start
  BY <1>0, <1>1 DEF Start, Zipping, ZipsAt, Placed, Typed
<1>2. CASE WriteBatch \/ WriteFails \/ RotateFlush \/ Close
  <2>1. PICK p, k : Spill(p, k)
    BY <1>2 DEF WriteBatch, WriteFails, RotateFlush, Close
  <2>2. \A s \in Seqs : s # seq => jsonl'[s] = jsonl[s]
    BY <2>1 DEF Spill, Placed, Typed
  <2> QED
    BY <1>2, <2>2, ZippingKept DEF WriteBatch, WriteFails, RotateFlush, Close
<1>3. CASE RotateOpen
  <2> SUFFICES ASSUME NEW s \in Seqs PROVE ZipsAt(s)'
    BY DEF Zipping
  <2>1. /\ seq' = seq + 1 /\ wpc = "open" /\ wpc' = "idle" /\ fresh' = fresh
        /\ jsonl' = jsonl /\ gz' = gz /\ zip' = [zip EXCEPT ![seq] = "begin"]
    BY <1>3 DEF RotateOpen
  <2>2. /\ zip[s] # "none" => s < seq
        /\ zip[s] = "copy" => gz[s] = Partial
        /\ zip[s] = "remove" => gz[s] = Whole(jsonl[s])
        /\ fresh /\ zip[s] = "begin" => gz[s] = NoGz
        /\ fresh /\ s >= seq => gz[s] = NoGz
    BY <2>1 DEF Zipping, ZipsAt
  <2>3. zip'[s] = IF s = seq THEN "begin" ELSE zip[s]
    BY <2>1 DEF Placed, Typed
  <2>4. s \in Nat
    BY DEF Seqs
  <2> QED
    BY <1>0, <2>1, <2>2, <2>3, <2>4 DEF Whole, ZipsAt
<1>4. CASE RotateFails
  BY <1>0, <1>4 DEF RotateFails, Zipping, ZipsAt, Placed, Typed, Whole, Seqs
<1>5. CASE ProcessEnds
  BY <1>0, <1>5 DEF ProcessEnds, Zipping, ZipsAt, Placed, Typed
<1>6. ASSUME NEW t \in Seqs, Zip(t) PROVE Zipping'
  <2> SUFFICES ASSUME NEW s \in Seqs PROVE ZipsAt(s)'
    BY DEF Zipping
  <2>1. /\ wpc' = wpc /\ seq' = seq /\ fresh' = fresh /\ zip[t] # "none"
        /\ s # t => jsonl'[s] = jsonl[s] /\ gz'[s] = gz[s] /\ zip'[s] = zip[s]
    BY <1>6 DEF Zip, ZipBegin, ZipCopy, ZipRemove, ZipFails, Placed, Typed
  <2>2. CASE s # t
    BY <2>1, <2>2 DEF Zipping, ZipsAt, Whole
  <2>3. CASE s = t
    <3>1. wpc # "down" /\ t < seq
      BY <2>1 DEF Zipping, ZipsAt
    <3>2. \/ zip'[t] = "copy" /\ gz'[t] = Partial
          \/ zip'[t] = "remove" /\ gz'[t] = Whole(jsonl'[t])
          \/ zip'[t] = "none"
      BY <1>6 DEF Zip, ZipBegin, ZipCopy, ZipRemove, ZipFails, Placed, Typed
    <3>3. t \in Nat
      BY DEF Seqs
    <3> QED
      BY <1>0, <2>1, <2>3, <3>1, <3>2, <3>3 DEF Whole, ZipsAt
  <2> QED
    BY <2>2, <2>3
<1>7. CASE UNCHANGED vars
  BY <1>7 DEF vars, Zipping, ZipsAt, Whole
<1> QED
  BY <1>1, <1>2, <1>3, <1>4, <1>5, <1>6, <1>7 DEF Next, Writer

LEMMA AlwaysZipping == Spec => []Zipping
  BY ZippingInit, ZippingNext, AlwaysPlaced, PTL DEF Spec

-----------------------------------------------------------------------------
(* What can be read.                                                       *)

LEMMA MoreLines ==
  ASSUME NEW p \in File, NEW q \in File
  PROVE  WholeLines(p) \subseteq WholeLines(p \o q)
<1> PICK n \in Nat : n = Len(p)
  BY DEF File
<1>1. \A i \in 1 .. n : (p \o q)[i] = p[i]
  BY FileAppended
<1>2. Len(p \o q) \in Nat /\ n <= Len(p \o q)
  <2>1. Len(p \o q) = Len(p) + Len(q) /\ Len(q) \in Nat
    BY FileAppended
  <2> QED
    BY <2>1
<1> SUFFICES ASSUME NEW r \in WholeLines(p) PROVE r \in WholeLines(p \o q)
  OBVIOUS
<1>3. r \in Records
  BY DEF WholeLines
<1>4. PICK i \in 1 .. n - 1 : p[i] = <<r, "front">> /\ p[i + 1] = <<r, "end">> /\ (i > 1 => p[i - 1][2] = "end")
  BY DEF WholeLines
<1>5. i \in 1 .. Len(p \o q) - 1 /\ i \in 1 .. n /\ i + 1 \in 1 .. n /\ (i > 1 => i - 1 \in 1 .. n)
  BY <1>2, <1>4
<1> QED
  BY <1>1, <1>3, <1>4, <1>5 DEF WholeLines

LEMMA NoLines == WholeLines(<<>>) = {}
  BY DEF WholeLines

\* The pieces p are the first ones of q.
Starts(p, q) == p \in File /\ q \in File /\ Len(p) <= Len(q) /\ \A i \in 1 .. Len(p) : p[i] = q[i]

LEMMA StartsTwice ==
  ASSUME NEW p, NEW q, Starts(p, q)
  PROVE  DOMAIN p \subseteq DOMAIN q /\ \A i \in DOMAIN p : p[i] = q[i]
<1>1. Len(p) \in Nat /\ Len(q) \in Nat /\ DOMAIN p = 1 .. Len(p) /\ DOMAIN q = 1 .. Len(q)
  BY DEF Starts, File
<1> QED
  BY <1>1 DEF Starts

LEMMA FewerLines ==
  ASSUME NEW p, NEW q, Starts(p, q)
  PROVE  WholeLines(p) \subseteq WholeLines(q)
<1> PICK n \in Nat : n = Len(p)
  BY DEF Starts, File
<1> PICK m \in Nat : m = Len(q)
  BY DEF Starts, File
<1>1. n <= m /\ \A i \in 1 .. n : p[i] = q[i]
  BY DEF Starts
<1> SUFFICES ASSUME NEW r \in WholeLines(p) PROVE r \in WholeLines(q)
  OBVIOUS
<1>2. PICK i \in 1 .. n - 1 : p[i] = <<r, "front">> /\ p[i + 1] = <<r, "end">> /\ (i > 1 => p[i - 1][2] = "end")
  BY DEF WholeLines
<1>3. i \in 1 .. m - 1 /\ i \in 1 .. n /\ i + 1 \in 1 .. n /\ (i > 1 => i - 1 \in 1 .. n)
  BY <1>1, <1>2
<1> QED
  BY <1>1, <1>2, <1>3 DEF WholeLines

\* What a gzip thread may do to the two forms of its file.
LEMMA ZipStep ==
  ASSUME Placed, NEW t \in Seqs, Zip(t)
  PROVE  /\ UNCHANGED <<life, writer, count, history>> /\ zip[t] # "none"
         /\ \A s \in Seqs : s # t => jsonl'[s] = jsonl[s] /\ gz'[s] = gz[s] /\ zip'[s] = zip[s]
         /\ jsonl'[t] = jsonl[t] \/ jsonl'[t] = <<>>
         /\ \/ gz'[t] = gz[t] \/ gz'[t].data = <<>> \/ gz'[t].data = jsonl[t]
            \/ /\ Starts(gz'[t].data, jsonl[t]) /\ gz'[t].is = "whole"
               /\ jsonl'[t] = jsonl[t] /\ zip'[t] = "none"
<1>0. jsonl \in [Seqs -> File] /\ gz \in [Seqs -> Zipped] /\ zip \in [Seqs -> {"none", "begin", "copy", "remove"}]
  BY DEF Placed, Typed
<1>1. CASE ZipBegin(t) \/ ZipCopy(t) \/ ZipRemove(t)
  BY <1>0, <1>1 DEF ZipBegin, ZipCopy, ZipRemove, disk, Partial, Whole
<1>2. CASE ZipFails(t)
  <2>1. ASSUME NEW k \in 0 .. Len(jsonl[t]) PROVE Starts(Whole(SubSeq(jsonl[t], 1, k)).data, jsonl[t])
    <3>1. SubSeq(jsonl[t], 1, k) \in File /\ Len(SubSeq(jsonl[t], 1, k)) = k
          /\ \A i \in 1 .. k : SubSeq(jsonl[t], 1, k)[i] = jsonl[t][i]
      BY <1>0, FileCut
    <3>2. Len(jsonl[t]) \in Nat /\ jsonl[t] \in File
      BY <1>0 DEF File
    <3> QED
      BY <3>1, <3>2 DEF Whole, Starts
  <2>2. UNCHANGED <<life, writer, count, history, jsonl>> /\ zip[t] # "none" /\ zip' = [zip EXCEPT ![t] = "none"]
    BY <1>2 DEF ZipFails
  <2>3. CASE gz' = gz
    BY <1>0, <2>2, <2>3
  <2>4. CASE gz' # gz
    <3>1. PICK k \in 0 .. Len(jsonl[t]) : gz' = [gz EXCEPT ![t] = Whole(SubSeq(jsonl[t], 1, k))]
      BY <1>2, <2>4 DEF ZipFails
    <3>2. gz'[t] = Whole(SubSeq(jsonl[t], 1, k)) /\ \A s \in Seqs : s # t => gz'[s] = gz[s]
      BY <1>0, <3>1
    <3>3. gz'[t].is = "whole" /\ Starts(gz'[t].data, jsonl[t])
      BY <2>1, <3>2 DEF Whole
    <3> QED
      BY <1>0, <2>2, <3>2, <3>3
  <2> QED
    BY <2>3, <2>4
<1> QED
  BY <1>1, <1>2 DEF Zip

-----------------------------------------------------------------------------
(* The writer puts out one stream of pieces, record after record.          *)

Piece(j) == <<(j + 1) \div 2, IF j % 2 = 1 THEN "front" ELSE "end">>

LEMMA PieceOfRecord ==
  ASSUME NEW r \in Nat \ {0}
  PROVE  Piece(2 * r - 1) = <<r, "front">> /\ Piece(2 * r) = <<r, "end">>
<1>1. (2 * r - 1 + 1) \div 2 = r /\ (2 * r - 1) % 2 = 1 /\ (2 * r + 1) \div 2 = r /\ (2 * r) % 2 # 1
  OBVIOUS
<1> QED
  BY <1>1 DEF Piece

LEMMA RecordOfPiece ==
  ASSUME NEW j \in Nat \ {0}
  PROVE  \E r \in Nat \ {0} : j = 2 * r - 1 \/ j = 2 * r
<1>1. (j + 1) \div 2 \in Nat \ {0} /\ (j = 2 * ((j + 1) \div 2) - 1 \/ j = 2 * ((j + 1) \div 2))
  OBVIOUS
<1> QED
  BY <1>1

LEMMA PieceIs ==
  ASSUME NEW j \in Nat \ {0}, NEW r \in Nat \ {0}
  PROVE  /\ j = 2 * r - 1 <=> Piece(j) = <<r, "front">>
         /\ j = 2 * r <=> Piece(j) = <<r, "end">>
         /\ j = 2 * r => Piece(j)[2] = "end"
<1> PICK u \in Nat \ {0} : j = 2 * u - 1 \/ j = 2 * u
  BY RecordOfPiece
<1>1. Piece(2 * u - 1) = <<u, "front">> /\ Piece(2 * u) = <<u, "end">>
  BY PieceOfRecord
<1>2. CASE j = 2 * u - 1
  BY <1>1, <1>2
<1>3. CASE j = 2 * u
  BY <1>1, <1>3
<1> QED
  BY <1>2, <1>3

LEMMA PieceOfLines ==
  ASSUME count \in Nat, NEW n \in Nat, NEW i \in 1 .. 2 * n
  PROVE  Lines(n)[i] = Piece(2 * count + i)
<1>1. Lines(n)[i] = <<count + (i + 1) \div 2, IF i % 2 = 1 THEN "front" ELSE "end">>
  BY LinesTyped
<1>2. (2 * count + i + 1) \div 2 = count + (i + 1) \div 2 /\ (2 * count + i) % 2 = i % 2
  OBVIOUS
<1> QED
  BY <1>1, <1>2 DEF Piece

\* The steps in which pieces may go from the buffer to the file.
Writing == WriteBatch \/ WriteFails \/ RotateFlush \/ Close \/ ProcessEnds

\* Of the pieces p, which begin with those in the buffer and go on with those
\* of new records, the first k go to the file and the others stay, or are lost.
Passed(p, k) ==
  /\ jsonl' = [jsonl EXCEPT ![seq] = @ \o SubSeq(p, 1, k)]
  /\ UNCHANGED <<life, seq, gz, history>> /\ wpc # "down"
Continues(p) ==
  /\ count' \in Nat /\ count <= count' /\ (wpc # "idle" => count' = count)
  /\ Len(buf) <= Len(p) /\ Len(p) <= Len(buf) + 2 * (count' - count)
  /\ wpc' \notin {"dead", "down"} => wpc # "dead" /\ Len(p) = Len(buf) + 2 * (count' - count)
  /\ \A i \in 1 .. Len(buf) : p[i] = buf[i]
  /\ \A i \in Len(buf) + 1 .. Len(p) : p[i] = Piece(2 * count + (i - Len(buf)))
Kept(p, k) ==
  /\ Len(buf') <= Len(p) - k
  /\ wpc' \notin {"dead", "down"} => Len(buf') = Len(p) - k
  /\ \A i \in 1 .. Len(buf') : buf'[i] = p[k + i]
AppendStep(p, k) == Passed(p, k) /\ Continues(p) /\ Kept(p, k)

LEMMA KeptAfterSpill ==
  ASSUME NEW p \in File, NEW k \in 0 .. Len(p), Spill(p, k)
  PROVE  Kept(p, k)
<1> PICK b : b = SubSeq(p, k + 1, Len(p))
  OBVIOUS
<1> PICK n : n = Len(p) - k
  OBVIOUS
<1>1. Len(b) = n /\ \A i \in 1 .. n : b[i] = p[k + i]
  BY FileCut
<1>2. n \in Int
  BY DEF File
<1>3. Len(b) <= n /\ \A i \in 1 .. Len(b) : b[i] = p[k + i]
  BY <1>1, <1>2
<1>4. buf' = b
  BY DEF Spill
<1> QED
  BY <1>1, <1>3, <1>4 DEF Kept

LEMMA WritingAppends ==
  ASSUME Placed, Writing
  PROVE  \E p \in File : \E k \in 0 .. Len(p) : AppendStep(p, k)
<1> USE DEF writer, disk, history
<1>1. buf \in File /\ Len(buf) \in Nat /\ count \in Nat /\ seq \in Seqs
  BY InSeqs DEF Placed, Typed, File
<1>2. ASSUME NEW n \in Nat
      PROVE  LET p == buf \o Lines(n) IN
             /\ p \in File /\ Len(p) = Len(buf) + 2 * n
             /\ \A i \in 1 .. Len(buf) : p[i] = buf[i]
             /\ \A i \in Len(buf) + 1 .. Len(p) : p[i] = Piece(2 * count + (i - Len(buf)))
  <2> PICK q : q = Lines(n)
    OBVIOUS
  <2>1. q \in File /\ Len(q) = 2 * n /\ \A i \in 1 .. 2 * n : q[i] = Piece(2 * count + i)
    BY <1>1, LinesTyped, PieceOfLines
  <2>2. /\ buf \o q \in File /\ Len(buf \o q) = Len(buf) + 2 * n
        /\ \A i \in 1 .. Len(buf) : (buf \o q)[i] = buf[i]
        /\ \A i \in 1 .. 2 * n : (buf \o q)[Len(buf) + i] = q[i]
    <3>1. /\ buf \o q \in File /\ Len(buf \o q) = Len(buf) + Len(q)
          /\ \A i \in 1 .. Len(buf) : (buf \o q)[i] = buf[i]
          /\ \A i \in 1 .. Len(q) : (buf \o q)[Len(buf) + i] = q[i]
      BY <1>1, <2>1, FileAppended
    <3> QED
      BY <2>1, <3>1
  <2>3. ASSUME NEW i \in Len(buf) + 1 .. Len(buf \o q)
        PROVE  (buf \o q)[i] = Piece(2 * count + (i - Len(buf)))
    <3>1. i - Len(buf) \in 1 .. 2 * n /\ Len(buf) + (i - Len(buf)) = i
      BY <1>1, <2>2
    <3> QED
      BY <2>1, <2>2, <3>1
  <2> QED
    BY <2>2, <2>3
<1>3. CASE WriteBatch
  <2>1. PICK n \in 1 .. MaxBatch :
          /\ count' = count + n
          /\ \E k \in 0 .. Len(buf) + 2 * n : Spill(buf \o Lines(n), k)
    BY <1>3 DEF WriteBatch
  <2> PICK p : p = buf \o Lines(n)
    OBVIOUS
  <2>2. n \in Nat
    OBVIOUS
  <2>3. /\ p \in File /\ Len(p) = Len(buf) + 2 * n
        /\ \A i \in 1 .. Len(buf) : p[i] = buf[i]
        /\ \A i \in Len(buf) + 1 .. Len(p) : p[i] = Piece(2 * count + (i - Len(buf)))
    BY <1>2, <2>2
  <2>4. PICK k \in 0 .. Len(p) : Spill(p, k)
    BY <2>1, <2>3
  <2>6. Passed(p, k) /\ wpc = "idle"
    BY <1>3, <2>4 DEF Passed, WriteBatch, Spill
  <2>7. Continues(p)
    BY <1>1, <2>1, <2>2, <2>3, <2>6 DEF Continues
  <2>8. Kept(p, k)
    BY <2>3, <2>4, KeptAfterSpill
  <2> QED
    BY <2>3, <2>6, <2>7, <2>8 DEF AppendStep
<1>4. CASE WriteFails
  <2>1. PICK n \in 1 .. MaxBatch :
          /\ count' = count + n
          /\ \E m \in Len(buf) .. Len(buf) + 2 * n : \E k \in 0 .. m :
               Spill(SubSeq(buf \o Lines(n), 1, m), k)
    BY <1>4 DEF WriteFails
  <2> PICK m \in Len(buf) .. Len(buf) + 2 * n : \E k \in 0 .. m : Spill(SubSeq(buf \o Lines(n), 1, m), k)
    BY <2>1
  <2> PICK q : q = buf \o Lines(n)
    OBVIOUS
  <2> PICK p : p = SubSeq(q, 1, m)
    OBVIOUS
  <2>2. n \in Nat
    OBVIOUS
  <2>3. /\ q \in File /\ Len(q) = Len(buf) + 2 * n
        /\ \A i \in 1 .. Len(buf) : q[i] = buf[i]
        /\ \A i \in Len(buf) + 1 .. Len(q) : q[i] = Piece(2 * count + (i - Len(buf)))
    BY <1>2, <2>2
  <2>4. m \in 0 .. Len(q) /\ m \in Nat
    BY <1>1, <2>3
  <2>5. p \in File /\ Len(p) = m /\ \A i \in 1 .. m : p[i] = q[i]
    BY <2>3, <2>4, FileCut
  <2>6. /\ \A i \in 1 .. Len(buf) : p[i] = buf[i]
        /\ \A i \in Len(buf) + 1 .. Len(p) : p[i] = Piece(2 * count + (i - Len(buf)))
    BY <1>1, <2>3, <2>4, <2>5
  <2>7. PICK k \in 0 .. Len(p) : Spill(p, k)
    BY <2>5
  <2>9. Passed(p, k) /\ wpc = "idle" /\ wpc' = "dead"
    BY <1>4, <2>7 DEF Passed, WriteFails, Spill
  <2>10. Continues(p)
    BY <1>1, <2>1, <2>2, <2>4, <2>5, <2>6, <2>9 DEF Continues
  <2>11. Kept(p, k)
    BY <2>5, <2>7, KeptAfterSpill
  <2> QED
    BY <2>5, <2>9, <2>10, <2>11 DEF AppendStep
<1>5. CASE RotateFlush \/ Close
  <2>1. Spill(buf, Len(buf)) /\ Len(buf) \in 0 .. Len(buf)
    BY <1>1, <1>5 DEF RotateFlush, Close
  <2>3. Passed(buf, Len(buf)) /\ count' = count /\ wpc \in {"flush", "idle"}
    BY <1>5, <2>1 DEF Passed, RotateFlush, Close, Spill
  <2>4. Continues(buf)
    BY <1>1, <2>3 DEF Continues
  <2>5. Kept(buf, Len(buf))
    BY <1>1, <2>1, KeptAfterSpill
  <2> QED
    BY <1>1, <2>1, <2>3, <2>4, <2>5 DEF AppendStep
<1>6. CASE ProcessEnds
  <2>1. PICK k \in {0, Len(buf)} : jsonl' = [jsonl EXCEPT ![seq] = @ \o SubSeq(buf, 1, k)]
    BY <1>6 DEF ProcessEnds
  <2>2. k \in 0 .. Len(buf) /\ Len(<<>>) = 0
    BY <1>1
  <2>3. Passed(buf, k) /\ count' = count /\ wpc' = "down" /\ buf' = <<>>
    BY <1>6, <2>1 DEF Passed, ProcessEnds
  <2>4. Continues(buf)
    BY <1>1, <2>3 DEF Continues
  <2>5. Kept(buf, k)
    BY <1>1, <2>2, <2>3 DEF Kept
  <2> QED
    BY <1>1, <2>2, <2>3, <2>4, <2>5 DEF AppendStep
<1> QED
  BY <1>3, <1>4, <1>5, <1>6 DEF Writing

-----------------------------------------------------------------------------
(* What could be read can be read ever after.                              *)

\* The writer only appends.
LEMMA ReadableAfterSpill ==
  ASSUME Placed, NEW p \in File, NEW k \in 0 .. Len(p),
         jsonl' = [jsonl EXCEPT ![seq] = @ \o SubSeq(p, 1, k)], gz' = gz
  PROVE  Readable \subseteq Readable'
<1>1. SubSeq(p, 1, k) \in File
  BY FileCut
<1>2. \A s \in Seqs : WholeLines(jsonl[s]) \subseteq WholeLines(jsonl'[s])
  <2> TAKE s \in Seqs
  <2>1. CASE s = seq
    <3>1. jsonl[s] \in File /\ jsonl'[s] = jsonl[s] \o SubSeq(p, 1, k)
      BY <2>1 DEF Placed, Typed
    <3> QED
      BY <1>1, <3>1, MoreLines
  <2>2. CASE s # seq
    BY <2>2 DEF Placed, Typed
  <2> QED
    BY <2>1, <2>2
<1> QED
  BY <1>2 DEF Readable

LEMMA ReadableAfterZip ==
  ASSUME Placed, Zipping, fresh, NEW t \in Seqs, Zip(t)
  PROVE  Readable \subseteq Readable'
<1>1. \A s \in Seqs : s # t => jsonl'[s] = jsonl[s] /\ gz'[s] = gz[s]
  BY DEF Zip, ZipBegin, ZipCopy, ZipRemove, ZipFails, Placed, Typed, disk
<1>2. WholeLines(jsonl[t]) \cup WholeLines(gz[t].data) \subseteq WholeLines(jsonl'[t]) \cup WholeLines(gz'[t].data)
  <2>1. CASE ZipBegin(t)
    <3>1. gz[t] = NoGz /\ jsonl' = jsonl
      BY <2>1 DEF ZipBegin, Zipping, ZipsAt
    <3> QED
      BY <3>1, NoLines DEF NoGz
  <2>2. CASE ZipCopy(t)
    <3>1. gz[t] = Partial /\ jsonl' = jsonl
      BY <2>2 DEF ZipCopy, Zipping, ZipsAt
    <3> QED
      BY <3>1, NoLines DEF Partial
  <2>3. CASE ZipRemove(t)
    <3>1. gz[t] = Whole(jsonl[t]) /\ gz' = gz
      BY <2>3 DEF ZipRemove, Zipping, ZipsAt
    <3> QED
      BY <3>1 DEF Whole
  <2>4. CASE ZipFails(t)
    <3>1. jsonl' = jsonl /\ (gz' = gz \/ gz[t] = Partial)
      BY <2>4 DEF ZipFails, Zipping, ZipsAt
    <3> QED
      BY <3>1, NoLines DEF Partial
  <2> QED
    BY <2>1, <2>2, <2>3, <2>4 DEF Zip
<1>3. \A s \in Seqs : WholeLines(jsonl[s]) \cup WholeLines(gz[s].data) \subseteq WholeLines(jsonl'[s]) \cup WholeLines(gz'[s].data)
  BY <1>1, <1>2
<1> QED
  BY <1>3 DEF Readable

LEMMA ReadableGrows ==
  ASSUME Placed, Zipping, [Next]_vars, fresh'
  PROVE  fresh /\ Readable \subseteq Readable'
<1>1. fresh
  BY DEF Next, Writer, Start, WriteBatch, WriteFails, RotateFlush, RotateOpen, RotateFails, Close,
         ProcessEnds, Zip, ZipBegin, ZipCopy, ZipRemove, ZipFails, vars, history
<1>2. CASE Writing
  <2>1. PICK p \in File : \E k \in 0 .. Len(p) : AppendStep(p, k)
    BY <1>2, WritingAppends
  <2>2. PICK k \in 0 .. Len(p) : AppendStep(p, k)
    BY <2>1
  <2> QED
    BY <1>1, <2>2, ReadableAfterSpill DEF AppendStep, Passed
<1>3. CASE Start \/ RotateOpen \/ RotateFails \/ UNCHANGED vars
  <2>1. jsonl' = jsonl /\ gz' = gz
    BY <1>3 DEF Start, RotateOpen, RotateFails, vars, disk
  <2> QED
    BY <1>1, <2>1 DEF Readable
<1>4. ASSUME NEW t \in Seqs, Zip(t) PROVE Readable \subseteq Readable'
  BY <1>1, <1>4, ReadableAfterZip
<1> QED
  BY <1>1, <1>2, <1>3, <1>4 DEF Next, Writer, Writing

\* A record once readable stays readable: no rotation, compression, failing
\* gzip thread, death in the middle of any of them or later process on the same
\* path takes it away (_rotate() and _gzip_file() of bkvt/emitter.py), until a
\* process finds files of an earlier one compressed.
THEOREM ReadableForGood == Spec => StaysReadable
<1>1. ASSUME Placed, Zipping, [Next]_vars PROVE [fresh' => Readable \subseteq Readable']_vars
  BY <1>1, ReadableGrows
<1> QED
  BY <1>1, AlwaysPlaced, AlwaysZipping, PTL DEF Spec, StaysReadable

-----------------------------------------------------------------------------
(* One file, while the pieces of the stream are appended to it.            *)

\* The pieces new of the stream come after the first a.
Follows(new, a) == \A i \in 1 .. Len(new) : new[i] = Piece(a + i)

\* A file with pieces p takes the piece after the first a of the stream: it
\* ends with a whole line, or with the front of the record whose end comes
\* next, unless that record is behind a line cut in two.
Ready(p, a, cut) ==
  \A r \in Nat :
    /\ a = 2 * r => p = <<>> \/ p[Len(p)][2] = "end" \/ r + 1 \in cut
    /\ a = 2 * r - 1 => /\ p # <<>> /\ p[Len(p)] = <<r, "front">>
                        /\ Len(p) > 1 => p[Len(p) - 1][2] = "end" \/ r \in cut

LEMMA LastAppended ==
  ASSUME NEW p \in File, NEW q \in File
  PROVE  /\ Len(p) \in Nat /\ Len(q) \in Nat /\ Len(p \o q) = Len(p) + Len(q)
         /\ p = <<>> <=> Len(p) = 0
         /\ p \o q = <<>> <=> Len(p) + Len(q) = 0
         /\ Len(q) = 0 => p \o q = p
<1>1. p \o q \in File /\ Len(p) \in Nat /\ Len(q) \in Nat /\ Len(p \o q) = Len(p) + Len(q)
  BY FileAppended
<1>2. \A x \in File : x = <<>> <=> Len(x) = 0
  BY EmptySeq DEF File
<1>3. ASSUME Len(q) = 0 PROVE p \o q = p
  <2>1. q = <<>>
    BY <1>2, <1>3
  <2> QED
    BY <2>1, ConcatEmptySeq DEF File
<1> QED
  BY <1>1, <1>2, <1>3

LEMMA ReadyAfter ==
  ASSUME NEW p \in File, NEW q \in File, NEW a \in Nat, NEW cut, Ready(p, a, cut), Follows(q, a)
  PROVE  Ready(p \o q, a + Len(q), cut)
<1> PICK n \in Nat : n = Len(p)
  BY LastAppended
<1> PICK k \in Nat : k = Len(q)
  BY LastAppended
<1> PICK x : x = p \o q
  OBVIOUS
<1>1. /\ Len(x) = n + k /\ (p = <<>> <=> n = 0) /\ (x = <<>> <=> n + k = 0) /\ (k = 0 => x = p)
      /\ \A i \in 1 .. n : x[i] = p[i]
      /\ \A i \in 1 .. k : x[n + i] = q[i]
  BY LastAppended, FileAppended
<1>2. CASE k = 0
  <2>1. p \o q = p /\ a + Len(q) = a
    BY <1>1, <1>2
  <2> QED
    BY <2>1
<1>3. CASE k > 0
  <2>1. x # <<>> /\ Len(x) = n + k /\ x[n + k] = Piece(a + k)
    BY <1>1, <1>3 DEF Follows
  <2>2. ASSUME NEW r \in Nat, a + k = 2 * r PROVE x[n + k][2] = "end"
    <3>1. r \in Nat \ {0}
      BY <1>3, <2>2
    <3>2. a + k \in Nat \ {0}
      BY <1>3
    <3>3. Piece(a + k)[2] = "end"
      BY <2>2, <3>1, <3>2, PieceIs
    <3> QED
      BY <2>1, <3>3
  <2>3. ASSUME NEW r \in Nat, a + k = 2 * r - 1
        PROVE  x[n + k] = <<r, "front">> /\ (n + k > 1 => x[n + k - 1][2] = "end" \/ r \in cut)
    <3>1. r \in Nat \ {0}
      BY <1>3, <2>3
    <3>5. a + k \in Nat \ {0}
      BY <1>3
    <3>6. Piece(a + k) = <<r, "front">>
      BY <2>3, <3>1, <3>5, PieceIs
    <3>2. x[n + k] = <<r, "front">>
      BY <2>1, <3>6
    <3>3. CASE k > 1
      <4>1. r - 1 \in Nat \ {0} /\ a + (k - 1) = 2 * (r - 1)
        BY <2>3, <3>1, <3>3
      <4>2. k - 1 \in 1 .. k /\ n + (k - 1) = n + k - 1
        BY <3>3
      <4>3. x[n + (k - 1)] = Piece(a + (k - 1))
        BY <1>1, <4>2 DEF Follows
      <4>4. a + (k - 1) \in Nat \ {0}
        BY <3>3
      <4>5. Piece(a + (k - 1))[2] = "end"
        BY <4>1, <4>4, PieceIs
      <4>6. x[n + k - 1][2] = "end"
        BY <4>2, <4>3, <4>5
      <4> QED
        BY <3>2, <4>6
    <3>4. CASE k = 1
      <4>1. r - 1 \in Nat /\ a = 2 * (r - 1) /\ (r - 1) + 1 = r /\ n + k - 1 = n
        BY <2>3, <3>1, <3>4
      <4>2. p = <<>> \/ p[n][2] = "end" \/ r \in cut
        BY <4>1 DEF Ready
      <4>3. n > 0 => x[n] = p[n]
        BY <1>1
      <4> QED
        BY <1>1, <3>2, <3>4, <4>1, <4>2, <4>3
    <3> QED
      BY <1>3, <3>3, <3>4
  <2>5. \A r \in Nat : /\ a + k = 2 * r => x[Len(x)][2] = "end"
                       /\ a + k = 2 * r - 1 => /\ x[Len(x)] = <<r, "front">>
                                               /\ Len(x) > 1 => x[Len(x) - 1][2] = "end" \/ r \in cut
    <3> PICK m \in Nat : m = n + k
      OBVIOUS
    <3>1. Len(x) = m
      BY <2>1
    <3>2. \A r \in Nat : a + k = 2 * r => x[m][2] = "end"
      BY <2>2
    <3>3. \A r \in Nat : a + k = 2 * r - 1 => x[m] = <<r, "front">> /\ (m > 1 => x[m - 1][2] = "end" \/ r \in cut)
      <4>1. n + k = m /\ n + k - 1 = m - 1
        OBVIOUS
      <4> QED
        BY <2>3, <4>1, Zenon
    <3> QED
      BY <3>1, <3>2, <3>3
  <2>4. Ready(x, a + k, cut)
    BY <2>1, <2>5 DEF Ready
  <2> QED
    BY <2>4
<1> QED
  BY <1>2, <1>3

\* The line of record r begins at place i.
LineAt(p, i, r) ==
  /\ p[i] = <<r, "front">> /\ p[i + 1] = <<r, "end">>
  /\ i > 1 => p[i - 1][2] = "end"

LEMMA WholeLineAt ==
  ASSUME NEW p, NEW r
  PROVE  r \in WholeLines(p) <=> r \in Records /\ \E i \in 1 .. Len(p) - 1 : LineAt(p, i, r)
  BY DEF WholeLines, LineAt

\* A record whose end is among the new pieces can be read then.
LEMMA LineLands ==
  ASSUME NEW p \in File, NEW q \in File, NEW a \in Nat, NEW cut, Ready(p, a, cut), Follows(q, a),
         NEW r \in Records, a < 2 * r, 2 * r <= a + Len(q)
  PROVE  r \in WholeLines(p \o q) \cup cut
<1> PICK n \in Nat : n = Len(p)
  BY LastAppended
<1> PICK k \in Nat : k = Len(q)
  BY LastAppended
<1> PICK x : x = p \o q
  OBVIOUS
<1>1. /\ Len(x) = n + k /\ (p = <<>> <=> n = 0)
      /\ \A i \in 1 .. n : x[i] = p[i]
      /\ \A i \in 1 .. k : x[n + i] = Piece(a + i)
  BY LastAppended, FileAppended DEF Follows
<1>2. r \in Nat \ {0} /\ Piece(2 * r - 1) = <<r, "front">> /\ Piece(2 * r) = <<r, "end">>
  <2>1. r \in Nat \ {0}
    BY DEF Records
  <2> QED
    BY <2>1, PieceOfRecord
<1>6. SUFFICES ASSUME r \notin cut PROVE r \in WholeLines(x)
  OBVIOUS
<1>3. SUFFICES \E i \in 1 .. Len(x) - 1 : LineAt(x, i, r)
  BY WholeLineAt
<1>4. CASE 2 * r - 1 = a
  <2>1. p # <<>> /\ p[n] = <<r, "front">> /\ (n > 1 => p[n - 1][2] = "end")
    BY <1>2, <1>6, <1>4 DEF Ready
  <2>2. n \in 1 .. n /\ 1 \in 1 .. k /\ a + 1 = 2 * r /\ (n > 1 => n - 1 \in 1 .. n)
    BY <1>1, <1>2, <1>4, <2>1
  <2>3. LineAt(x, n, r)
    BY <1>1, <1>2, <2>1, <2>2 DEF LineAt
  <2>4. n \in 1 .. Len(x) - 1
    BY <1>1, <2>2
  <2> QED
    BY <2>3, <2>4
<1>5. CASE 2 * r - 1 > a
  <2> DEFINE i == 2 * r - 1 - a
  <2>1. i \in 1 .. k /\ i + 1 \in 1 .. k /\ a + i = 2 * r - 1 /\ a + (i + 1) = 2 * r /\ n + i \in 1 .. n + k - 1
    BY <1>2, <1>5
  <2>2. x[n + i] = <<r, "front">> /\ x[n + i + 1] = <<r, "end">>
    <3>1. n + (i + 1) = n + i + 1
      BY <2>1
    <3>2. x[n + i] = Piece(a + i) /\ x[n + (i + 1)] = Piece(a + (i + 1))
      BY <1>1, <2>1
    <3> QED
      BY <1>2, <2>1, <3>1, <3>2
  <2>3. n + i > 1 => x[n + i - 1][2] = "end"
    <3>1. CASE i > 1
      <4>1. i - 1 \in 1 .. k /\ n + (i - 1) = n + i - 1 /\ r - 1 \in Nat \ {0} /\ a + (i - 1) = 2 * (r - 1)
        BY <1>2, <2>1, <3>1
      <4>2. x[n + (i - 1)] = Piece(a + (i - 1))
        BY <1>1, <4>1
      <4>3. Piece(2 * (r - 1)) = <<r - 1, "end">>
        BY <4>1, PieceOfRecord
      <4> QED
        BY <4>1, <4>2, <4>3
    <3>2. CASE i = 1
      <4>1. r - 1 \in Nat /\ a = 2 * (r - 1) /\ (r - 1) + 1 = r /\ n + i - 1 = n
        BY <1>2, <2>1, <3>2
      <4>2. p = <<>> \/ p[n][2] = "end"
        BY <1>6, <4>1 DEF Ready
      <4>3. n > 0 => x[n] = p[n]
        BY <1>1
      <4>4. n > 0 => n + i - 1 = n /\ x[n][2] = "end"
        BY <1>1, <4>1, <4>2, <4>3
      <4>5. n + i > 1 => n > 0
        BY <3>2
      <4> QED
        BY <4>4, <4>5
    <3>3. i > 1 \/ i = 1
      BY <2>1
    <3> QED
      BY <3>1, <3>2, <3>3
  <2> PICK m \in Nat : m = n + i
    BY <2>1
  <2>4. LineAt(x, m, r)
    <3>1. x[m] = <<r, "front">> /\ x[m + 1] = <<r, "end">> /\ (m > 1 => x[m - 1][2] = "end")
      <4>1. n + i = m /\ n + i + 1 = m + 1 /\ n + i - 1 = m - 1
        BY <2>1
      <4> HIDE DEF i
      <4> QED
        BY <2>2, <2>3, <4>1, Zenon
    <3> QED
      BY <3>1 DEF LineAt
  <2>5. m \in 1 .. Len(x) - 1
    BY <1>1, <2>1
  <2> QED
    BY <2>4, <2>5
<1>7. 2 * r - 1 >= a
  BY <1>2
<1>8. 2 * r - 1 = a \/ 2 * r - 1 > a
  BY <1>2, <1>7
<1> QED
  BY <1>4, <1>5, <1>8

\* What can be read then and could not before has its end among the new pieces.
LEMMA LineWasThere ==
  ASSUME NEW p \in File, NEW q \in File, NEW a \in Nat, Follows(q, a),
         NEW r \in WholeLines(p \o q), r \notin WholeLines(p)
  PROVE  a < 2 * r /\ 2 * r <= a + Len(q)
<1> PICK n \in Nat : n = Len(p)
  BY LastAppended
<1> PICK k \in Nat : k = Len(q)
  BY LastAppended
<1> PICK x : x = p \o q
  OBVIOUS
<1>1. /\ Len(x) = n + k
      /\ \A i \in 1 .. n : x[i] = p[i]
      /\ \A i \in 1 .. k : x[n + i] = Piece(a + i)
  BY LastAppended, FileAppended DEF Follows
<1>2. PICK i \in 1 .. n + k - 1 : LineAt(x, i, r)
  <2>1. Len(x) = n + k
    BY <1>1
  <2>2. \E i \in 1 .. Len(x) - 1 : LineAt(x, i, r)
    BY WholeLineAt
  <2> QED
    BY <2>1, <2>2
<1>3. r \in Records /\ r \in Nat \ {0}
  BY DEF WholeLines, Records
<1>4. i + 1 > n
  <2> SUFFICES ASSUME i + 1 <= n PROVE FALSE
    BY <1>2
  <2>1. i \in 1 .. n /\ i + 1 \in 1 .. n /\ (i > 1 => i - 1 \in 1 .. n) /\ i \in 1 .. n - 1
    OBVIOUS
  <2>2. LineAt(p, i, r)
    BY <1>1, <1>2, <2>1 DEF LineAt
  <2>3. i \in 1 .. Len(p) - 1
    BY <2>1
  <2> QED
    BY <1>3, <2>2, <2>3, WholeLineAt
<1>5. i + 1 - n \in 1 .. k /\ n + (i + 1 - n) = i + 1
  BY <1>4
<1> PICK j \in 1 .. k : j = i + 1 - n
  BY <1>5
<1>6. Piece(a + j) = <<r, "end">>
  BY <1>1, <1>2, <1>5 DEF LineAt
<1>7. a + j \in Nat \ {0}
  OBVIOUS
<1>9. a + j = 2 * r
  BY <1>3, <1>6, <1>7, PieceIs
<1> QED
  BY <1>9

-----------------------------------------------------------------------------
(* The processes, one after the other.                                     *)

\* Records are of one life if no process began between them.
SameLife(q, r) == \A m \in 1 .. life : first[m] <= r => first[m] <= q

\* Each record has a process that wrote it, the last that began before it.
LivesKnown ==
  /\ \A l \in 1 .. life : 1 <= first[l] /\ first[l] <= count + 1
  /\ \A l, m \in 1 .. life : l <= m => first[l] <= first[m]
  /\ \A r \in 1 .. count : \E l \in 1 .. life :
       first[l] <= r /\ \A m \in l + 1 .. life : first[m] > r

LEMMA LivesInit == Init => LivesKnown
  BY DEF Init, LivesKnown

LEMMA LivesNext ==
  ASSUME Placed, Placed', LivesKnown, [Next]_vars
  PROVE  LivesKnown'
<1> USE DEF writer, disk, history
<1>0. life \in Nat /\ count \in Nat /\ first \in [Lives -> Nat] /\ \A l \in 1 .. life : l \in Lives
  BY OutputFileAssumption DEF Placed, Typed, Lives
<1>1. CASE Start
  <2>1. life' = life + 1 /\ life + 1 \in Lives /\ count' = count /\ first' = [first EXCEPT ![life + 1] = count + 1]
    BY <1>1, <1>0, OutputFileAssumption DEF Start, Placed, Typed, Lives
  <2>2. first'[life + 1] = count + 1 /\ \A l \in 1 .. life : first'[l] = first[l] /\ first[l] \in Nat
    BY <1>0, <2>1
  <2>3. \A l \in 1 .. life' : l \in 1 .. life \/ l = life + 1
    BY <1>0, <2>1
  <2>4. \A l \in 1 .. life' : 1 <= first'[l] /\ first'[l] <= count' + 1
    BY <1>0, <2>1, <2>2, <2>3 DEF LivesKnown
  <2>5. \A l, m \in 1 .. life' : l <= m => first'[l] <= first'[m]
    BY <1>0, <2>1, <2>2, <2>3 DEF LivesKnown
  <2>6. ASSUME NEW r \in 1 .. count' PROVE \E l \in 1 .. life' : first'[l] <= r /\ \A m \in l + 1 .. life' : first'[m] > r
    <3>1. r \in 1 .. count
      BY <2>1, <2>6
    <3>2. PICK l \in 1 .. life : first[l] <= r /\ \A m \in l + 1 .. life : first[m] > r
      BY <3>1 DEF LivesKnown
    <3>3. l \in 1 .. life' /\ first'[l] <= r
      BY <1>0, <2>1, <2>2, <3>2
    <3>4. ASSUME NEW m \in l + 1 .. life' PROVE first'[m] > r
      <4>1. m \in l + 1 .. life \/ m = life + 1
        BY <1>0, <2>1
      <4> QED
        BY <1>0, <2>2, <3>1, <3>2, <4>1
    <3> QED
      BY <3>3, <3>4
  <2> QED
    BY <2>4, <2>5, <2>6 DEF LivesKnown
<1>2. CASE WriteBatch \/ WriteFails
  <2>1. life' = life /\ first' = first /\ count' \in Nat /\ count <= count' /\ life > 0
    BY <1>0, <1>2 DEF WriteBatch, WriteFails, Placed, Typed, Numbers
  <2>2. ASSUME NEW r \in 1 .. count' PROVE \E l \in 1 .. life' : first'[l] <= r /\ \A m \in l + 1 .. life' : first'[m] > r
    <3>1. CASE r <= count
      BY <1>0, <2>1, <3>1 DEF LivesKnown
    <3>2. CASE r > count
      <4>1. life \in 1 .. life' /\ first[life] <= r /\ life + 1 .. life' = {}
        BY <1>0, <2>1, <3>2 DEF LivesKnown
      <4> QED
        BY <2>1, <4>1
    <3> QED
      BY <1>0, <3>1, <3>2
  <2> QED
    BY <1>0, <2>1, <2>2 DEF LivesKnown
<1>3. CASE ~Start /\ ~WriteBatch /\ ~WriteFails
  <2>1. life' = life /\ first' = first /\ count' = count
    BY <1>3 DEF Next, Writer, RotateFlush, RotateOpen, RotateFails, Close, ProcessEnds,
                Zip, ZipBegin, ZipCopy, ZipRemove, ZipFails, vars
  <2> QED
    BY <2>1 DEF LivesKnown
<1> QED
  BY <1>1, <1>2, <1>3

LEMMA AlwaysLivesKnown == Spec => []LivesKnown
  BY LivesInit, LivesNext, AlwaysPlaced, PTL DEF Spec

-----------------------------------------------------------------------------
(* How far the stream has come: a of its pieces have gone to the files.    *)

UpTo(p, a) == \A i \in DOMAIN p : \E j \in 1 .. a : p[i] = Piece(j)

Position(a) ==
  /\ a \in Nat /\ (life > 0 => 2 * (first[life] - 1) <= a)
  /\ a + Len(buf) <= 2 * count
  /\ wpc \notin {"dead", "down"} => a + Len(buf) = 2 * count
  /\ Follows(buf, a)
OnDisk(a) == \A s \in Seqs : UpTo(jsonl[s], a) /\ UpTo(gz[s].data, a)
Tip(a) == wpc \notin {"dead", "down"} \/ buf # <<>> => Ready(jsonl[seq], a, spoilt)

\* The records of this process that are past the buffer can be read.
Landed(a) ==
  fresh /\ life > 0 => \A q \in Records : first[life] <= q /\ 2 * q <= a => q \in Readable \cup spoilt

StreamAt(a) == Position(a) /\ OnDisk(a) /\ Tip(a) /\ Landed(a)
Stream == \E a \in Nat : StreamAt(a)

LEMMA UpToAppended ==
  ASSUME NEW p \in File, NEW q \in File, NEW a \in Nat, UpTo(p, a), Follows(q, a)
  PROVE  UpTo(p \o q, a + Len(q))
<1> PICK n \in Nat : n = Len(p)
  BY LastAppended
<1> PICK k \in Nat : k = Len(q)
  BY LastAppended
<1> PICK x : x = p \o q
  OBVIOUS
<1>1. /\ x \in File /\ Len(x) = n + k
      /\ \A i \in 1 .. n : x[i] = p[i]
      /\ \A i \in 1 .. k : x[n + i] = Piece(a + i)
  BY LastAppended, FileAppended DEF Follows
<1>2. DOMAIN x = 1 .. n + k /\ DOMAIN p = 1 .. n
  BY <1>1 DEF File
<1>3. ASSUME NEW i \in 1 .. n + k PROVE \E j \in 1 .. a + k : x[i] = Piece(j)
  <2>1. CASE i <= n
    <3>1. i \in 1 .. n
      BY <2>1
    <3>2. PICK j \in 1 .. a : p[i] = Piece(j)
      BY <1>2, <3>1 DEF UpTo
    <3>3. j \in 1 .. a + k
      OBVIOUS
    <3> QED
      BY <1>1, <3>1, <3>2, <3>3
  <2>2. CASE i > n
    <3> PICK e \in 1 .. k : i = n + e
      <4>1. i - n \in 1 .. k /\ i = n + (i - n)
        BY <2>2
      <4> QED
        BY <4>1
    <3>1. x[i] = Piece(a + e) /\ a + e \in 1 .. a + k
      BY <1>1
    <3> QED
      BY <3>1
  <2> QED
    BY <2>1, <2>2
<1>4. UpTo(x, a + k)
  BY <1>2, <1>3 DEF UpTo
<1> QED
  BY <1>4

LEMMA UpToMore ==
  ASSUME NEW p, NEW a \in Nat, NEW b \in Nat, a <= b, UpTo(p, a)
  PROVE  UpTo(p, b)
<1> SUFFICES ASSUME NEW i \in DOMAIN p PROVE \E j \in 1 .. b : p[i] = Piece(j)
  BY DEF UpTo
<1>1. PICK j \in 1 .. a : p[i] = Piece(j)
  BY DEF UpTo
<1>2. j \in 1 .. b
  OBVIOUS
<1> QED
  BY <1>1, <1>2

\* What a step of the writer gives out continues the stream.
LEMMA GivesOutTheStream ==
  ASSUME Placed, Placed', NEW a, StreamAt(a), NEW p \in File, NEW k \in 0 .. Len(p), AppendStep(p, k)
  PROVE  /\ Follows(p, a) /\ Position(a + k)'
         /\ Len(p) > 0 \/ wpc' \notin {"dead", "down"} => Ready(jsonl[seq], a, spoilt)
<1>1. /\ a \in Nat /\ buf \in File /\ Len(buf) \in Nat /\ Len(p) \in Nat /\ count \in Nat
      /\ a + Len(buf) <= 2 * count /\ Follows(buf, a)
      /\ wpc \notin {"dead", "down"} => a + Len(buf) = 2 * count
  BY LastAppended DEF StreamAt, Position, Placed, Typed
<1>2. count' \in Nat /\ count <= count' /\ Len(buf) <= Len(p) /\ Len(p) <= Len(buf) + 2 * (count' - count)
  BY DEF AppendStep, Continues
<1>3. Len(p) > Len(buf) => wpc = "idle" /\ a + Len(buf) = 2 * count
  BY <1>1, <1>2 DEF AppendStep, Continues
<1>4. Follows(p, a)
  <2> SUFFICES ASSUME NEW i \in 1 .. Len(p) PROVE p[i] = Piece(a + i)
    BY DEF Follows
  <2>1. CASE i <= Len(buf)
    <3>1. i \in 1 .. Len(buf)
      BY <1>1, <2>1
    <3> QED
      BY <1>1, <3>1 DEF Follows, AppendStep, Continues
  <2>2. CASE i > Len(buf)
    <3>1. i \in Len(buf) + 1 .. Len(p) /\ 2 * count + (i - Len(buf)) = a + i
      BY <1>1, <1>3, <2>2
    <3>2. p[i] = Piece(2 * count + (i - Len(buf)))
      BY <3>1 DEF AppendStep, Continues
    <3> QED
      BY <3>1, <3>2
  <2> QED
    BY <1>1, <2>1, <2>2
<1>5. Len(p) > 0 \/ wpc' \notin {"dead", "down"} => Ready(jsonl[seq], a, spoilt)
  <2>1. wpc' \notin {"dead", "down"} => wpc \notin {"dead", "down"}
    BY DEF AppendStep, Continues, Passed
  <2>2. Len(p) > 0 => buf # <<>> \/ wpc = "idle"
    BY <1>1, <1>3, LastAppended
  <2> QED
    BY <2>1, <2>2 DEF StreamAt, Tip
<1>6. Position(a + k)'
  <2> PICK b : b = buf'
    OBVIOUS
  <2>1. b \in File /\ Len(b) \in Nat
    BY LastAppended DEF Placed, Typed
  <2>2. /\ Len(b) <= Len(p) - k
        /\ wpc' \notin {"dead", "down"} => Len(b) = Len(p) - k
        /\ \A i \in 1 .. Len(b) : b[i] = p[k + i]
    BY DEF AppendStep, Kept
  <2>3. wpc' \notin {"dead", "down"} => a + Len(buf) = 2 * count /\ Len(p) = Len(buf) + 2 * (count' - count)
    BY <1>1 DEF AppendStep, Continues, Passed
  <2>4. k \in Nat /\ a + k \in Nat
    BY <1>1
  <2>5. a + k + Len(b) <= 2 * count' /\ (wpc' \notin {"dead", "down"} => a + k + Len(b) = 2 * count')
    <3>1. PICK B \in Nat : B = Len(buf)
      BY <1>1
    <3>2. PICK C \in Nat : C = count
      BY <1>1
    <3>3. PICK D \in Nat : D = count'
      BY <1>2
    <3>4. PICK L \in Nat : L = Len(b)
      BY <2>1
    <3>5. PICK P \in Nat : P = Len(p)
      BY <1>1
    <3>6. a + B <= 2 * C /\ P <= B + 2 * (D - C) /\ L <= P - k
      BY <1>1, <1>2, <2>2, <3>1, <3>2, <3>3, <3>4, <3>5
    <3>7. wpc' \notin {"dead", "down"} => a + B = 2 * C /\ P = B + 2 * (D - C) /\ L = P - k
      BY <2>2, <2>3, <3>1, <3>2, <3>3, <3>4, <3>5
    <3>8. a \in Nat /\ k \in Nat
      BY <1>1
    <3>9. a + k + L <= 2 * D /\ (wpc' \notin {"dead", "down"} => a + k + L = 2 * D)
      BY <3>6, <3>7, <3>8
    <3> QED
      BY <3>3, <3>4, <3>9
  <2>6. ASSUME NEW i \in 1 .. Len(b) PROVE b[i] = Piece(a + k + i)
    <3>1. k + i \in 1 .. Len(p) /\ a + (k + i) = a + k + i
      BY <1>1, <2>1, <2>2, <2>4
    <3> QED
      BY <1>4, <2>2, <3>1 DEF Follows
  <2>7. life' > 0 => 2 * (first'[life'] - 1) <= a + k
    <3>1. life' = life /\ first' = first
      BY DEF AppendStep, Passed, history
    <3>2. life > 0 => first[life] \in Nat /\ 2 * (first[life] - 1) <= a
      BY OutputFileAssumption DEF StreamAt, Position, Placed, Typed, Lives
    <3> QED
      BY <1>1, <2>4, <3>1, <3>2
  <2> QED
    BY <2>4, <2>5, <2>6, <2>7 DEF Position, Follows
<1> QED
  BY <1>4, <1>5, <1>6

LEMMA StreamWriting ==
  ASSUME Placed, Placed', Zipping, [Next]_vars,
         NEW a, StreamAt(a), NEW p \in File, NEW k \in 0 .. Len(p), AppendStep(p, k)
  PROVE  StreamAt(a + k)'
<1> PICK new : new = SubSeq(p, 1, k)
  OBVIOUS
<1>1. Follows(p, a) /\ Position(a + k)' /\ (Len(p) > 0 \/ wpc' \notin {"dead", "down"} => Ready(jsonl[seq], a, spoilt))
  BY GivesOutTheStream
<1>2. a \in Nat /\ k \in Nat /\ new \in File /\ Len(new) = k
  BY FileCut DEF StreamAt, Position
<1>3. Follows(new, a)
  BY <1>1, <1>2, FileCut DEF Follows
<1>4. /\ jsonl'[seq] = jsonl[seq] \o new /\ jsonl[seq] \in File /\ \A s \in Seqs : s # seq => jsonl'[s] = jsonl[s]
      /\ seq \in Seqs /\ gz' = gz /\ seq' = seq /\ spoilt' = spoilt /\ fresh' = fresh /\ life' = life /\ first' = first
  BY InSeqs DEF AppendStep, Passed, Placed, Typed, history
<1>5. ASSUME NEW s \in Seqs PROVE UpTo(jsonl'[s], a + k) /\ UpTo(gz'[s].data, a + k)
  <2>1. UpTo(jsonl[s], a) /\ UpTo(gz[s].data, a)
    BY DEF StreamAt, OnDisk
  <2>2. UpTo(jsonl[s], a + k) /\ UpTo(gz[s].data, a + k)
    BY <1>2, <2>1, UpToMore
  <2>3. UpTo(jsonl[seq], a) => UpTo(jsonl[seq] \o new, a + k)
    BY <1>2, <1>3, <1>4, UpToAppended
  <2> QED
    BY <1>4, <2>1, <2>2, <2>3
<1>6. OnDisk(a + k)'
  BY <1>5 DEF OnDisk, UpTo
<1>7. Tip(a + k)'
  <2> SUFFICES ASSUME wpc' \notin {"dead", "down"} \/ buf' # <<>> PROVE Ready(jsonl'[seq], a + k, spoilt)
    BY <1>4 DEF Tip, Ready
  <2>1. buf' # <<>> => Len(p) > 0
    <3> PICK b : b = buf'
      OBVIOUS
    <3>1. b \in File /\ Len(b) \in Nat /\ (b = <<>> <=> Len(b) = 0) /\ Len(b) <= Len(p) - k /\ Len(p) \in Nat
      BY LastAppended DEF AppendStep, Kept, Placed, Typed
    <3> QED
      BY <1>2, <3>1
  <2>2. Ready(jsonl[seq], a, spoilt)
    BY <1>1, <2>1
  <2> QED
    BY <1>2, <1>3, <1>4, <2>2, ReadyAfter
<1>8. Landed(a + k)'
  <2> SUFFICES ASSUME fresh', life' > 0, NEW q \in Records, first'[life'] <= q, 2 * q <= a + k
               PROVE  q \in Readable' \cup spoilt'
    BY DEF Landed
  <2>1. fresh /\ Readable \subseteq Readable'
    BY ReadableGrows
  <2>2. CASE 2 * q <= a
    BY <1>4, <2>1, <2>2 DEF StreamAt, Landed
  <2>3. CASE a < 2 * q
    <3>1. Len(p) > 0
      BY <1>2, <2>3 DEF Records
    <3>2. q \in WholeLines(jsonl[seq] \o new) \cup spoilt
      BY <1>1, <1>2, <1>3, <1>4, <2>3, <3>1, LineLands
    <3>3. WholeLines(jsonl'[seq]) \subseteq Readable'
      <4>1. seq \in Seqs
        BY <1>4
      <4>2. \A s \in Seqs : WholeLines(jsonl'[s]) \subseteq Readable'
        BY DEF Readable
      <4> QED
        BY <4>1, <4>2
    <3> QED
      BY <1>4, <3>2, <3>3
  <2> QED
    BY <1>2, <2>2, <2>3 DEF Records
<1> QED
  BY <1>1, <1>6, <1>7, <1>8 DEF StreamAt

\* A file as it is opened.
LEMMA ReadyWhenOpened ==
  ASSUME Placed, NEW s \in Seqs, OpenAppend(s)
  PROVE  Ready(jsonl[s], 2 * count, spoilt') /\ spoilt \subseteq spoilt'
<1>1. spoilt \subseteq spoilt'
  BY DEF OpenAppend
<1>2. jsonl[s] # <<>> => Len(jsonl[s]) \in 1 .. Len(jsonl[s]) /\ jsonl[s][Len(jsonl[s])][2] \in Kinds
  <2> PICK p : p = jsonl[s]
    OBVIOUS
  <2>1. p \in File
    BY DEF Placed, Typed
  <2>2. p # <<>> => Len(p) \in 1 .. Len(p)
    BY <2>1, LastAppended
  <2>3. \A i \in 1 .. Len(p) : p[i] \in (Nat \ {0}) \X Kinds
    BY <2>1 DEF File
  <2> QED
    BY <2>2, <2>3
<1>3. jsonl[s] = <<>> \/ jsonl[s][Len(jsonl[s])][2] = "end" \/ count + 1 \in spoilt'
  BY <1>2 DEF OpenAppend, Kinds
<1>4. count \in Nat /\ \A r \in Nat : (2 * count = 2 * r => r = count) /\ 2 * count # 2 * r - 1
  BY DEF Placed, Typed
<1> QED
  BY <1>1, <1>3, <1>4 DEF Ready

LEMMA StreamInit == Init => StreamAt(0)
<1> SUFFICES ASSUME Init PROVE StreamAt(0)
  OBVIOUS
<1>1. Position(0)
  BY EmptySeq DEF Init, Position, Follows
<1>2. OnDisk(0)
  BY DEF Init, OnDisk, UpTo, NoGz
<1> QED
  BY <1>1, <1>2 DEF Init, StreamAt, Tip, Landed

LEMMA StreamStart ==
  ASSUME Placed, Placed', Zipping, NEW a, StreamAt(a), Start, NEW b, b = 2 * count
  PROVE  StreamAt(b)'
<1>1. /\ a \in Nat /\ a <= 2 * count /\ count \in Nat /\ life \in Nat /\ life + 1 \in Lives
      /\ first \in [Lives -> Nat] /\ seq' = 1 /\ 1 \in Seqs
  <2>1. a \in Nat /\ a + Len(buf) <= 2 * count /\ Len(buf) \in Nat
    BY LastAppended DEF StreamAt, Position, Placed, Typed
  <2> QED
    BY <2>1, OutputFileAssumption DEF Start, Placed, Typed, Lives, Seqs
<1>2. /\ life' = life + 1 /\ first'[life + 1] = count + 1 /\ count' = count /\ buf' = <<>> /\ wpc' = "idle"
      /\ jsonl' = jsonl /\ gz' = gz /\ OpenAppend(1)
  BY <1>1 DEF Start, disk
<1>3. Position(b)'
  BY <1>1, <1>2, EmptySeq DEF Position, Follows
<1>4. OnDisk(b)'
  <2> SUFFICES ASSUME NEW s \in Seqs PROVE UpTo(jsonl'[s], b) /\ UpTo(gz'[s].data, b)
    BY <1>2 DEF OnDisk
  <2>1. UpTo(jsonl[s], a) /\ UpTo(gz[s].data, a)
    BY DEF StreamAt, OnDisk
  <2>2. b \in Nat
    BY <1>1
  <2> QED
    BY <1>1, <1>2, <2>1, <2>2, UpToMore
<1>5. Tip(b)'
  <2>1. Ready(jsonl[1], b, spoilt')
    BY <1>1, <1>2, ReadyWhenOpened
  <2> QED
    BY <1>1, <1>2, <2>1 DEF Tip
<1>6. Landed(b)'
  BY <1>1, <1>2 DEF Landed, Records
<1> QED
  BY <1>3, <1>4, <1>5, <1>6 DEF StreamAt

LEMMA StreamRotateOpen ==
  ASSUME Placed, Placed', NEW a, StreamAt(a), RotateOpen
  PROVE  a = 2 * count /\ StreamAt(a)'
<1>1. /\ a \in Nat /\ a = 2 * count /\ seq' = seq + 1 /\ seq + 1 \in Seqs /\ Len(<<>>) = 0
      /\ wpc = "open" /\ wpc' = "idle" /\ buf = <<>> /\ OpenAppend(seq + 1)
      /\ UNCHANGED <<life, buf, jsonl, gz, count, first, fresh>>
  BY EmptySeq, InSeqs DEF RotateOpen, StreamAt, Position, Placed, Typed, Numbers, disk
<1>2. Position(a)'
  BY <1>1 DEF StreamAt, Position, Follows
<1>3. OnDisk(a)'
  BY <1>1 DEF StreamAt, OnDisk
<1>4. Ready(jsonl[seq + 1], 2 * count, spoilt') /\ spoilt \subseteq spoilt'
  BY <1>1, ReadyWhenOpened
<1>5. Tip(a)'
  BY <1>1, <1>4 DEF Tip
<1>6. Landed(a)'
  BY <1>1, <1>4 DEF StreamAt, Landed, Readable
<1> QED
  BY <1>1, <1>2, <1>3, <1>5, <1>6 DEF StreamAt

LEMMA StreamZip ==
  ASSUME Placed, Placed', Zipping, NEW a, StreamAt(a), NEW t \in Seqs, Zip(t)
  PROVE  StreamAt(a)'
<1>1. /\ UNCHANGED <<life, writer, count, history>> /\ seq \in Nat
      /\ \A s \in Seqs : s # t => jsonl'[s] = jsonl[s] /\ gz'[s] = gz[s]
      /\ jsonl'[t] = jsonl[t] \/ jsonl'[t] = <<>>
      /\ gz'[t] = gz[t] \/ gz'[t].data = <<>> \/ gz'[t].data = jsonl[t] \/ Starts(gz'[t].data, jsonl[t])
  BY ZipStep DEF Placed, Typed
<1>2. t # seq /\ seq \in Seqs
  <2>1. zip[t] # "none"
    BY DEF Zip, ZipBegin, ZipCopy, ZipRemove, ZipFails
  <2> QED
    BY <1>1, <2>1, InSeqs DEF Zipping, ZipsAt, Seqs
<1>3. Position(a)'
  BY <1>1 DEF StreamAt, Position, writer, history, Follows
<1>4. OnDisk(a)'
  <2>1. UpTo(<<>>, a)
    BY DEF UpTo
  <2> SUFFICES ASSUME NEW s \in Seqs PROVE UpTo(jsonl'[s], a) /\ UpTo(gz'[s].data, a)
    BY DEF OnDisk
  <2>2. UpTo(jsonl[s], a) /\ UpTo(gz[s].data, a)
    BY DEF StreamAt, OnDisk
  <2>3. Starts(gz'[t].data, jsonl[t]) => UpTo(gz'[t].data, a)
    BY StartsTwice DEF StreamAt, OnDisk, UpTo
  <2>4. UpTo(jsonl[t], a)
    BY DEF StreamAt, OnDisk
  <2> QED
    BY <1>1, <2>1, <2>2, <2>3, <2>4
<1>5. Tip(a)'
  <2>1. jsonl'[seq] = jsonl[seq] /\ seq' = seq /\ wpc' = wpc /\ buf' = buf /\ spoilt' = spoilt
    BY <1>1, <1>2 DEF writer, history
  <2> QED
    BY <2>1 DEF StreamAt, Tip
<1>6. Landed(a)'
  <2>1. fresh' => Readable \subseteq Readable'
    BY <1>1, ReadableAfterZip DEF history
  <2> QED
    BY <1>1, <2>1 DEF StreamAt, Landed, history
<1> QED
  BY <1>3, <1>4, <1>5, <1>6 DEF StreamAt

\* The steps that move no piece.
LEMMA StreamStays ==
  ASSUME Placed, Placed', NEW a, StreamAt(a), RotateFails \/ UNCHANGED vars
  PROVE  StreamAt(a)'
<1>1. CASE RotateFails
  <2>1. /\ UNCHANGED <<life, buf, jsonl, gz, count, first, spoilt, fresh>> /\ buf = <<>> /\ wpc' = "dead"
    BY <1>1 DEF RotateFails, disk, history, Placed, Numbers
  <2> QED
    BY <2>1 DEF StreamAt, Position, OnDisk, Tip, Landed, Readable, Follows
<1>2. CASE UNCHANGED vars
  BY <1>2 DEF vars, writer, disk, history, StreamAt, Position, OnDisk, Tip, Landed, Readable, Follows
<1> QED
  BY <1>1, <1>2

LEMMA StreamNext ==
  ASSUME Placed, Placed', Zipping, Stream, [Next]_vars
  PROVE  Stream'
<1>1. PICK a : StreamAt(a)
  BY DEF Stream
<1>2. a \in Nat /\ 2 * count \in Nat
  BY <1>1 DEF StreamAt, Position, Placed, Typed
<1>3. CASE Writing
  <2>1. PICK p \in File : \E k \in 0 .. Len(p) : AppendStep(p, k)
    BY <1>3, WritingAppends
  <2>2. PICK k \in 0 .. Len(p) : AppendStep(p, k)
    BY <2>1
  <2>3. StreamAt(a + k)'
    BY <1>1, <2>2, StreamWriting
  <2> QED
    BY <1>2, <2>3 DEF Stream
<1>4. CASE Start
  <2> PICK b \in Nat : b = 2 * count
    BY <1>2
  <2>1. StreamAt(b)'
    BY <1>1, <1>4, StreamStart
  <2> QED
    BY <2>1 DEF Stream
<1>5. CASE RotateOpen \/ RotateFails \/ UNCHANGED vars
  BY <1>1, <1>2, <1>5, StreamRotateOpen, StreamStays DEF Stream
<1>6. ASSUME NEW t \in Seqs, Zip(t) PROVE Stream'
  BY <1>1, <1>2, <1>6, StreamZip DEF Stream
<1> QED
  BY <1>3, <1>4, <1>5, <1>6 DEF Next, Writer, Writing

LEMMA AlwaysStream == Spec => []Stream
<1>1. Init => Stream
  BY StreamInit DEF Stream
<1> QED
  BY <1>1, StreamNext, AlwaysPlaced, AlwaysZipping, PTL DEF Spec

-----------------------------------------------------------------------------
(* What is missing from the files.                                         *)

\* No record is missing before one of the same process that is there.
Orderly ==
  fresh => \A r \in Readable, q \in 1 .. count :
    q < r /\ SameLife(q, r) => q \in Readable \cup spoilt

LEMMA ReadableIsPast ==
  ASSUME Placed, NEW a, StreamAt(a), NEW r \in Readable
  PROVE  r \in Nat \ {0} /\ 2 * r <= a /\ r <= count /\ r \in Records
<1>1. PICK s \in Seqs : r \in WholeLines(jsonl[s]) \/ r \in WholeLines(gz[s].data)
  BY DEF Readable
<1>2. ASSUME NEW p \in File, UpTo(p, a), r \in WholeLines(p)
      PROVE  r \in Records /\ \E j \in 1 .. a : Piece(j) = <<r, "end">>
  <2>1. r \in Records
    BY <1>2, WholeLineAt
  <2>2. PICK i \in 1 .. Len(p) - 1 : LineAt(p, i, r)
    BY <1>2, WholeLineAt
  <2>3. i + 1 \in DOMAIN p
    BY DEF File
  <2>4. PICK j \in 1 .. a : p[i + 1] = Piece(j)
    BY <1>2, <2>3 DEF UpTo
  <2> QED
    BY <2>1, <2>2, <2>4 DEF LineAt
<1>3. jsonl[s] \in File /\ gz[s].data \in File /\ UpTo(jsonl[s], a) /\ UpTo(gz[s].data, a)
  BY DEF Placed, Typed, Zipped, StreamAt, OnDisk
<1>4. r \in Records /\ \E j \in 1 .. a : Piece(j) = <<r, "end">>
  BY <1>1, <1>2, <1>3
<1>5. PICK j \in 1 .. a : Piece(j) = <<r, "end">>
  BY <1>4
<1>6. /\ a \in Nat /\ count \in Nat /\ Len(buf) \in Nat /\ a + Len(buf) <= 2 * count
  BY LastAppended DEF StreamAt, Position, Placed, Typed
<1>7. r \in Nat \ {0} /\ j \in Nat \ {0}
  BY <1>4, <1>6 DEF Records
<1>8. j = 2 * r
  BY <1>5, <1>7, PieceIs
<1> QED
  BY <1>4, <1>6, <1>7, <1>8

LEMMA NewlyReadable ==
  ASSUME Placed, Placed', NEW a, StreamAt(a), NEW p \in File, NEW k \in 0 .. Len(p), AppendStep(p, k),
         NEW r \in Readable', r \notin Readable
  PROVE  a < 2 * r /\ 2 * r <= a + k /\ r \in Records
<1> PICK new : new = SubSeq(p, 1, k)
  OBVIOUS
<1>1. a \in Nat /\ k \in Nat /\ new \in File /\ Len(new) = k
  BY FileCut DEF StreamAt, Position
<1>2. Follows(new, a)
  <2>1. Follows(p, a)
    BY GivesOutTheStream
  <2> QED
    BY <1>1, <2>1, FileCut DEF Follows
<1>3. /\ jsonl'[seq] = jsonl[seq] \o new /\ jsonl[seq] \in File /\ \A s \in Seqs : s # seq => jsonl'[s] = jsonl[s]
      /\ seq \in Seqs /\ gz' = gz
  BY InSeqs DEF AppendStep, Passed, Placed, Typed
<1>4. PICK s \in Seqs : r \in WholeLines(jsonl'[s]) \/ r \in WholeLines(gz'[s].data)
  BY DEF Readable
<1>5. \A t \in Seqs : r \notin WholeLines(jsonl[t]) /\ r \notin WholeLines(gz[t].data)
  BY DEF Readable
<1>6. r \in WholeLines(jsonl[seq] \o new) /\ r \notin WholeLines(jsonl[seq])
  BY <1>3, <1>4, <1>5
<1>7. r \in Records
  BY <1>6, WholeLineAt
<1>8. a < 2 * r /\ 2 * r <= a + Len(new)
  BY <1>1, <1>2, <1>3, <1>6, LineWasThere
<1> QED
  BY <1>1, <1>7, <1>8

LEMMA OrderlyWriting ==
  ASSUME Placed, Placed', Zipping, Orderly, [Next]_vars,
         NEW a, StreamAt(a), NEW p \in File, NEW k \in 0 .. Len(p), AppendStep(p, k)
  PROVE  Orderly'
<1> SUFFICES ASSUME fresh', NEW r \in Readable', NEW q \in 1 .. count', q < r, SameLife(q, r)'
             PROVE  q \in Readable' \cup spoilt'
  BY DEF Orderly
<1>1. fresh /\ Readable \subseteq Readable'
  BY ReadableGrows
<1>2. life' = life /\ first' = first /\ spoilt' = spoilt /\ wpc # "down"
  BY DEF AppendStep, Passed, history
<1>3. SameLife(q, r)
  BY <1>2 DEF SameLife
<1>4. CASE r \in Readable
  <2>1. r \in Nat /\ r <= count /\ count \in Nat
    BY <1>4, ReadableIsPast DEF Placed, Typed
  <2>2. q \in 1 .. count
    BY <2>1
  <2> QED
    BY <1>1, <1>2, <1>3, <1>4, <2>2 DEF Orderly
<1>5. CASE r \notin Readable
  <2>1. a < 2 * r /\ 2 * r <= a + k /\ r \in Nat
    BY <1>5, NewlyReadable DEF Records
  <2>2. life \in 1 .. life /\ first[life] \in Nat /\ a \in Nat /\ 2 * (first[life] - 1) <= a
    BY <1>2, OutputFileAssumption DEF StreamAt, Position, Placed, Typed, Numbers, Lives
  <2>3. first[life] <= r
    BY <2>1, <2>2
  <2>4. first[life] <= q
    BY <1>3, <2>2, <2>3 DEF SameLife
  <2>5. Landed(a + k)'
    BY StreamWriting DEF StreamAt
  <2>6. q \in Records
    BY OutputFileAssumption DEF Placed, Typed, Records
  <2>7. 2 * q <= a + k
    BY <2>1, <2>2, <2>6 DEF Records
  <2>8. life' > 0 /\ first'[life'] <= q
    BY <1>2, <2>2, <2>4
  <2> QED
    BY <2>5, <2>6, <2>7, <2>8 DEF Landed
<1> QED
  BY <1>4, <1>5

LEMMA OrderlyNext ==
  ASSUME Placed, Placed', Zipping, LivesKnown, Stream, Orderly, [Next]_vars
  PROVE  Orderly'
<1>1. PICK a : StreamAt(a)
  BY DEF Stream
<1>2. CASE Writing
  <2>1. PICK p \in File : \E k \in 0 .. Len(p) : AppendStep(p, k)
    BY <1>2, WritingAppends
  <2>2. PICK k \in 0 .. Len(p) : AppendStep(p, k)
    BY <2>1
  <2> QED
    BY <1>1, <2>2, OrderlyWriting
<1>3. CASE ~Writing
  <2>1. count' = count /\ spoilt \subseteq spoilt'
    BY <1>3 DEF Writing, Next, Writer, Start, RotateOpen, RotateFails, OpenAppend,
                Zip, ZipBegin, ZipCopy, ZipRemove, ZipFails, vars, history
  <2>2. Readable' \subseteq Readable
    <3>1. CASE jsonl' = jsonl /\ gz' = gz
      BY <3>1 DEF Readable
    <3>2. ASSUME NEW t \in Seqs, Zip(t) PROVE Readable' \subseteq Readable
      <4>1. \A s \in Seqs : s # t => jsonl'[s] = jsonl[s] /\ gz'[s] = gz[s]
        BY <3>2, ZipStep
      <4>2. /\ jsonl'[t] = jsonl[t] \/ jsonl'[t] = <<>>
            /\ \/ gz'[t] = gz[t] \/ gz'[t].data = <<>> \/ gz'[t].data = jsonl[t]
               \/ WholeLines(gz'[t].data) \subseteq WholeLines(jsonl[t])
        BY <3>2, ZipStep, FewerLines
      <4>3. \A s \in Seqs : WholeLines(jsonl'[s]) \cup WholeLines(gz'[s].data) \subseteq WholeLines(jsonl[s]) \cup WholeLines(gz[s].data)
        BY <4>1, <4>2, NoLines
      <4> QED
        BY <4>3 DEF Readable
    <3> QED
      BY <1>3, <3>1, <3>2 DEF Writing, Next, Writer, Start, RotateOpen, RotateFails, vars, disk
  <2>3. \A m \in 1 .. life : m \in 1 .. life' /\ first'[m] = first[m]
    <3>1. CASE Start
      BY <3>1, OutputFileAssumption DEF Start, Placed, Typed, Lives
    <3>2. CASE ~Start
      <4>1. life' = life /\ first' = first
        BY <1>3, <3>2 DEF Writing, Next, Writer, RotateOpen, RotateFails,
                          Zip, ZipBegin, ZipCopy, ZipRemove, ZipFails, vars, history
      <4> QED
        BY <4>1
    <3> QED
      BY <3>1, <3>2
  <2> SUFFICES ASSUME fresh', NEW r \in Readable', NEW q \in 1 .. count', q < r, SameLife(q, r)'
               PROVE  q \in Readable' \cup spoilt'
    BY DEF Orderly
  <2>4. SameLife(q, r)
    BY <2>3 DEF SameLife
  <2>5. fresh /\ Readable \subseteq Readable'
    BY ReadableGrows
  <2> QED
    BY <2>1, <2>2, <2>4, <2>5 DEF Orderly
<1> QED
  BY <1>2, <1>3

LEMMA AlwaysOrderly == Spec => []Orderly
<1>1. Init => Orderly
  BY NoLines DEF Init, Orderly
<1> QED
  BY <1>1, OrderlyNext, AlwaysPlaced, AlwaysZipping, AlwaysLivesKnown, AlwaysStream, PTL DEF Spec

\* LifeOf() is the life of a record.
LEMMA LifeIsKnown ==
  ASSUME LivesKnown, NEW r \in 1 .. count
  PROVE  LifeOf(r) \in 1 .. life /\ first[LifeOf(r)] <= r /\ \A m \in LifeOf(r) + 1 .. life : first[m] > r
<1>1. \E l \in 1 .. life : first[l] <= r /\ \A m \in l + 1 .. life : first[m] > r
  BY DEF LivesKnown
<1> QED
  BY <1>1 DEF LifeOf

\* What a dying process takes with it are its newest records: no record is
\* missing from the files before one of the same process that is there, but for
\* those written behind a line that an earlier process left cut in two
\* (write_batch(), _rotate() and close() of bkvt/emitter.py).
THEOREM OnlyTheNewestAreLost == Spec => []OnlyNewestAreLost
<1>1. ASSUME Placed, LivesKnown, Stream, Orderly PROVE OnlyNewestAreLost
  <2> SUFFICES ASSUME fresh, NEW r \in Readable, NEW q \in 1 .. count, q < r, LifeOf(q) = LifeOf(r)
               PROVE  q \in Readable \cup spoilt
    BY DEF OnlyNewestAreLost
  <2>1. PICK a : StreamAt(a)
    BY <1>1 DEF Stream
  <2>2. r \in Nat \ {0} /\ r <= count /\ count \in Nat /\ life \in Nat /\ r \in 1 .. count
    BY <1>1, <2>1, ReadableIsPast DEF Placed, Typed
  <2> PICK l : l = LifeOf(r)
    OBVIOUS
  <2>3. l \in 1 .. life /\ first[l] <= r /\ (\A m \in l + 1 .. life : first[m] > r) /\ first[l] <= q
    BY <1>1, <2>2, LifeIsKnown
  <2>4. ASSUME NEW m \in 1 .. life, first[m] <= r PROVE first[m] <= q
    <3>1. m <= l
      <4> SUFFICES ASSUME m > l PROVE FALSE
        BY <2>3
      <4>1. m \in l + 1 .. life
        BY <2>2, <2>3
      <4>2. first[m] > r /\ first[m] \in Nat /\ r \in Nat
        BY <1>1, <2>2, <2>3, <4>1, OutputFileAssumption DEF Placed, Typed, Lives
      <4> QED
        BY <2>4, <4>2
    <3>2. first[m] <= first[l] /\ first[m] \in Nat /\ first[l] \in Nat
      BY <1>1, <2>2, <2>3, <3>1, OutputFileAssumption DEF LivesKnown, Placed, Typed, Lives
    <3> QED
      BY <2>3, <3>2
  <2>5. SameLife(q, r)
    BY <2>4 DEF SameLife
  <2> QED
    BY <1>1, <2>5 DEF Orderly
<1> QED
  BY <1>1, AlwaysPlaced, AlwaysLivesKnown, AlwaysStream, AlwaysOrderly, PTL

\* Once the file is closed every record of the process is in the files.
LEMMA ClosedKeepsAll ==
  ASSUME Placed, LivesKnown, Stream
  PROVE  CloseKeepsAll
<1> SUFFICES ASSUME fresh, wpc = "closed", NEW q \in first[life] .. count PROVE q \in Readable \cup spoilt
  BY DEF CloseKeepsAll
<1>1. PICK a : StreamAt(a)
  BY DEF Stream
<1>2. buf = <<>> /\ life > 0 /\ Len(<<>>) = 0 /\ count \in 0 .. MaxRecords
  BY EmptySeq DEF Placed, Typed, Numbers
<1>3. a = 2 * count
  BY <1>1, <1>2 DEF StreamAt, Position
<1>4. first[life] \in Nat /\ 1 <= first[life]
  BY <1>2, OutputFileAssumption DEF LivesKnown, Placed, Typed, Lives
<1>5. q \in Records /\ first[life] <= q /\ 2 * q <= a
  BY <1>2, <1>3, <1>4, OutputFileAssumption DEF Records
<1> QED
  BY <1>1, <1>2, <1>5 DEF StreamAt, Landed

-----------------------------------------------------------------------------
(* The files of a trace that only one process has written.                 *)

\* Fronts and ends alternate, and belong together.
Chained(p) ==
  \A i \in DOMAIN p :
    /\ p[i][2] = "end" => i > 1 /\ p[i - 1] = <<p[i][1], "front">>
    /\ p[i][2] = "front" /\ i > 1 => p[i - 1][2] = "end"
Neat(p) == Chained(p) /\ (p # <<>> => p[Len(p)][2] = "end")

\* A compressed file is empty, holds whole lines, or is what a compression that
\* failed half-way has left of a file that is still there.
Compressed(s) ==
  /\ Chained(gz[s].data)
  /\ s >= seq => gz[s].data = <<>>
  /\ Neat(gz[s].data) \/ (gz[s].is = "whole" /\ zip[s] = "none" /\ jsonl[s] # <<>>)

FirstLife ==
  /\ life = 0 => spoilt = {} /\ \A s \in Seqs : jsonl[s] = <<>> /\ gz[s].data = <<>>
  /\ life = 1 /\ wpc # "down" =>
       /\ spoilt = {} /\ Chained(jsonl[seq])
       /\ \A s \in Seqs : /\ s # seq => Neat(jsonl[s])
                          /\ s > seq => jsonl[s] = <<>>
                          /\ Compressed(s)

LEMMA EmptyIsNeat == Neat(<<>>)
  BY DEF Neat, Chained

LEMMA ChainedStart ==
  ASSUME NEW p, NEW q, Starts(p, q), Chained(q)
  PROVE  Chained(p)
<1> PICK n \in Nat : n = Len(p)
  BY DEF Starts, File
<1> PICK m \in Nat : m = Len(q)
  BY DEF Starts, File
<1>1. n <= m /\ DOMAIN p = 1 .. n /\ DOMAIN q = 1 .. m /\ \A i \in 1 .. n : p[i] = q[i]
  BY DEF Starts, File
<1> SUFFICES ASSUME NEW i \in 1 .. n
             PROVE  /\ p[i][2] = "end" => i > 1 /\ p[i - 1] = <<p[i][1], "front">>
                    /\ p[i][2] = "front" /\ i > 1 => p[i - 1][2] = "end"
  BY <1>1 DEF Chained
<1>2. i \in DOMAIN q /\ (i > 1 => i - 1 \in 1 .. n)
  BY <1>1
<1>3. /\ q[i][2] = "end" => i > 1 /\ q[i - 1] = <<q[i][1], "front">>
      /\ q[i][2] = "front" /\ i > 1 => q[i - 1][2] = "end"
  BY <1>2 DEF Chained
<1>4. p[i] = q[i] /\ (i > 1 => p[i - 1] = q[i - 1])
  BY <1>1, <1>2
<1> QED
  BY <1>3, <1>4, Zenon

LEMMA StartOfNothing ==
  ASSUME NEW p, Starts(p, <<>>)
  PROVE  p = <<>>
<1>1. Len(<<>>) = 0 /\ Len(p) \in Nat /\ p \in File
  BY EmptySeq DEF Starts, File
<1> QED
  BY <1>1, EmptySeq DEF Starts, File

LEMMA ChainedAfter ==
  ASSUME NEW p \in File, NEW q \in File, NEW a \in Nat, Chained(p), Ready(p, a, {}), Follows(q, a)
  PROVE  Chained(p \o q)
<1> PICK n \in Nat : n = Len(p)
  BY LastAppended
<1> PICK k \in Nat : k = Len(q)
  BY LastAppended
<1> PICK x : x = p \o q
  OBVIOUS
<1>1. /\ x \in File /\ Len(x) = n + k /\ (p = <<>> <=> n = 0)
      /\ \A i \in 1 .. n : x[i] = p[i]
      /\ \A i \in 1 .. k : x[n + i] = Piece(a + i)
  BY LastAppended, FileAppended DEF Follows
<1>2. DOMAIN x = 1 .. n + k /\ DOMAIN p = 1 .. n
  BY <1>1 DEF File
<1> DEFINE Good(i) == /\ x[i][2] = "end" => i > 1 /\ x[i - 1] = <<x[i][1], "front">>
                      /\ x[i][2] = "front" /\ i > 1 => x[i - 1][2] = "end"
<1>3. ASSUME NEW i \in 1 .. n PROVE Good(i)
  <2>1. i > 1 => i - 1 \in 1 .. n
    OBVIOUS
  <2>2. /\ p[i][2] = "end" => i > 1 /\ p[i - 1] = <<p[i][1], "front">>
        /\ p[i][2] = "front" /\ i > 1 => p[i - 1][2] = "end"
    BY <1>2 DEF Chained
  <2>3. x[i] = p[i] /\ (i > 1 => x[i - 1] = p[i - 1])
    BY <1>1, <2>1
  <2> QED
    BY <2>2, <2>3, Zenon
<1>4. ASSUME NEW e \in 1 .. k, NEW i \in Nat, i = n + e PROVE Good(i)
  <2>1. x[i] = Piece(a + e) /\ a + e \in Nat \ {0}
    BY <1>1, <1>4
  <2>2. PICK r \in Nat \ {0} : a + e = 2 * r - 1 \/ a + e = 2 * r
    BY <2>1, RecordOfPiece
  <2>3. CASE a + e = 2 * r
    <3>1. x[i] = <<r, "end">>
      BY <2>1, <2>3, PieceIs
    <3>2. CASE e > 1
      <4>1. e - 1 \in 1 .. k /\ n + (e - 1) = i - 1 /\ a + (e - 1) = 2 * r - 1 /\ i > 1
        BY <1>4, <2>3, <3>2
      <4>2. x[n + (e - 1)] = Piece(a + (e - 1))
        BY <1>1, <4>1
      <4>3. x[i - 1] = <<r, "front">>
        BY <4>1, <4>2, PieceOfRecord
      <4> QED
        BY <3>1, <4>1, <4>3
    <3>3. CASE e = 1
      <4>1. a = 2 * r - 1 /\ i - 1 = n
        BY <1>4, <2>3, <3>3
      <4>2. p # <<>> /\ p[n] = <<r, "front">>
        BY <4>1 DEF Ready
      <4>3. n \in 1 .. n /\ i > 1
        BY <1>1, <1>4, <4>2
      <4>4. x[i - 1] = <<r, "front">>
        BY <1>1, <4>1, <4>2, <4>3
      <4> QED
        BY <3>1, <4>3, <4>4
    <3>4. e > 1 \/ e = 1
      OBVIOUS
    <3> QED
      BY <3>2, <3>3, <3>4
  <2>4. CASE a + e = 2 * r - 1
    <3>1. x[i] = <<r, "front">>
      BY <2>1, <2>4, PieceIs
    <3>2. CASE e > 1
      <4>1. e - 1 \in 1 .. k /\ n + (e - 1) = i - 1 /\ a + (e - 1) = 2 * (r - 1) /\ r - 1 \in Nat \ {0}
        BY <1>4, <2>4, <3>2
      <4>2. x[n + (e - 1)] = Piece(a + (e - 1))
        BY <1>1, <4>1
      <4>3. x[i - 1] = <<r - 1, "end">>
        BY <4>1, <4>2, PieceOfRecord
      <4> QED
        BY <3>1, <4>3
    <3>3. CASE e = 1
      <4>1. a = 2 * (r - 1) /\ i - 1 = n /\ r - 1 \in Nat
        BY <1>4, <2>4, <3>3
      <4>2. p = <<>> \/ p[n][2] = "end"
        BY <4>1 DEF Ready
      <4>3. n = 0 \/ (n \in 1 .. n /\ x[n] = p[n])
        BY <1>1
      <4>4. i > 1 => x[i - 1][2] = "end"
        BY <1>1, <1>4, <3>3, <4>1, <4>2, <4>3
      <4>5. x[i][2] = "front"
        BY <3>1
      <4> QED
        BY <4>4, <4>5
    <3>4. e > 1 \/ e = 1
      OBVIOUS
    <3> QED
      BY <3>2, <3>3, <3>4
  <2> QED
    BY <2>2, <2>3, <2>4
<1>5. ASSUME NEW i \in 1 .. n + k PROVE Good(i)
  <2>1. CASE i <= n
    <3>1. i \in 1 .. n
      BY <2>1
    <3> QED
      BY <1>3, <3>1
  <2>2. CASE i > n
    <3>1. i - n \in 1 .. k /\ i = n + (i - n) /\ i \in Nat
      BY <2>2
    <3> HIDE DEF Good
    <3> QED
      BY <1>4, <3>1
  <2> QED
    BY <2>1, <2>2
<1>6. Chained(x)
  BY <1>2, <1>5 DEF Chained
<1> QED
  BY <1>6

LEMMA NeatBetweenLines ==
  ASSUME NEW p, NEW c \in Nat, Chained(p), Ready(p, 2 * c, {})
  PROVE  Neat(p)
  BY DEF Neat, Ready

LEMMA FirstLifeWriting ==
  ASSUME Placed, Placed', FirstLife, wpc' # "down" => zip' = zip,
         NEW a, StreamAt(a), NEW p \in File, NEW k \in 0 .. Len(p), AppendStep(p, k)
  PROVE  FirstLife'
<1> PICK new : new = SubSeq(p, 1, k)
  OBVIOUS
<1>1. a \in Nat /\ k \in Nat /\ new \in File /\ Len(new) = k
  BY FileCut DEF StreamAt, Position
<1>2. Follows(new, a)
  <2>1. Follows(p, a)
    BY GivesOutTheStream
  <2> QED
    BY <1>1, <2>1, FileCut DEF Follows
<1>3. /\ jsonl'[seq] = jsonl[seq] \o new /\ jsonl[seq] \in File /\ \A s \in Seqs : s # seq => jsonl'[s] = jsonl[s]
      /\ seq \in Seqs /\ seq \in Nat /\ gz' = gz /\ seq' = seq /\ spoilt' = spoilt /\ life' = life /\ wpc # "down" /\ life > 0
  BY InSeqs DEF AppendStep, Passed, Placed, Typed, Numbers, history
<1>0. life' # 0 /\ life' = life /\ seq' = seq
  BY <1>3
<1> SUFFICES ASSUME life = 1, wpc' # "down"
             PROVE  /\ spoilt' = {} /\ Chained(jsonl'[seq])
                    /\ \A s \in Seqs : /\ s # seq => Neat(jsonl'[s])
                                       /\ s > seq => jsonl'[s] = <<>>
                                       /\ Compressed(s)'
  BY <1>0 DEF FirstLife
<1>4. /\ spoilt = {} /\ Chained(jsonl[seq])
      /\ \A s \in Seqs : /\ s # seq => Neat(jsonl[s])
                         /\ s > seq => jsonl[s] = <<>>
                         /\ Compressed(s)
  BY <1>3 DEF FirstLife
<1>5. Chained(jsonl'[seq])
  <2>1. CASE k = 0
    <3>1. jsonl[seq] \o new = jsonl[seq]
      BY <1>1, <1>3, <2>1, LastAppended
    <3> QED
      BY <1>3, <1>4, <3>1
  <2>2. CASE k > 0
    <3>1. Len(p) > 0
      BY <1>1, <2>2
    <3>2. Ready(jsonl[seq], a, {})
      BY <1>4, <3>1, GivesOutTheStream
    <3> QED
      BY <1>1, <1>2, <1>3, <1>4, <3>2, ChainedAfter
  <2> QED
    BY <1>1, <2>1, <2>2
<1>6. \A s \in Seqs : s > seq => s # seq
  BY <1>3 DEF Seqs
<1>7. ASSUME NEW s \in Seqs PROVE Compressed(s)'
  <2>1. Compressed(s) /\ gz'[s] = gz[s] /\ zip'[s] = zip[s] /\ seq' = seq /\ (s # seq => jsonl'[s] = jsonl[s])
    BY <1>3, <1>4
  <2>2. s = seq => gz[s].data = <<>> /\ s >= seq
    BY <1>3, <2>1 DEF Compressed, Seqs
  <2> QED
    BY <2>1, <2>2, EmptyIsNeat DEF Compressed
<1> QED
  BY <1>3, <1>4, <1>5, <1>6, <1>7

LEMMA FirstLifeNext ==
  ASSUME Placed, Placed', Zipping, Stream, FirstLife, [Next]_vars
  PROVE  FirstLife'
<1>1. PICK a : StreamAt(a)
  BY DEF Stream
<1>0. seq \in Seqs /\ seq \in Nat /\ life \in Nat /\ count \in Nat
  BY InSeqs DEF Placed, Typed
<1>2. CASE Writing
  <2>1. PICK p \in File : \E k \in 0 .. Len(p) : AppendStep(p, k)
    BY <1>2, WritingAppends
  <2>2. PICK k \in 0 .. Len(p) : AppendStep(p, k)
    BY <2>1
  <2>3. wpc' # "down" => zip' = zip
    BY <1>2 DEF Writing, WriteBatch, WriteFails, RotateFlush, Close, ProcessEnds
  <2> QED
    BY <1>1, <2>2, <2>3, FirstLifeWriting
<1>3. CASE Start
  <2>1. life' = life + 1 /\ seq' = 1 /\ jsonl' = jsonl /\ gz' = gz /\ OpenAppend(1) /\ 1 \in Seqs
    BY <1>3, OutputFileAssumption DEF Start, disk, Seqs
  <2>2. CASE life = 0
    <3>1. spoilt = {} /\ \A s \in Seqs : jsonl[s] = <<>> /\ gz[s].data = <<>>
      BY <2>2 DEF FirstLife
    <3>2. spoilt' = {}
      BY <2>1, <3>1 DEF OpenAppend
    <3> QED
      BY <2>1, <2>2, <3>1, <3>2, EmptyIsNeat DEF FirstLife, Neat, Compressed
  <2>3. CASE life > 0
    BY <1>0, <2>1, <2>3 DEF FirstLife
  <2> QED
    BY <1>0, <2>2, <2>3
<1>4. CASE RotateOpen \/ RotateFails
  <2>1. /\ life' = life /\ seq' = seq + 1 /\ jsonl' = jsonl /\ gz' = gz /\ life > 0 /\ wpc = "open" /\ buf = <<>>
    BY <1>4 DEF RotateOpen, RotateFails, disk, Placed, Numbers
  <2> SUFFICES ASSUME life = 1
               PROVE  /\ spoilt' = {} /\ Chained(jsonl[seq + 1])
                      /\ \A s \in Seqs : /\ s # seq + 1 => Neat(jsonl[s])
                                         /\ s > seq + 1 => jsonl[s] = <<>>
                                         /\ Compressed(s)'
    BY <2>1 DEF FirstLife
  <2>2. /\ spoilt = {} /\ Chained(jsonl[seq])
        /\ \A s \in Seqs : /\ s # seq => Neat(jsonl[s])
                           /\ s > seq => jsonl[s] = <<>>
                           /\ Compressed(s)
    BY <2>1 DEF FirstLife
  <2>3. a = 2 * count
    BY <1>1, <2>1, EmptySeq, <1>0 DEF StreamAt, Position
  <2>4. Ready(jsonl[seq], 2 * count, {})
    BY <1>1, <2>1, <2>2, <2>3 DEF StreamAt, Tip
  <2>5. Neat(jsonl[seq])
    BY <1>0, <2>2, <2>4, NeatBetweenLines
  <2>6. seq + 1 \in Seqs /\ jsonl[seq + 1] = <<>>
    <3>1. seq + 1 \in Seqs /\ seq + 1 > seq
      BY <1>0, <2>1, InSeqs
    <3> QED
      BY <2>2, <3>1
  <2>7. spoilt' = {}
    BY <1>4, <2>2, <2>6 DEF RotateOpen, RotateFails, OpenAppend, history
  <2>8. ASSUME NEW s \in Seqs, s > seq + 1 PROVE jsonl[s] = <<>>
    <3>1. s > seq
      BY <1>0, <2>8 DEF Seqs
    <3> QED
      BY <2>2, <3>1
  <2>9. ASSUME NEW s \in Seqs PROVE Compressed(s)'
    <3>1. Compressed(s) /\ gz'[s] = gz[s] /\ jsonl'[s] = jsonl[s] /\ (s # seq => zip'[s] = zip[s])
      BY <1>4, <2>1, <2>2 DEF RotateOpen, RotateFails, Placed, Typed
    <3>2. (s = seq => s >= seq) /\ (s >= seq + 1 => s >= seq)
      BY <1>0 DEF Seqs
    <3> QED
      BY <2>1, <3>1, <3>2, EmptyIsNeat DEF Compressed
  <2> QED
    BY <2>2, <2>5, <2>6, <2>7, <2>8, <2>9, EmptyIsNeat DEF Neat
<1>5. ASSUME NEW t \in Seqs, Zip(t) PROVE FirstLife'
  <2>1. /\ UNCHANGED <<life, wpc, seq, spoilt>> /\ zip[t] # "none"
        /\ \A s \in Seqs : s # t => jsonl'[s] = jsonl[s] /\ gz'[s] = gz[s] /\ zip'[s] = zip[s]
        /\ jsonl'[t] = jsonl[t] \/ jsonl'[t] = <<>>
        /\ \/ gz'[t] = gz[t] \/ gz'[t].data = <<>> \/ gz'[t].data = jsonl[t]
           \/ /\ Starts(gz'[t].data, jsonl[t]) /\ gz'[t].is = "whole"
              /\ jsonl'[t] = jsonl[t] /\ zip'[t] = "none"
    BY <1>5, ZipStep DEF writer, history
  <2>2. wpc # "down" /\ t < seq /\ life > 0 /\ t # seq
    BY <1>0, <2>1 DEF Zipping, ZipsAt, Placed, Numbers, Seqs
  <2> SUFFICES ASSUME life = 1
               PROVE  /\ spoilt' = {} /\ Chained(jsonl'[seq])
                      /\ \A s \in Seqs : /\ s # seq => Neat(jsonl'[s])
                                         /\ s > seq => jsonl'[s] = <<>>
                                         /\ Compressed(s)'
    BY <2>1, <2>2 DEF FirstLife
  <2>3. /\ spoilt = {} /\ Chained(jsonl[seq])
        /\ \A s \in Seqs : /\ s # seq => Neat(jsonl[s])
                           /\ s > seq => jsonl[s] = <<>>
                           /\ Compressed(s)
    BY <2>2 DEF FirstLife
  <2>4. jsonl'[seq] = jsonl[seq]
    BY <1>0, <2>1, <2>2
  <2>5. ASSUME NEW s \in Seqs
        PROVE  (s # seq => Neat(jsonl'[s])) /\ (s > seq => jsonl'[s] = <<>>) /\ Compressed(s)'
    <3>0. Compressed(s) /\ seq' = seq
      BY <2>1, <2>3
    <3>1. CASE s # t
      BY <2>1, <2>3, <3>0, <3>1 DEF Compressed
    <3>2. CASE s = t
      <4>1. Neat(jsonl[t]) /\ Neat(gz[t].data) /\ Chained(jsonl[t])
        BY <2>1, <2>2, <2>3, <3>0, <3>2 DEF Compressed, Neat
      <4>2. Neat(jsonl'[t]) /\ (t > seq => jsonl'[t] = <<>>)
        BY <2>1, <2>2, <2>3, <4>1, EmptyIsNeat
      <4>3. ~(t >= seq)
        BY <1>0, <2>2 DEF Seqs
      <4>4. CASE Neat(gz'[t].data)
        BY <3>0, <3>2, <4>2, <4>3, <4>4 DEF Compressed, Neat
      <4>5. CASE Starts(gz'[t].data, jsonl[t]) /\ gz'[t].is = "whole" /\ jsonl'[t] = jsonl[t] /\ zip'[t] = "none"
        <5>1. Chained(gz'[t].data)
          BY <4>1, <4>5, ChainedStart
        <5>2. jsonl[t] = <<>> => Neat(gz'[t].data)
          BY <4>5, StartOfNothing, EmptyIsNeat
        <5> QED
          BY <3>0, <3>2, <4>2, <4>3, <4>5, <5>1, <5>2 DEF Compressed
      <4> QED
        BY <2>1, <4>1, <4>4, <4>5, EmptyIsNeat
    <3> QED
      BY <3>1, <3>2
  <2> QED
    BY <2>1, <2>3, <2>4, <2>5
<1>6. CASE UNCHANGED vars
  BY <1>6 DEF vars, writer, disk, history, FirstLife, Compressed
<1> QED
  BY <1>2, <1>3, <1>4, <1>5, <1>6 DEF Next, Writer, Writing

LEMMA AlwaysFirstLife == Spec => []FirstLife
<1>1. Init => FirstLife
  BY DEF Init, FirstLife, NoGz
<1> QED
  BY <1>1, FirstLifeNext, AlwaysPlaced, AlwaysZipping, AlwaysStream, PTL DEF Spec

-----------------------------------------------------------------------------
(* No piece is in two files, but for the two forms of one.                 *)

Unique ==
  \A f, g \in Files : \A i \in DOMAIN Pieces(f), j \in DOMAIN Pieces(g) :
    Pieces(f)[i] = Pieces(g)[j] => f[1] = g[1] /\ (f = g => i = j)

LEMMA PieceInjective ==
  ASSUME NEW i \in Nat \ {0}, NEW j \in Nat \ {0}, Piece(i) = Piece(j)
  PROVE  i = j
<1> PICK u \in Nat \ {0} : i = 2 * u - 1 \/ i = 2 * u
  BY RecordOfPiece
<1>1. CASE i = 2 * u - 1
  BY <1>1, PieceIs
<1>2. CASE i = 2 * u
  BY <1>2, PieceIs
<1> QED
  BY <1>1, <1>2

LEMMA FileOfPieces ==
  ASSUME NEW f \in Files
  PROVE  /\ f[1] \in Seqs /\ (f = <<f[1], "jsonl">> \/ f = <<f[1], "gz">>)
         /\ f = <<f[1], "jsonl">> => Pieces(f) = jsonl[f[1]] /\ Pieces(f)' = jsonl'[f[1]]
         /\ f = <<f[1], "gz">> => Pieces(f) = gz[f[1]].data /\ Pieces(f)' = gz'[f[1]].data
  BY DEF Files, Pieces

LEMMA UniqueAt ==
  ASSUME Unique, NEW b \in Files, NEW c \in Files, NEW m \in DOMAIN Pieces(b), NEW l \in DOMAIN Pieces(c),
         Pieces(b)[m] = Pieces(c)[l]
  PROVE  b[1] = c[1] /\ (b = c => m = l)
  BY DEF Unique

\* A piece of a file that was appended to is an old one or the next of the stream.
LEMMA OldOrNew ==
  ASSUME NEW p \in File, NEW q \in File, NEW a \in Nat, Follows(q, a), NEW i \in 1 .. Len(p) + Len(q)
  PROVE  \/ i \in DOMAIN p /\ (p \o q)[i] = p[i]
         \/ \E e \in 1 .. Len(q) : i = Len(p) + e /\ (p \o q)[i] = Piece(a + e)
<1> PICK x : x = p \o q
  OBVIOUS
<1> PICK n \in Nat : n = Len(p)
  BY LastAppended
<1> PICK k \in Nat : k = Len(q)
  BY LastAppended
<1>1. /\ x \in File /\ Len(x) = n + k
      /\ \A m \in 1 .. n : x[m] = p[m]
      /\ \A m \in 1 .. k : x[n + m] = Piece(a + m)
  BY LastAppended, FileAppended DEF Follows
<1>2. DOMAIN x = 1 .. n + k /\ DOMAIN p = 1 .. n
  BY <1>1 DEF File
<1>3. CASE i <= n
  BY <1>1, <1>2, <1>3
<1>4. CASE i > n
  <2>1. i - n \in 1 .. k /\ i = n + (i - n)
    BY <1>2, <1>4
  <2> QED
    BY <1>1, <2>1
<1> QED
  BY <1>2, <1>3, <1>4

LEMMA UniqueWriting ==
  ASSUME Placed, Placed', Unique,
         NEW a, StreamAt(a), NEW p \in File, NEW k \in 0 .. Len(p), AppendStep(p, k)
  PROVE  Unique'
<1> PICK new : new = SubSeq(p, 1, k)
  OBVIOUS
<1>1. a \in Nat /\ k \in Nat /\ new \in File /\ Len(new) = k
  BY FileCut DEF StreamAt, Position
<1>2. Follows(new, a)
  <2>1. Follows(p, a)
    BY GivesOutTheStream
  <2> QED
    BY <1>1, <2>1, FileCut DEF Follows
<1>3. /\ jsonl'[seq] = jsonl[seq] \o new /\ jsonl[seq] \in File /\ \A s \in Seqs : s # seq => jsonl'[s] = jsonl[s]
      /\ seq \in Seqs /\ gz' = gz
  BY InSeqs DEF AppendStep, Passed, Placed, Typed
<1> PICK n \in Nat : n = Len(jsonl[seq])
  BY <1>3, LastAppended
<1> DEFINE cur == <<seq, "jsonl">>
           Old(f, i) == i \in DOMAIN Pieces(f) /\ Pieces(f)'[i] = Pieces(f)[i]
           New(f, i) == f = cur /\ \E e \in 1 .. k : i = n + e /\ Pieces(f)'[i] = Piece(a + e)
<1>4. ASSUME NEW f \in Files, NEW i \in DOMAIN Pieces(f)' PROVE Old(f, i) \/ New(f, i)
  <2>1. CASE f = cur
    <3>1. Pieces(f)' = jsonl[seq] \o new /\ Pieces(f) = jsonl[seq]
      BY <1>3, <2>1, FileOfPieces
    <3>2. \/ i \in DOMAIN jsonl[seq] /\ Pieces(f)'[i] = jsonl[seq][i]
          \/ \E e \in 1 .. Len(new) : i = Len(jsonl[seq]) + e /\ Pieces(f)'[i] = Piece(a + e)
      <4>1. jsonl[seq] \in File /\ new \in File /\ a \in Nat
        BY <1>1, <1>3
      <4>3. i \in 1 .. Len(jsonl[seq]) + Len(new)
        <5>1. /\ jsonl[seq] \o new \in File
              /\ Len(jsonl[seq] \o new) = Len(jsonl[seq]) + Len(new)
          BY <4>1, FileAppended
        <5>2. DOMAIN (jsonl[seq] \o new) = 1 .. Len(jsonl[seq]) + Len(new)
          BY <5>1, LenProperties DEF File
        <5> QED
          BY <3>1, <5>2
      <4>2. \/ i \in DOMAIN jsonl[seq] /\ (jsonl[seq] \o new)[i] = jsonl[seq][i]
            \/ \E e \in 1 .. Len(new) : i = Len(jsonl[seq]) + e /\ (jsonl[seq] \o new)[i] = Piece(a + e)
        BY <1>2, <4>1, <4>3, OldOrNew, Zenon
      <4> QED
        BY <3>1, <4>2
    <3> QED
      BY <1>1, <2>1, <3>1, <3>2
  <2>2. CASE f # cur
    <3>1. Pieces(f)' = Pieces(f)
      BY <1>3, <2>2, FileOfPieces
    <3> QED
      BY <3>1
  <2> QED
    BY <2>1, <2>2
<1>5. ASSUME NEW f \in Files, NEW i, Old(f, i) PROVE \E j \in 1 .. a : Pieces(f)'[i] = Piece(j)
  <2>1. UpTo(Pieces(f), a)
    BY FileOfPieces DEF StreamAt, OnDisk
  <2> QED
    BY <1>5, <2>1 DEF UpTo
<1>6. ASSUME NEW f \in Files, NEW g \in Files, NEW i, NEW j, Old(f, i), New(g, j), Pieces(f)'[i] = Pieces(g)'[j]
      PROVE  FALSE
  <2>1. PICK c \in 1 .. a : Pieces(f)'[i] = Piece(c)
    BY <1>5, <1>6
  <2>2. PICK e \in 1 .. k : Pieces(g)'[j] = Piece(a + e)
    BY <1>6
  <2>3. c \in Nat \ {0} /\ a + e \in Nat \ {0} /\ c # a + e
    BY <1>1
  <2> QED
    BY <1>6, <2>1, <2>2, <2>3, PieceInjective
<1>7. ASSUME NEW f \in Files, NEW g \in Files, NEW i, NEW j, New(f, i), New(g, j), Pieces(f)'[i] = Pieces(g)'[j]
      PROVE  f = g /\ i = j
  <2>1. PICK c \in 1 .. k : i = n + c /\ Pieces(f)'[i] = Piece(a + c)
    BY <1>7
  <2>2. PICK e \in 1 .. k : j = n + e /\ Pieces(g)'[j] = Piece(a + e)
    BY <1>7
  <2>3. a + c \in Nat \ {0} /\ a + e \in Nat \ {0}
    BY <1>1
  <2>4. a + c = a + e
    BY <1>7, <2>1, <2>2, <2>3, PieceInjective
  <2> QED
    BY <1>1, <1>7, <2>1, <2>2, <2>4
<1> SUFFICES ASSUME NEW f \in Files, NEW g \in Files, NEW i \in DOMAIN Pieces(f)', NEW j \in DOMAIN Pieces(g)',
                    Pieces(f)'[i] = Pieces(g)'[j]
             PROVE  f[1] = g[1] /\ (f = g => i = j)
  BY DEF Unique, Files, Seqs
<1>8. CASE Old(f, i) /\ Old(g, j)
  <2>1. i \in DOMAIN Pieces(f) /\ j \in DOMAIN Pieces(g) /\ Pieces(f)[i] = Pieces(g)[j]
    BY <1>8
  <2> HIDE DEF Old
  <2> QED
    BY <2>1, UniqueAt
<1> HIDE DEF Old, New
<1> QED
  BY <1>4, <1>6, <1>7, <1>8

LEMMA UniqueNext ==
  ASSUME Placed, Placed', Stream, Unique, [Next]_vars
  PROVE  Unique'
<1>1. PICK a : StreamAt(a)
  BY DEF Stream
<1>2. CASE Writing
  <2>1. PICK p \in File : \E k \in 0 .. Len(p) : AppendStep(p, k)
    BY <1>2, WritingAppends
  <2>2. PICK k \in 0 .. Len(p) : AppendStep(p, k)
    BY <2>1
  <2> QED
    BY <1>1, <2>2, UniqueWriting
<1>3. CASE Start \/ RotateOpen \/ RotateFails \/ UNCHANGED vars
  <2>1. jsonl' = jsonl /\ gz' = gz
    BY <1>3 DEF Start, RotateOpen, RotateFails, vars, disk
  <2> QED
    BY <2>1 DEF Unique, Pieces
<1>4. ASSUME NEW t \in Seqs, Zip(t) PROVE Unique'
  <2>1. /\ \A s \in Seqs : s # t => jsonl'[s] = jsonl[s] /\ gz'[s] = gz[s]
        /\ jsonl'[t] = jsonl[t] \/ jsonl'[t] = <<>>
        /\ gz'[t] = gz[t] \/ gz'[t].data = <<>> \/ gz'[t].data = jsonl[t] \/ Starts(gz'[t].data, jsonl[t])
    BY <1>4, ZipStep
  <2>0. \A p : p = jsonl[t] \/ Starts(p, jsonl[t]) => DOMAIN p \subseteq DOMAIN jsonl[t] /\ \A i \in DOMAIN p : p[i] = jsonl[t][i]
    BY StartsTwice
  <2> DEFINE Copied(p) == DOMAIN p \subseteq DOMAIN jsonl[t] /\ \A i \in DOMAIN p : p[i] = jsonl[t][i]
  <2>2. \A f \in Files : \/ Pieces(f)' = Pieces(f) \/ Pieces(f)' = <<>>
                         \/ f = <<t, "gz">> /\ Copied(Pieces(f)')
    <3> SUFFICES ASSUME NEW f \in Files
                 PROVE  \/ Pieces(f)' = Pieces(f) \/ Pieces(f)' = <<>>
                        \/ f = <<t, "gz">> /\ Copied(Pieces(f)')
      OBVIOUS
    <3>1. gz'[t] = gz[t] \/ gz'[t].data = <<>> \/ Copied(gz'[t].data)
      BY <2>0, <2>1
    <3> HIDE DEF Copied
    <3>2. CASE f[1] # t
      BY <2>1, <3>2, FileOfPieces
    <3>3. CASE f[1] = t
      BY <2>1, <3>1, <3>3, FileOfPieces
    <3> QED
      BY <3>2, <3>3
  <2> SUFFICES ASSUME NEW f \in Files, NEW g \in Files, NEW i \in DOMAIN Pieces(f)', NEW j \in DOMAIN Pieces(g)',
                      Pieces(f)'[i] = Pieces(g)'[j]
               PROVE  f[1] = g[1] /\ (f = g => i = j)
    BY DEF Unique, Files, Seqs
  \* Each piece was there before, in the same file or in the other form of it.
  <2>3. ASSUME NEW h \in Files, NEW m \in DOMAIN Pieces(h)'
        PROVE  LET b == IF Pieces(h)' = Pieces(h) THEN h ELSE <<t, "jsonl">> IN
               b \in Files /\ b[1] = h[1] /\ m \in DOMAIN Pieces(b) /\ Pieces(h)'[m] = Pieces(b)[m]
    <3>1. Pieces(h)' # <<>>
      BY <2>3
    <3>2. <<t, "jsonl">> \in Files /\ <<t, "jsonl">>[1] = t /\ <<t, "gz">>[1] = t
      BY DEF Files
    <3>3. Pieces(<<t, "jsonl">>) = jsonl[t]
      BY DEF Pieces
    <3> QED
      BY <2>2, <2>3, <3>1, <3>2, <3>3
  <2> DEFINE Before(h) == IF Pieces(h)' = Pieces(h) THEN h ELSE <<t, "jsonl">>
  <2>4. Before(f) \in Files /\ Before(f)[1] = f[1] /\ i \in DOMAIN Pieces(Before(f)) /\ Pieces(f)'[i] = Pieces(Before(f))[i]
    BY <2>3
  <2>5. Before(g) \in Files /\ Before(g)[1] = g[1] /\ j \in DOMAIN Pieces(Before(g)) /\ Pieces(g)'[j] = Pieces(Before(g))[j]
    BY <2>3
  <2>6. f = g => Before(f) = Before(g)
    OBVIOUS
  <2> HIDE DEF Before
  <2> QED
    <3> PICK b : b = Before(f)
      OBVIOUS
    <3> PICK c : c = Before(g)
      OBVIOUS
    <3>1. b \in Files /\ c \in Files /\ i \in DOMAIN Pieces(b) /\ j \in DOMAIN Pieces(c) /\ Pieces(b)[i] = Pieces(c)[j]
      BY <2>4, <2>5
    <3>2. b[1] = c[1] /\ (b = c => i = j)
      BY <3>1, UniqueAt
    <3> QED
      BY <2>4, <2>5, <2>6, <3>2
<1> QED
  BY <1>2, <1>3, <1>4 DEF Next, Writer, Writing

LEMMA AlwaysUnique == Spec => []Unique
<1>1. Init => Unique
  BY DEF Init, Unique, Files, Pieces, NoGz
<1> QED
  BY <1>1, UniqueNext, AlwaysPlaced, AlwaysStream, PTL DEF Spec

-----------------------------------------------------------------------------
(* The readers.                                                            *)

\* A record is read where its line is whole.
LEMMA ReadIsLine ==
  ASSUME NEW p \in File, NEW r
  PROVE  /\ \A i \in Parsed(p) : p[i][1] = r => i - 1 \in 1 .. Len(p) - 1 /\ LineAt(p, i - 1, r)
         /\ \A i \in 1 .. Len(p) - 1 : LineAt(p, i, r) => i + 1 \in Parsed(p) /\ p[i + 1][1] = r
<1>1. Len(p) \in Nat /\ DOMAIN p = 1 .. Len(p) /\ \A i \in 1 .. Len(p) : p[i] \in (Nat \ {0}) \X Kinds
  BY DEF File
<1>2. ASSUME NEW i \in Parsed(p), p[i][1] = r PROVE i - 1 \in 1 .. Len(p) - 1 /\ LineAt(p, i - 1, r)
  <2>1. /\ i \in 1 .. Len(p) /\ i # 1
        /\ p[i - 1] = <<p[i][1], "front">> /\ p[i][2] = "end"
        /\ i > 2 => p[i - 2][2] = "end"
    BY <1>1 DEF Parsed
  <2>2. p[i] = <<r, "end">>
    BY <1>1, <1>2, <2>1
  <2>3. i - 1 \in 1 .. Len(p) - 1 /\ i - 1 + 1 = i /\ i - 1 - 1 = i - 2 /\ (i - 1 > 1 => i > 2)
    BY <1>1, <2>1
  <2> QED
    BY <1>2, <2>1, <2>2, <2>3 DEF LineAt
<1>3. ASSUME NEW i \in 1 .. Len(p) - 1, LineAt(p, i, r) PROVE i + 1 \in Parsed(p) /\ p[i + 1][1] = r
  <2>1. p[i] = <<r, "front">> /\ p[i + 1] = <<r, "end">> /\ (i > 1 => p[i - 1][2] = "end")
    BY <1>3 DEF LineAt
  <2>2. i + 1 \in 1 .. Len(p) /\ i + 1 # 1 /\ i + 1 - 1 = i /\ i + 1 - 2 = i - 1 /\ (i + 1 > 2 => i > 1)
    BY <1>1
  <2> QED
    BY <1>1, <2>1, <2>2 DEF Parsed
<1> QED
  BY <1>2, <1>3

LEMMA FileTyped ==
  ASSUME Placed, NEW f \in Files
  PROVE  Pieces(f) \in File
  BY FileOfPieces DEF Placed, Typed, Zipped

LEMMA ReadIsPast ==
  ASSUME Placed, NEW a, StreamAt(a), NEW f \in Files, NEW r, NEW i \in ReadAt(f, r)
  PROVE  i \in DOMAIN Pieces(f) /\ Pieces(f)[i] = <<r, "end">> /\ r \in Records /\ r <= count
<1> PICK p \in File : p = Pieces(f)
  BY FileTyped
<1>1. i \in Parsed(p) /\ p[i][1] = r
  BY DEF ReadAt
<1>2. i - 1 \in 1 .. Len(p) - 1 /\ LineAt(p, i - 1, r) /\ i \in DOMAIN p
  BY <1>1, ReadIsLine DEF Parsed
<1>3. i \in Int
  BY <1>2 DEF File
<1>4. p[i] = <<r, "end">>
  <2>1. i - 1 + 1 = i
    BY <1>3
  <2> QED
    BY <1>2, <2>1 DEF LineAt
<1>5. UpTo(p, a)
  BY FileOfPieces DEF StreamAt, OnDisk
<1>6. PICK j \in 1 .. a : Piece(j) = <<r, "end">>
  BY <1>2, <1>4, <1>5 DEF UpTo
<1>7. a \in Nat /\ count \in Nat /\ Len(buf) \in Nat /\ a + Len(buf) <= 2 * count /\ count <= MaxRecords
  BY LastAppended DEF StreamAt, Position, Placed, Typed
<1>8. j \in Nat \ {0} /\ r \in Nat \ {0}
  <2>1. p[i] \in (Nat \ {0}) \X Kinds
    BY <1>2 DEF File
  <2> QED
    BY <1>4, <1>7, <2>1
<1>9. j = 2 * r
  BY <1>6, <1>8, PieceIs
<1>10. r <= count /\ r \in Records
  BY <1>7, <1>8, <1>9, OutputFileAssumption DEF Records
<1> QED
  BY <1>2, <1>4, <1>10

LEMMA FoundIsReadable ==
  ASSUME Placed, NEW a, StreamAt(a), NEW r
  PROVE  Found(r) <=> r \in Readable
<1>1. ASSUME Found(r) PROVE r \in Readable
  <2>1. PICK f \in Files : ReadAt(f, r) # {}
    BY <1>1 DEF Found
  <2>2. PICK i : i \in ReadAt(f, r)
    BY <2>1
  <2> PICK p \in File : p = Pieces(f)
    BY FileTyped
  <2>3. i - 1 \in 1 .. Len(p) - 1 /\ LineAt(p, i - 1, r)
    BY <2>2, ReadIsLine DEF ReadAt
  <2>4. r \in Records
    BY <2>2, ReadIsPast
  <2>5. r \in WholeLines(p)
    BY <2>3, <2>4, WholeLineAt
  <2>6. p = jsonl[f[1]] \/ p = gz[f[1]].data
    BY FileOfPieces
  <2> QED
    BY <2>5, <2>6, FileOfPieces DEF Readable
<1>2. ASSUME r \in Readable PROVE Found(r)
  <2>1. PICK s \in Seqs : r \in WholeLines(jsonl[s]) \/ r \in WholeLines(gz[s].data)
    BY <1>2 DEF Readable
  <2>2. <<s, "jsonl">> \in Files /\ <<s, "gz">> \in Files
        /\ Pieces(<<s, "jsonl">>) = jsonl[s] /\ Pieces(<<s, "gz">>) = gz[s].data
    BY DEF Files, Pieces
  <2>3. PICK f \in Files : r \in WholeLines(Pieces(f))
    BY <2>1, <2>2
  <2> PICK p \in File : p = Pieces(f)
    BY FileTyped
  <2>4. PICK i \in 1 .. Len(p) - 1 : LineAt(p, i, r)
    BY <2>3, WholeLineAt
  <2>5. i + 1 \in ReadAt(f, r)
    BY <2>4, ReadIsLine DEF ReadAt
  <2> QED
    BY <2>5 DEF Found
<1> QED
  BY <1>1, <1>2

\* In a chain every line is JSON, but for a last one that is cut.
LEMMA ChainedIsGood ==
  ASSUME NEW p \in File, Chained(p), NEW i \in LineEnds(p), p[i][2] = "end"
  PROVE  i \in Parsed(p)
<1>1. Len(p) \in Nat /\ DOMAIN p = 1 .. Len(p) /\ \A e \in 1 .. Len(p) : p[e] \in (Nat \ {0}) \X Kinds
  BY DEF File
<1>2. i \in 1 .. Len(p) /\ (p[i][2] = "end" \/ i = Len(p))
  BY <1>1 DEF LineEnds
<1>5. i > 1 /\ p[i - 1] = <<p[i][1], "front">>
  BY <1>1, <1>2 DEF Chained
<1>6. ASSUME i > 2 PROVE p[i - 2][2] = "end"
  <2>1. PICK n \in Nat : n = Len(p)
    BY <1>1
  <2>2. i \in 1 .. n
    BY <1>2, <2>1
  <2>3. i - 1 \in 1 .. n /\ i - 1 > 1 /\ i - 1 - 1 = i - 2
    BY <2>2, <1>6
  <2>4. i - 1 \in DOMAIN p /\ i - 1 > 1 /\ i - 1 - 1 = i - 2
    BY <1>1, <2>1, <2>3
  <2>5. p[i - 1][2] = "front"
    BY <1>5
  <2>6. p[i - 1 - 1][2] = "end"
    BY <2>4, <2>5 DEF Chained
  <2> QED
    BY <2>4, <2>6
<1> QED
  BY <1>1, <1>2, <1>5, <1>6 DEF Parsed

LEMMA BadIsCut ==
  ASSUME NEW p \in File, Chained(p), NEW i \in LineEnds(p) \ Parsed(p)
  PROVE  i = Len(p) /\ ~Neat(p)
<1>1. p[i][2] # "end"
  BY ChainedIsGood
<1>2. i = Len(p)
  BY <1>1 DEF LineEnds
<1>3. p # <<>>
  <2>1. i \in DOMAIN p /\ DOMAIN p = 1 .. Len(p)
    BY DEF LineEnds, File
  <2>2. PICK n \in Nat : n = Len(p)
    BY DEF File
  <2>3. n # 0
    BY <2>1, <2>2
  <2> QED
    BY <2>2, <2>3, EmptySeq
<1> QED
  BY <1>1, <1>2, <1>3 DEF Neat

\* After shutdown() the validator finds all the process wrote: orphans are the
\* transfers that have no end, wherever start and end lie, whatever the gzip
\* threads have done; and where no earlier process has been, its errors are the
\* cut last lines of compressed files whose compression failed
\* (scripts/validate_traces.py, validate_files()).
THEOREM ValidatorGetsItRight == Spec => []ClosedTraceValidates
<1>1. ASSUME Placed, LivesKnown, Stream, FirstLife PROVE ClosedTraceValidates
  <2> SUFFICES ASSUME fresh, wpc = "closed"
               PROVE  /\ CloseKeepsAll
                      /\ \A k \in Transfers :
                           first[life] <= StartOf(k) /\ StartOf(k) <= count /\ {StartOf(k), EndOf(k)} \cap spoilt = {} =>
                             (k \in Orphans <=> EndOf(k) > count)
                      /\ life = 1 => \A e \in Errors : HalfCompressed(e[1]) /\ e[2] = Len(Pieces(e[1]))
    BY DEF ClosedTraceValidates
  <2>1. PICK a : StreamAt(a)
    BY <1>1 DEF Stream
  <2>2. CloseKeepsAll
    BY <1>1, ClosedKeepsAll
  <2>3. count \in 0 .. MaxRecords /\ life > 0 /\ first[life] \in Nat
    BY <1>1, OutputFileAssumption DEF Placed, Typed, Numbers, Lives
  <2>4. ASSUME NEW k \in Transfers, first[life] <= StartOf(k), StartOf(k) <= count, {StartOf(k), EndOf(k)} \cap spoilt = {}
        PROVE  k \in Orphans <=> EndOf(k) > count
    <3>1. StartOf(k) \in Nat /\ EndOf(k) \in Nat /\ StartOf(k) < EndOf(k)
      BY OutputFileAssumption DEF Transfers, StartOf, EndOf
    <3>2. first[life] .. count \subseteq Readable \cup spoilt
      BY <2>2 DEF CloseKeepsAll
    <3>3. StartOf(k) \in Readable
      BY <2>3, <2>4, <3>1, <3>2
    <3>4. EndOf(k) <= count => EndOf(k) \in Readable
      BY <2>3, <2>4, <3>1, <3>2
    <3>5. EndOf(k) \in Readable => EndOf(k) <= count
      BY <1>1, <2>1, ReadableIsPast
    <3>6. k \in Orphans <=> Found(StartOf(k)) /\ ~Found(EndOf(k))
      BY DEF Orphans
    <3>7. Found(StartOf(k)) /\ (Found(EndOf(k)) <=> EndOf(k) \in Readable)
      BY <1>1, <2>1, <3>3, FoundIsReadable
    <3> QED
      BY <2>3, <3>1, <3>4, <3>5, <3>6, <3>7
  <2>5. ASSUME life = 1, NEW e \in Errors PROVE HalfCompressed(e[1]) /\ e[2] = Len(Pieces(e[1]))
    <3>1. /\ spoilt = {} /\ Chained(jsonl[seq])
          /\ \A s \in Seqs : (s # seq => Neat(jsonl[s])) /\ Compressed(s)
      BY <1>1, <2>5 DEF FirstLife
    <3>2. buf = <<>> /\ Len(<<>>) = 0 /\ a \in Nat /\ count \in Nat
      BY <1>1, <2>1, EmptySeq DEF Placed, Typed, Numbers, StreamAt, Position
    <3>3. a = 2 * count
      BY <2>1, <3>2 DEF StreamAt, Position
    <3>4. Ready(jsonl[seq], 2 * count, {})
      BY <2>1, <3>1, <3>3 DEF StreamAt, Tip
    <3>5. Neat(jsonl[seq])
      BY <3>1, <3>2, <3>4, NeatBetweenLines
    <3>6. PICK f \in Files : e \in {f} \X BadLines(f)
      BY DEF Errors
    <3>7. e[1] = f /\ e[2] \in BadLines(f)
      BY <3>6
    <3>8. f[1] \in Seqs /\ Pieces(f) \in File
          /\ (Neat(Pieces(f)) \/ (f[2] = "gz" /\ gz[f[1]].is = "whole" /\ zip[f[1]] = "none" /\ jsonl[f[1]] # <<>>))
          /\ Chained(Pieces(f))
      BY <1>1, <3>1, <3>5, FileOfPieces, FileTyped DEF Compressed, Neat
    <3>9. e[2] = Len(Pieces(f)) /\ ~Neat(Pieces(f))
      BY <3>7, <3>8, BadIsCut DEF BadLines
    <3> QED
      BY <3>7, <3>8, <3>9 DEF HalfCompressed
  <2> QED
    BY <2>2, <2>4, <2>5
<1> QED
  BY <1>1, AlwaysPlaced, AlwaysLivesKnown, AlwaysStream, AlwaysFirstLife, PTL

\* Where no file is there in both forms a record is read once or never.
LEMMA LoadedOnce ==
  ASSUME Placed, NEW a, StreamAt(a), Unique, \A s \in Seqs : jsonl[s] = <<>> \/ gz[s] = NoGz, NEW r
  PROVE  Loaded(r) = IF r \in Readable THEN 1 ELSE 0
<1> PICK R : R = UNION {{f} \X ReadAt(f, r) : f \in Files}
  OBVIOUS
<1>1. ASSUME NEW f \in Files, NEW g \in Files, NEW i \in ReadAt(f, r), NEW j \in ReadAt(g, r)
      PROVE  f = g /\ i = j
  <2>1. /\ i \in DOMAIN Pieces(f) /\ j \in DOMAIN Pieces(g)
        /\ Pieces(f)[i] = Pieces(g)[j]
    BY ReadIsPast
  <2>2. f[1] = g[1] /\ (f = g => i = j)
    BY <2>1, UniqueAt
  <2>3. Pieces(f) # <<>> /\ Pieces(g) # <<>>
    BY <2>1
  <2>4. f[1] \in Seqs /\ (jsonl[f[1]] = <<>> \/ gz[f[1]].data = <<>>)
    BY FileOfPieces DEF NoGz
  <2>5. f = g
    BY <2>2, <2>3, <2>4, FileOfPieces
  <2> QED
    BY <2>2, <2>5
<1>2. \A x, y \in R : x = y
  <2> SUFFICES ASSUME NEW x \in R, NEW y \in R PROVE x = y
    OBVIOUS
  <2>1. PICK f \in Files : x \in {f} \X ReadAt(f, r)
    OBVIOUS
  <2>2. PICK g \in Files : y \in {g} \X ReadAt(g, r)
    OBVIOUS
  <2>3. x = <<f, x[2]>> /\ x[2] \in ReadAt(f, r) /\ y = <<g, y[2]>> /\ y[2] \in ReadAt(g, r)
    BY <2>1, <2>2
  <2>4. f = g /\ x[2] = y[2]
    BY <1>1, <2>3
  <2> QED
    BY <2>3, <2>4
<1>3. R # {} <=> Found(r)
  <2>1. ASSUME NEW f \in Files, NEW i \in ReadAt(f, r) PROVE <<f, i>> \in R
    OBVIOUS
  <2>2. ASSUME NEW x \in R PROVE \E f \in Files : ReadAt(f, r) # {}
    OBVIOUS
  <2> QED
    BY <2>1, <2>2 DEF Found
<1>4. Found(r) <=> r \in Readable
  BY FoundIsReadable
<1>5. CASE R = {}
  BY <1>3, <1>4, <1>5, FS_EmptySet DEF Loaded
<1>6. CASE R # {}
  <2>1. PICK x : x \in R
    BY <1>6
  <2>2. R = {x}
    BY <1>2, <2>1
  <2>3. Cardinality(R) = 1
    BY <2>2, FS_Singleton
  <2> QED
    BY <1>3, <1>4, <1>6, <2>3 DEF Loaded
<1> QED
  BY <1>5, <1>6

\* Where no file is there in both forms, and the analysis does not raise, each
\* transfer whose start can be read gets one row and no other gets any
\* (_transfer_pairs() of analysis/build_index.py), whatever rotations,
\* compressions, deaths and processes there were before.
THEOREM TransfersPairOnce == Spec => []PairsOnceWhenSettled
<1>1. ASSUME Placed, Stream, Unique PROVE PairsOnceWhenSettled
  <2> SUFFICES ASSUME \A s \in Seqs : jsonl[s] = <<>> \/ gz[s] = NoGz, NEW k \in Transfers
               PROVE  Rows(k) = IF StartOf(k) \in Readable THEN 1 ELSE 0
    BY DEF PairsOnceWhenSettled
  <2>1. PICK a : StreamAt(a)
    BY <1>1 DEF Stream
  <2>2. Loaded(StartOf(k)) = IF StartOf(k) \in Readable THEN 1 ELSE 0
    BY <1>1, <2>1, LoadedOnce
  <2>3. Loaded(EndOf(k)) = IF EndOf(k) \in Readable THEN 1 ELSE 0
    BY <1>1, <2>1, LoadedOnce
  <2> QED
    BY <2>2, <2>3 DEF Rows
<1> QED
  BY <1>1, AlwaysPlaced, AlwaysStream, AlwaysUnique, PTL
=============================================================================
