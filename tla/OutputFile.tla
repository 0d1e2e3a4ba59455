------------------------------ MODULE OutputFile ------------------------------
(***************************************************************************)
(* The files of one worker's trace: _OutputFile and _gzip_file() of        *)
(* bkvt/emitter.py.  The flusher thread appends batches of records through *)
(* a buffered file object, goes on to the next numbered file when one has  *)
(* reached its size, and leaves the old one to a gzip thread.  The process *)
(* may be killed or exit at any point and may be started again on the same *)
(* path, as it is when BKVT_TRACE_ID names the trace.                      *)
(*                                                                         *)
(* A record is two pieces of its line, front and end (with the newline):   *)
(* enough to see lines cut in two.  Sizes are in records.  A compressed    *)
(* file that was closed ("whole") is read to its end, also where only a    *)
(* part of its lines had been copied; one that was not ("partial") makes   *)
(* its reader fail, and what could be read of it before that counts for    *)
(* nothing here.  The variables first, spoilt and fresh are history.       *)
(***************************************************************************)
EXTENDS Integers, Sequences, FiniteSets

CONSTANTS
  MaxRecords,  \* bound: records written in all
  MaxBatch,    \* bound: records of one batch
  RotateAt,    \* rotate_bytes
  MaxLives     \* bound: processes that open the path, one after the other

ASSUME OutputFileAssumption ==
  /\ MaxRecords \in Nat /\ MaxLives \in Nat
  /\ MaxBatch \in Nat \ {0} /\ RotateAt \in Nat \ {0}

VARIABLES
  life,     \* processes started so far
  wpc,      \* where the process is: in no write ("idle"), rotating, closed, ...
  seq,      \* _seq
  written,  \* _written
  buf,      \* pieces in the buffer of the file object _fh
  jsonl,    \* jsonl[s]: the pieces in file number s; a missing file is empty
  gz,       \* gz[s]: the compressed file: whether it is there and was closed
  zip,      \* zip[s]: where the gzip thread of file s is
  count,    \* records written so far; a record is named by its number
  first,    \* first[l]: the number of the first record process l would write
  spoilt,   \* records written next after opening a file that ends in mid-line
  fresh     \* no process so far has found a compressed file

writer  == <<wpc, seq, written, buf>>
disk    == <<jsonl, gz>>
history == <<first, spoilt, fresh>>
vars == <<life, writer, disk, zip, count, history>>

Seqs == 1 .. MaxRecords + 2
Lives == 1 .. MaxLives
Records == 1 .. MaxRecords

NoGz == [is |-> "none", data |-> <<>>]
Partial == [is |-> "partial", data |-> <<>>]
Whole(p) == [is |-> "whole", data |-> p]

Init ==
  /\ life = 0 /\ wpc = "down"
  /\ seq = 1 /\ written = 0 /\ buf = <<>>
  /\ jsonl = [s \in Seqs |-> <<>>]
  /\ gz = [s \in Seqs |-> NoGz]
  /\ zip = [s \in Seqs |-> "none"]
  /\ count = 0
  /\ first = [l \in Lives |-> 0] /\ spoilt = {} /\ fresh = TRUE

-----------------------------------------------------------------------------
(* The writer, on the flusher thread.                                      *)

\* Opening a file for appending does not look at how it ends.
OpenAppend(s) ==
  spoilt' = IF jsonl[s] # <<>> /\ jsonl[s][Len(jsonl[s])][2] = "front"
              THEN spoilt \cup {count + 1} ELSE spoilt

\* A process starts: _OutputFile.__init__() opens file number 1 for appending.
Start ==
  /\ wpc = "down" /\ life < MaxLives
  /\ life' = life + 1
  /\ wpc' = "idle" /\ seq' = 1 /\ written' = 0 /\ buf' = <<>>
  /\ first' = [first EXCEPT ![life + 1] = count + 1]
  /\ OpenAppend(1)
  /\ fresh' = (fresh /\ \A s \in Seqs : gz[s] = NoGz)
  /\ UNCHANGED <<disk, zip, count>>

\* The lines of n new records.
Lines(n) == [i \in 1 .. 2 * n |-> <<count + (i + 1) \div 2, IF i % 2 = 1 THEN "front" ELSE "end">>]

\* The first k pieces of p go to the file, the others stay in the buffer.
Spill(p, k) ==
  /\ jsonl' = [jsonl EXCEPT ![seq] = @ \o SubSeq(p, 1, k)]
  /\ buf' = SubSeq(p, k + 1, Len(p))

\* write_batch(): the file object passes on as much as it likes.
WriteBatch ==
  /\ wpc = "idle"
  /\ \E n \in 1 .. MaxBatch :
       /\ count + n <= MaxRecords
       /\ count' = count + n
       /\ \E k \in 0 .. Len(buf) + 2 * n : Spill(buf \o Lines(n), k)
       /\ written' = written + n
       /\ wpc' = IF written + n >= RotateAt THEN "flush" ELSE "idle"
  /\ UNCHANGED <<life, seq, gz, zip, history>>

\* The write raises when it has taken only the first m pieces: the exception
\* ends the flusher thread.
WriteFails ==
  /\ wpc = "idle"
  /\ \E n \in 1 .. MaxBatch :
       /\ count + n <= MaxRecords
       /\ count' = count + n
       /\ \E m \in Len(buf) .. Len(buf) + 2 * n : \E k \in 0 .. m :
            Spill(SubSeq(buf \o Lines(n), 1, m), k)
  /\ wpc' = "dead"
  /\ UNCHANGED <<life, seq, written, gz, zip, history>>

\* _rotate(): flush and close the file ...
RotateFlush_BugNoFlush ==
  /\ wpc = "flush"
  /\ wpc' = "open" /\ buf' = <<>>
  /\ UNCHANGED <<life, seq, written, disk, zip, count, history>>
RotateFlush ==
  /\ wpc = "flush"
  /\ Spill(buf, Len(buf))
  /\ wpc' = "open"
  /\ UNCHANGED <<life, seq, written, gz, zip, count, history>>

\* ... open the next one, and give the old one to a gzip thread.
RotateOpen ==
  /\ wpc = "open"
  /\ seq' = seq + 1 /\ written' = 0
  /\ wpc' = "idle"
  /\ zip' = [zip EXCEPT ![seq] = "begin"]
  /\ OpenAppend(seq + 1)
  /\ UNCHANGED <<life, buf, disk, count, first, fresh>>

\* The open raises, which ends the flusher thread too.
RotateFails ==
  /\ wpc = "open"
  /\ seq' = seq + 1 /\ written' = 0
  /\ wpc' = "dead"
  /\ UNCHANGED <<life, buf, disk, zip, count, history>>

\* close(), after the flusher's last pass.
Close ==
  /\ wpc = "idle"
  /\ Spill(buf, Len(buf))
  /\ wpc' = "closed"
  /\ UNCHANGED <<life, seq, written, gz, zip, count, history>>

\* The process ends: killed, or by an exit, which does not wait for its daemon
\* threads and may or may not flush a file object that was never closed.
ProcessEnds ==
  /\ wpc # "down"
  /\ \E k \in {0, Len(buf)} : jsonl' = [jsonl EXCEPT ![seq] = @ \o SubSeq(buf, 1, k)]
  /\ buf' = <<>> /\ wpc' = "down"
  /\ zip' = [s \in Seqs |-> "none"]
  /\ UNCHANGED <<life, seq, written, gz, count, history>>

-----------------------------------------------------------------------------
(* The gzip thread of file s.                                              *)

ZipBegin(s) ==
  /\ zip[s] = "begin"
  /\ zip' = [zip EXCEPT ![s] = "copy"]
  /\ gz' = [gz EXCEPT ![s] = Partial]
  /\ UNCHANGED <<life, writer, jsonl, count, history>>

ZipCopy(s) ==
  /\ zip[s] = "copy"
  /\ zip' = [zip EXCEPT ![s] = "remove"]
  /\ gz' = [gz EXCEPT ![s] = Whole(jsonl[s])]
  /\ UNCHANGED <<life, writer, jsonl, count, history>>

ZipRemove(s) ==
  /\ zip[s] = "remove"
  /\ zip' = [zip EXCEPT ![s] = "none"]
  /\ jsonl' = [jsonl EXCEPT ![s] = <<>>]
  /\ UNCHANGED <<life, writer, gz, count, history>>

\* An exception at any point is logged; what there is of both files stays.  One
\* raised while the pieces are copied closes the compressed file on its way out,
\* so that the first pieces are there as if they were all; or closing fails too.
ZipFails_BugRemoves(s) ==
  /\ zip[s] # "none"
  /\ zip' = [zip EXCEPT ![s] = "none"]
  /\ jsonl' = [jsonl EXCEPT ![s] = <<>>]
  /\ UNCHANGED <<life, writer, gz, count, history>>
ZipFails(s) ==
  /\ zip[s] # "none"
  /\ zip' = [zip EXCEPT ![s] = "none"]
  /\ \/ UNCHANGED gz
     \/ /\ zip[s] = "copy"
        /\ \E k \in 0 .. Len(jsonl[s]) : gz' = [gz EXCEPT ![s] = Whole(SubSeq(jsonl[s], 1, k))]
  /\ UNCHANGED <<life, writer, jsonl, count, history>>

Writer ==
  \/ Start \/ WriteBatch \/ WriteFails \/ RotateFlush \/ RotateOpen \/ RotateFails
  \/ Close \/ ProcessEnds

Zip(s) == ZipBegin(s) \/ ZipCopy(s) \/ ZipRemove(s) \/ ZipFails(s)

Next == Writer \/ \E s \in Seqs : Zip(s)

Spec == Init /\ [][Next]_vars

-----------------------------------------------------------------------------
\* The records a reader finds among the pieces p: those whose line is whole.
WholeLines(p) ==
  {r \in Records : \E i \in 1 .. Len(p) - 1 :
     /\ p[i] = <<r, "front">> /\ p[i + 1] = <<r, "end">>
     /\ i > 1 => p[i - 1][2] = "end"}

Readable == UNION {WholeLines(jsonl[s]) \cup WholeLines(gz[s].data) : s \in Seqs}

\* A record that could once be read from the files can be read ever after:
\* through rotation, compression, a failing gzip thread and the end of the
\* process in the middle of any of them, and through new processes that append
\* to the same files, as long as these have not found files already compressed.
StaysReadable == [][fresh' => Readable \subseteq Readable']_vars

LifeOf(r) == CHOOSE l \in 1 .. life : /\ first[l] <= r
                                      /\ \A m \in l + 1 .. life : first[m] > r

\* What a dying process takes with it are its newest records: no record is
\* missing before one of the same process that is there, except one written
\* behind a line that an earlier process left cut in two.
OnlyNewestAreLost ==
  fresh => \A r \in Readable, q \in 1 .. count :
    q < r /\ LifeOf(q) = LifeOf(r) => q \in Readable \cup spoilt

\* Once shutdown() has closed the file, every record the process has written is
\* in the files (but for those behind a cut line), whatever its gzip threads
\* are doing and even if they never finish.
CloseKeepsAll ==
  fresh /\ wpc = "closed" => first[life] .. count \subseteq Readable \cup spoilt
=============================================================================
