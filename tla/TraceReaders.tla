----------------------------- MODULE TraceReaders -----------------------------
(***************************************************************************)
(* What is read from the files of a worker, whenever it is read: by the    *)
(* validator (scripts/validate_traces.py) and by the analysis              *)
(* (analysis/lib/load.py, _transfer_pairs() of analysis/build_index.py).   *)
(*                                                                         *)
(* The records are those of transfers: record 2k - 1 is the start of       *)
(* transfer k and record 2k its end.  (The validator treats arrival and    *)
(* finish of a request like start and end of a transfer.)  Reading takes   *)
(* no time here, a reader sees the files as they are at one moment.        *)
(***************************************************************************)
EXTENDS OutputFile

Transfers == 1 .. (MaxRecords + 1) \div 2
StartOf(k) == 2 * k - 1
EndOf(k) == 2 * k

Files == Seqs \X {"jsonl", "gz"}
Pieces(f) == IF f[2] = "jsonl" THEN jsonl[f[1]] ELSE gz[f[1]].data

\* Where the lines among the pieces p end, and where those that are JSON do.
LineEnds(p) == {i \in DOMAIN p : p[i][2] = "end" \/ i = Len(p)}
Parsed(p) ==
  {i \in DOMAIN p \ {1} :
     /\ p[i - 1] = <<p[i][1], "front">> /\ p[i][2] = "end"
     /\ i > 2 => p[i - 2][2] = "end"}

BadLines(f) == LineEnds(Pieces(f)) \ Parsed(Pieces(f))

\* Where in file f record r is read.
ReadAt(f, r) == {i \in Parsed(Pieces(f)) : Pieces(f)[i][1] = r}

-----------------------------------------------------------------------------
(* The validator reports a bad line and goes on, gives up a cut-off .gz    *)
(* without counting it, and keeps its books over all files.                *)

Errors == UNION {{f} \X BadLines(f) : f \in Files}

\* A compressed file that is there beside the file it was made of.
HalfCompressed(f) == f[2] = "gz" /\ gz[f[1]].is = "whole" /\ zip[f[1]] = "none" /\ jsonl[f[1]] # <<>>

Found(r) == \E f \in Files : ReadAt(f, r) # {}

Orphans_BugPerFile ==
  {k \in Transfers : \E f \in Files : ReadAt(f, StartOf(k)) # {} /\ ReadAt(f, EndOf(k)) = {}}
Orphans == {k \in Transfers : Found(StartOf(k)) /\ ~Found(EndOf(k))}

-----------------------------------------------------------------------------
(* The analysis stops with an exception at a bad line or a cut-off .gz.    *)
(* It reads every file, both forms of one too, and joins ends to starts.   *)

LoadRaises == \E f \in Files : BadLines(f) # {} \/ (f[2] = "gz" /\ gz[f[1]].is = "partial")

\* How often record r is loaded, from all places in all files.
Loaded(r) == Cardinality(UNION {{f} \X ReadAt(f, r) : f \in Files})

\* Rows of transfer_pairs for transfer k.
Rows_BugInnerJoin(k) == Loaded(StartOf(k)) * Loaded(EndOf(k))
Rows(k) == Loaded(StartOf(k)) * (IF Loaded(EndOf(k)) = 0 THEN 1 ELSE Loaded(EndOf(k)))

-----------------------------------------------------------------------------
\* After a shutdown() the validator finds the whole of what the process wrote,
\* whatever its gzip threads are in the middle of and whether or not they ever
\* finish: it reports as orphans those transfers alone that have no end, though
\* start and end lie in different files (DESIGN.md:696).  Where there was no
\* earlier process, each error it counts is the last line of a compressed file
\* whose compression failed half-way, and the uncompressed file is still there.
ClosedTraceValidates ==
  fresh /\ wpc = "closed" =>
    /\ CloseKeepsAll
    /\ \A k \in Transfers :
         first[life] <= StartOf(k) /\ StartOf(k) <= count /\ {StartOf(k), EndOf(k)} \cap spoilt = {} =>
           (k \in Orphans <=> EndOf(k) > count)
    /\ life = 1 => \A e \in Errors : HalfCompressed(e[1]) /\ e[2] = Len(Pieces(e[1]))

\* At any moment at which no file is there in both forms and the analysis does
\* not raise, it makes exactly one row of every transfer whose start can be
\* read, across rotations, compressions and processes.
PairsOnceWhenSettled ==
  (\A s \in Seqs : jsonl[s] = <<>> \/ gz[s] = NoGz) /\ ~LoadRaises =>
    \A k \in Transfers : Rows(k) = IF StartOf(k) \in Readable THEN 1 ELSE 0
=============================================================================
