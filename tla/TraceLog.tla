------------------------------ MODULE TraceLog ------------------------------
(***************************************************************************)
(* What the emitter promises of the records its threads hand to it, with   *)
(* no threads, ring buffers or flusher: a record is offered once; from     *)
(* then on it is in flight until it reaches the log, is turned away and    *)
(* counted, or vanishes.  Each of these fates is final, and the records of *)
(* one thread reach the log in the order in which the thread offered them. *)
(***************************************************************************)
EXTENDS Integers, Sequences, FiniteSets, Functions

CONSTANT Records  \* records with a thread (thr) and a number in it (n)

VARIABLES
  inflight,  \* offered, and no fate yet
  log,       \* the trace, in file order
  dropped,   \* turned away
  count,     \* the counter of records turned away
  vanished   \* taken and then lost without a trace

vars == <<inflight, log, dropped, count, vanished>>

Known == inflight \cup Range(log) \cup dropped \cup vanished

\* Records of one thread appear in s in the order of their numbers.
Ordered(s) ==
  \A i, j \in 1 .. Len(s) : i < j /\ s[i].thr = s[j].thr => s[i].n < s[j].n

Init ==
  /\ inflight = {} /\ log = <<>> /\ dropped = {} /\ count = 0 /\ vanished = {}

\* One new record, numbered above all earlier ones of its thread.
Offer == \E r \in inflight' \ inflight :
  /\ r \in Records
  /\ \A q \in Known : q.thr = r.thr => q.n < r.n
  /\ inflight' = inflight \cup {r}
  /\ UNCHANGED <<log, dropped, count, vanished>>

Drop == \E r \in inflight :
  /\ inflight' = inflight \ {r}
  /\ dropped' = dropped \cup {r}
  /\ count' = count + 1
  /\ UNCHANGED <<log, vanished>>

\* Records in flight vanish.
Vanish(R) ==
  /\ R \subseteq inflight
  /\ vanished' = vanished \cup R

\* Records in flight are appended to the log.
Deliver ==
  /\ Len(log') >= Len(log)
  /\ \A i \in 1 .. Len(log) : log'[i] = log[i]
  /\ \A i \in Len(log) + 1 .. Len(log') : log'[i] \in inflight
  /\ Ordered(log')

\* A batch is delivered, or the front of one while the rest of it vanishes.
DeliverOrVanish == \E R \in SUBSET inflight :
  /\ Deliver
  /\ Vanish(R)
  /\ R \cap Range(log') = {}
  /\ inflight' = inflight \ (R \cup Range(log'))
  /\ UNCHANGED <<dropped, count>>

Next == Offer \/ Drop \/ DeliverOrVanish

Spec == Init /\ [][Next]_vars
=============================================================================
