----------------------------- MODULE MCEmitter -----------------------------
(* Instances of Emitter for TLC: two threads that differ in what they issue. *)
EXTENDS Emitter, TLC

CONSTANTS t1, t2, x1, x2

MCThreads == {t1, t2}
Rec31 == t1 :> 3 @@ t2 :> 1
Rec22 == t1 :> 2 @@ t2 :> 2
Rec21 == t1 :> 2 @@ t2 :> 1
NoEvents == t1 :> {} @@ t2 :> {}
GoodEvents == t1 :> {"event"} @@ t2 :> {"event"}
SomeBadEvents == t1 :> {"event"} @@ t2 :> {"event", "bad"}
=============================================================================
