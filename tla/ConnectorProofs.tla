--------------------------- MODULE ConnectorProofs ---------------------------
(***************************************************************************)
(* Proofs about the connector wrapper for any number of threads, layers    *)
(* and transfers, with failing and interrupted calls.                      *)
(***************************************************************************)
EXTENDS ConnectorTransfers, TLAPS

USE DEF LayerKeys

-----------------------------------------------------------------------------
LEMMA TypedInit == Init => TypeOK
  BY DEF Init, TypeOK, InCall

LEMMA TypedNext == TypeOK /\ [Next]_vars => TypeOK'
<1> SUFFICES ASSUME TypeOK, [Next]_vars PROVE TypeOK'
  OBVIOUS
<1> USE DEF TypeOK, InCall, Goto, Leave, booked, outside
<1>1. ASSUME NEW t \in Threads, StartLoadKV(t) PROVE TypeOK'
  <2>1. PICK l \in LayerKeys : Start(t, "load", l, "loading")
    BY <1>1 DEF StartLoadKV
  <2> QED
    BY <2>1 DEF Start, Drawn
<1>2. ASSUME NEW t \in Threads, SaveKVLayer(t) PROVE TypeOK'
  <2>1. PICK l \in Layers : Start(t, "save", l, "saving")
    BY <1>2 DEF SaveKVLayer
  <2> QED
    BY <2>1 DEF Start, Drawn
<1>3. ASSUME NEW t \in Threads, WaitForSave(t) PROVE TypeOK'
  BY <1>3 DEF WaitForSave
<1>4. ASSUME NEW t \in Threads, GetFinished(t) PROVE TypeOK'
  BY <1>4 DEF GetFinished
<1>5. ASSUME NEW t \in Threads, NEW l \in LayerKeys, WaitForLayerLoad(t, l) PROVE TypeOK'
  BY <1>5 DEF WaitForLayerLoad
<1>6. ASSUME NEW t \in Threads, InnerStarts(t) PROVE TypeOK'
  BY <1>6 DEF InnerStarts
<1>7. ASSUME NEW t \in Threads, AddLoad(t) PROVE TypeOK'
  BY <1>7 DEF AddLoad
<1>8. ASSUME NEW t \in Threads, AddSave(t) PROVE TypeOK'
  BY <1>8 DEF AddSave
<1>9. ASSUME NEW t \in Threads, InnerWaitReturns(t) PROVE TypeOK'
  BY <1>9 DEF InnerWaitReturns
<1>10. ASSUME NEW t \in Threads, NEW next \in {"ending", "cancelling"}, Pop(t, next)
       PROVE  TypeOK'
  BY <1>10 DEF Pop, KeyOf, AfterPop
<1>11. ASSUME NEW t \in Threads, End(t) PROVE TypeOK'
  BY <1>11 DEF End
<1>12. ASSUME NEW t \in Threads, Return(t) PROVE TypeOK'
  BY <1>12 DEF Return
<1>13. ASSUME NEW t \in Threads, InnerStartRaises(t) PROVE TypeOK'
  BY <1>13 DEF InnerStartRaises
<1>14. ASSUME NEW t \in Threads, InnerStartInterrupted(t) PROVE TypeOK'
  BY <1>14 DEF InnerStartInterrupted
<1>15. ASSUME NEW t \in Threads, WaitInterrupted(t) PROVE TypeOK'
  BY <1>15 DEF WaitInterrupted
<1>16. ASSUME NEW x \in Transfers, NEW l \in Layers, Arrive(x, l) PROVE TypeOK'
  BY <1>16 DEF Arrive
<1>17. CASE UNCHANGED vars
  BY <1>17 DEF vars
<1> QED
  BY <1>1, <1>2, <1>3, <1>4, <1>5, <1>6, <1>7, <1>8, <1>9, <1>10, <1>11, <1>12,
     <1>13, <1>14, <1>15, <1>16, <1>17
     DEF Next, Call, Returns, Fails, PopAfterWait, WaitRaises

\* The type invariant of the wrapper (connector_wrapper.py:156-430): ids are
\* drawn ids wherever they are kept, keys are layers or None.
THEOREM TypeCorrect == Spec => []TypeOK
<1>1. Init => TypeOK
  BY TypedInit
<1>2. TypeOK /\ [Next]_vars => TypeOK'
  BY TypedNext
<1> QED
  BY <1>1, <1>2, PTL DEF Spec

-----------------------------------------------------------------------------
(* One place.  OnePlace alone is not inductive: a call that starts or pops *)
(* transfers overwrites what its thread held, so it must hold nothing.     *)

EmptyHanded == \A t \in Threads :
  pc[t] \in {"idle", "waitload", "popload", "waitsave", "popsave"} => hand[t] = {}

Placed == TypeOK /\ OnePlace /\ EmptyHanded

LEMMA PlacedInit == Init => Placed
<1> SUFFICES ASSUME Init PROVE Placed
  OBVIOUS
<1>1. TypeOK
  BY TypedInit
<1>2. OnePlace
  BY DEF Init, OnePlace, Apart, Held, Open
<1> QED
  BY <1>1, <1>2 DEF Placed, EmptyHanded, Init

LEMMA StartPlaced ==
  ASSUME Placed, TypeOK', NEW t \in Threads, NEW dir \in {"load", "save"}, NEW l \in LayerKeys,
         NEW next \in {"loading", "saving"}, Start(t, dir, l, next)
  PROVE  Placed'
<1> USE DEF Placed
<1>1. PICK x \in Transfers :
        /\ status[x] = "unused"
        /\ status' = [status EXCEPT ![x] = "open"]
        /\ hand' = [hand EXCEPT ![t] = {x}]
  BY DEF Start, Drawn
<1>2. hand[t] = {} /\ UNCHANGED <<loads, saves, abandoned>>
  BY DEF Start, EmptyHanded, booked, outside
<1>3. x \notin Held /\ x \notin abandoned
  BY <1>1 DEF OnePlace, Open
<1>4. \A u \in Threads : x \notin hand[u]
  BY <1>3 DEF Held
<1>5. \A m \in LayerKeys : x \notin loads[m]
  BY <1>3 DEF Held
<1>6. x \notin saves
  BY <1>3 DEF Held
<1>7. Apart'
  BY <1>1, <1>2, <1>4, <1>5, <1>6 DEF OnePlace, Apart, TypeOK
<1>8. Held' = Held \cup {x}
  BY <1>1, <1>2 DEF Held, TypeOK
<1>9. Open' = Open \cup {x}
  BY <1>1 DEF Open, TypeOK
<1>10. OnePlace'
  BY <1>2, <1>3, <1>7, <1>8, <1>9 DEF OnePlace
<1>11. EmptyHanded'
  BY <1>1 DEF Start, Goto, EmptyHanded, TypeOK
<1> QED
  BY <1>10, <1>11

LEMMA PopPlaced ==
  ASSUME Placed, TypeOK', NEW t \in Threads, NEW next \in {"ending", "cancelling"}, Pop(t, next),
         pc[t] \in {"waitload", "popload", "waitsave", "popsave"}
  PROVE  Placed'
<1> USE DEF Placed
<1> DEFINE k == KeyOf(arg[t])
<1>1. hand[t] = {} /\ UNCHANGED <<status, abandoned>>
  BY DEF Pop, EmptyHanded, outside
<1>2. k \in LayerKeys
  BY DEF KeyOf, TypeOK
<1>3. \/ /\ hand' = [hand EXCEPT ![t] = loads[k]]
         /\ loads' = [loads EXCEPT ![k] = {}]
         /\ saves' = saves
      \/ /\ hand' = [hand EXCEPT ![t] = saves]
         /\ saves' = {}
         /\ loads' = loads
  BY DEF Pop, AfterPop
<1> HIDE DEF k
<1>4. Apart' /\ Held' = Held
  <2>1. CASE /\ hand' = [hand EXCEPT ![t] = loads[k]]
             /\ loads' = [loads EXCEPT ![k] = {}]
             /\ saves' = saves
    <3>1. \A u \in Threads : hand'[u] = IF u = t THEN loads[k] ELSE hand[u]
      BY <2>1 DEF TypeOK
    <3>2. \A m \in LayerKeys : loads'[m] = IF m = k THEN {} ELSE loads[m]
      BY <2>1 DEF TypeOK
    <3>3. Apart'
      BY <1>1, <1>2, <2>1, <3>1, <3>2 DEF OnePlace, Apart
    <3>4. Held' = Held
      BY <1>1, <1>2, <2>1, <3>1, <3>2 DEF Held
    <3> QED
      BY <3>3, <3>4
  <2>2. CASE /\ hand' = [hand EXCEPT ![t] = saves]
             /\ saves' = {}
             /\ loads' = loads
    <3>1. \A u \in Threads : hand'[u] = IF u = t THEN saves ELSE hand[u]
      BY <2>2 DEF TypeOK
    <3>2. Apart'
      BY <1>1, <2>2, <3>1 DEF OnePlace, Apart
    <3>3. Held' = Held
      BY <1>1, <2>2, <3>1 DEF Held
    <3> QED
      BY <3>2, <3>3
  <2> QED
    BY <1>3, <2>1, <2>2
<1>5. Open' = Open
  BY <1>1 DEF Open
<1>6. OnePlace'
  BY <1>1, <1>4, <1>5 DEF OnePlace
<1>7. EmptyHanded'
  BY <1>3 DEF Pop, Goto, EmptyHanded, TypeOK
<1> QED
  BY <1>6, <1>7

LEMMA BookPlaced ==
  ASSUME Placed, TypeOK', NEW t \in Threads, AddLoad(t) \/ AddSave(t)
  PROVE  Placed'
<1> USE DEF Placed
<1>1. /\ hand' = [hand EXCEPT ![t] = {}]
      /\ UNCHANGED <<status, abandoned>>
      /\ pc' = [pc EXCEPT ![t] = "idle"]
  BY DEF AddLoad, AddSave, Leave, outside
<1>2. \/ /\ loads' = [loads EXCEPT ![arg[t]] = @ \cup hand[t]]
         /\ saves' = saves
      \/ /\ saves' = saves \cup hand[t]
         /\ loads' = loads
  BY DEF AddLoad, AddSave
<1>3. arg[t] \in LayerKeys
  BY DEF TypeOK
<1>4. Apart' /\ Held' = Held
  <2>1. \A u \in Threads : hand'[u] = IF u = t THEN {} ELSE hand[u]
    BY <1>1 DEF TypeOK
  <2>2. CASE loads' = [loads EXCEPT ![arg[t]] = @ \cup hand[t]] /\ saves' = saves
    <3>1. \A m \in LayerKeys :
            loads'[m] = IF m = arg[t] THEN loads[m] \cup hand[t] ELSE loads[m]
      BY <2>2 DEF TypeOK
    <3>2. Apart'
      BY <1>3, <2>1, <2>2, <3>1 DEF OnePlace, Apart
    <3>3. Held' = Held
      BY <1>3, <2>1, <2>2, <3>1 DEF Held
    <3> QED
      BY <3>2, <3>3
  <2>3. CASE saves' = saves \cup hand[t] /\ loads' = loads
    <3>1. Apart'
      BY <2>1, <2>3 DEF OnePlace, Apart
    <3>2. Held' = Held
      BY <2>1, <2>3 DEF Held
    <3> QED
      BY <3>1, <3>2
  <2> QED
    BY <1>2, <2>2, <2>3
<1>5. Open' = Open
  BY <1>1 DEF Open
<1>6. OnePlace'
  BY <1>1, <1>4, <1>5 DEF OnePlace
<1>7. EmptyHanded'
  BY <1>1 DEF EmptyHanded, TypeOK
<1> QED
  BY <1>6, <1>7

LEMMA EndPlaced ==
  ASSUME Placed, TypeOK', NEW t \in Threads, End(t)
  PROVE  Placed'
<1> USE DEF Placed
<1>1. PICK x \in hand[t] :
        /\ hand' = [hand EXCEPT ![t] = @ \ {x}]
        /\ status' = IF status[x] # "open" THEN status
                     ELSE [status EXCEPT ![x] = IF pc[t] = "ending" THEN "end" ELSE "cancel"]
  BY DEF End
<1>2. /\ UNCHANGED <<pc, loads, saves, abandoned>>
      /\ pc[t] \in {"ending", "cancelling"}
  BY DEF End, booked, outside
<1>3. x \in Transfers /\ x \in Held
  BY DEF Held, TypeOK
<1>4. x \in Open /\ x \notin abandoned
  BY <1>3 DEF OnePlace
<1>5. Open' = Open \ {x}
  BY <1>1, <1>3, <1>4 DEF Open, TypeOK
<1>6. Apart'
  BY <1>1, <1>2 DEF OnePlace, Apart, TypeOK
<1>7. \A u \in Threads : u # t => x \notin hand[u]
  BY DEF OnePlace, Apart
<1>8. x \notin saves /\ \A l \in LayerKeys : x \notin loads[l]
  BY DEF OnePlace, Apart
<1>9. Held' = Held \ {x}
  BY <1>1, <1>2, <1>7, <1>8 DEF Held, TypeOK
<1>10. OnePlace'
  BY <1>2, <1>4, <1>5, <1>6, <1>9 DEF OnePlace
<1>11. EmptyHanded'
  BY <1>1, <1>2 DEF EmptyHanded, TypeOK
<1> QED
  BY <1>10, <1>11

LEMMA InterruptPlaced ==
  ASSUME Placed, TypeOK', NEW t \in Threads, InnerStartInterrupted(t)
  PROVE  Placed'
<1> USE DEF Placed
<1>1. /\ hand' = [hand EXCEPT ![t] = {}]
      /\ abandoned' = abandoned \cup hand[t]
      /\ UNCHANGED <<loads, saves, status>>
      /\ pc' = [pc EXCEPT ![t] = "idle"]
  BY DEF InnerStartInterrupted, Leave, booked
<1>2. Apart'
  BY <1>1 DEF OnePlace, Apart, TypeOK
<1>3. Held' = Held \ hand[t]
  BY <1>1 DEF Held, OnePlace, Apart, TypeOK
<1>4. hand[t] \subseteq Held
  BY DEF Held, TypeOK
<1>5. OnePlace'
  BY <1>1, <1>2, <1>3, <1>4 DEF OnePlace, Open
<1>6. EmptyHanded'
  BY <1>1 DEF EmptyHanded, TypeOK
<1> QED
  BY <1>5, <1>6

\* The other steps move a thread on and leave every transfer where it is.
LEMMA StayPlaced ==
  ASSUME Placed, TypeOK', UNCHANGED <<hand, loads, saves, status, abandoned>>, EmptyHanded'
  PROVE  Placed'
<1>1. OnePlace'
  BY DEF Placed, OnePlace, Apart, Held, Open
<1> QED
  BY <1>1 DEF Placed

LEMMA PlacedNext == Placed /\ [Next]_vars => Placed'
<1> SUFFICES ASSUME Placed, [Next]_vars PROVE Placed'
  OBVIOUS
<1>0. TypeOK /\ TypeOK' /\ EmptyHanded
  BY TypedNext DEF Placed
<1> DEFINE Stays == UNCHANGED <<hand, loads, saves, status, abandoned>>
<1> USE DEF booked, outside
<1>1. ASSUME NEW t \in Threads, StartLoadKV(t) \/ SaveKVLayer(t) PROVE Placed'
  BY <1>0, <1>1, StartPlaced DEF StartLoadKV, SaveKVLayer
<1>2. ASSUME NEW t \in Threads, PopAfterWait(t) \/ WaitRaises(t) PROVE Placed'
  BY <1>0, <1>2, PopPlaced DEF PopAfterWait, WaitRaises
<1>3. ASSUME NEW t \in Threads, AddLoad(t) \/ AddSave(t) PROVE Placed'
  BY <1>0, <1>3, BookPlaced
<1>4. ASSUME NEW t \in Threads, End(t) PROVE Placed'
  BY <1>0, <1>4, EndPlaced
<1>5. ASSUME NEW t \in Threads, InnerStartInterrupted(t) PROVE Placed'
  BY <1>0, <1>5, InterruptPlaced
<1>6. ASSUME NEW t \in Threads,
             \/ WaitForSave(t) \/ \E l \in LayerKeys : WaitForLayerLoad(t, l)
             \/ InnerStarts(t) \/ InnerWaitReturns(t) \/ InnerStartRaises(t)
      PROVE  Stays /\ EmptyHanded'
  BY <1>0, <1>6 DEF WaitForSave, WaitForLayerLoad, InnerStarts, InnerWaitReturns,
                    InnerStartRaises, Goto, EmptyHanded, TypeOK
<1>7. ASSUME NEW t \in Threads, WaitInterrupted(t) \/ Return(t) PROVE Stays /\ EmptyHanded'
  BY <1>0, <1>7 DEF WaitInterrupted, Return, Leave, EmptyHanded, TypeOK
<1>8. ASSUME \/ \E t \in Threads : GetFinished(t)
             \/ \E x \in Transfers, l \in Layers : Arrive(x, l)
             \/ UNCHANGED vars
      PROVE  Stays /\ EmptyHanded'
  BY <1>0, <1>8 DEF GetFinished, Arrive, vars, EmptyHanded
<1> QED
  BY <1>0, <1>1, <1>2, <1>3, <1>4, <1>5, <1>6, <1>7, <1>8, StayPlaced
     DEF Next, Call, Returns, Fails

\* Whatever threads start, wait and fail at once, a transfer that is open is in
\* the hands of one call, under one layer of _loads_by_layer, or in _saves, and
\* in no second place (connector_wrapper.py:177-196, 306-345, 382-420).
THEOREM TransfersHaveOnePlace == Spec => []OnePlace
<1>1. Init => Placed
  BY PlacedInit
<1>2. Placed /\ [Next]_vars => Placed'
  BY PlacedNext
<1>3. Placed => OnePlace
  BY DEF Placed
<1> QED
  BY <1>1, <1>2, <1>3, PTL DEF Spec

-----------------------------------------------------------------------------
(* Ends after arrival, for an engine that calls the connector from a       *)
(* single thread.  What is booked under a layer is an accepted load of     *)
(* that layer, so a wait for the layer that has returned vouches for it    *)
(* until the call pops it, and then while the call ends it.                *)

\* The transfers EndsAfterArrival speaks of.
Precise(x) == about[x].dir = "load" => about[x].layer # NoLayer

BookedRight ==
  /\ \A l \in LayerKeys : \A x \in loads[l] :
       x \in accepted /\ about[x].dir = "load" /\ about[x].layer = l
  /\ \A x \in saves : x \in accepted /\ about[x].dir = "save"

StartedRight == \A t \in Threads : \A x \in hand[t] :
  /\ pc[t] \in {"loading", "bookload"} => about[x].dir = "load" /\ about[x].layer = arg[t]
  /\ pc[t] \in {"saving", "booksave"} => about[x].dir = "save"
  /\ pc[t] \in {"bookload", "booksave"} => x \in accepted

WaitedFor == \A t \in Threads :
  /\ pc[t] = "popload" /\ arg[t] # NoLayer => \A x \in loads[arg[t]] : Moved(x)
  /\ pc[t] = "popsave" => \A x \in saves : Moved(x)
  /\ pc[t] = "ending" => \A x \in hand[t] : Precise(x) => Moved(x)

Served == BookedRight /\ StartedRight /\ WaitedFor /\ EndsAfterArrival

LEMMA ServedInit == Init => Served
  BY DEF Init, Served, BookedRight, StartedRight, WaitedFor, EndsAfterArrival

\* Starting a transfer rewrites what is known of an unused id only, and
\* nothing unused is held or closed.
LEMMA StartServed ==
  ASSUME Placed, Served, NEW t \in Threads, NEW dir \in {"load", "save"}, NEW l \in LayerKeys,
         NEW next \in {"loading", "saving"}, next = "loading" <=> dir = "load",
         Start(t, dir, l, next)
  PROVE  Served'
<1> USE DEF Placed, TypeOK
<1>1. PICK x \in Transfers :
        /\ status[x] = "unused"
        /\ status' = [status EXCEPT ![x] = "open"]
        /\ about' = [about EXCEPT ![x] = [dir |-> dir, layer |-> l]]
        /\ hand' = [hand EXCEPT ![t] = {x}]
  BY DEF Start, Drawn
<1>2. /\ UNCHANGED <<loads, saves, accepted, arrived>>
      /\ pc' = [pc EXCEPT ![t] = next]
      /\ arg' = [arg EXCEPT ![t] = l]
  BY DEF Start, Goto, booked, outside
<1>3. x \notin Held
  BY <1>1 DEF OnePlace, Open
<1>4. \A m \in LayerKeys : x \notin loads[m]
  BY <1>3 DEF Held
<1>5. x \notin saves /\ \A u \in Threads : x \notin hand[u]
  BY <1>3 DEF Held
<1>6. \A y \in Transfers : y # x => about'[y] = about[y]
  BY <1>1
<1>7. \A y \in Transfers : y # x => Moved(y)' = Moved(y) /\ Precise(y)' = Precise(y)
  BY <1>2, <1>6 DEF Moved, Covers, Precise
<1>8. BookedRight'
  BY <1>2, <1>4, <1>5, <1>6 DEF Served, BookedRight
<1>9. about'[x].dir = dir /\ about'[x].layer = l
  BY <1>1
<1>10. \A u \in Threads : u # t => hand'[u] = hand[u] /\ pc'[u] = pc[u] /\ arg'[u] = arg[u]
  BY <1>1, <1>2
<1>11. hand'[t] = {x} /\ pc'[t] = next /\ arg'[t] = l
  BY <1>1, <1>2
<1>12. StartedRight'
  BY <1>2, <1>5, <1>6, <1>9, <1>10, <1>11 DEF Served, StartedRight
<1>13. WaitedFor'
  <2>1. ASSUME NEW u \in Threads, u # t, pc[u] = "popload", arg[u] # NoLayer,
               NEW y \in loads[arg[u]]
        PROVE  Moved(y)'
    BY <1>4, <1>7, <2>1 DEF Served, WaitedFor
  <2>2. ASSUME NEW u \in Threads, u # t, pc[u] = "popsave", NEW y \in saves PROVE Moved(y)'
    BY <1>5, <1>7, <2>2 DEF Served, WaitedFor
  <2>3. ASSUME NEW u \in Threads, u # t, pc[u] = "ending", NEW y \in hand[u], Precise(y)'
        PROVE  Moved(y)'
    BY <1>5, <1>7, <2>3 DEF Served, WaitedFor
  <2> QED
    BY <1>2, <1>10, <1>11, <2>1, <2>2, <2>3 DEF WaitedFor
<1>14. EndsAfterArrival'
  <2> SUFFICES ASSUME NEW y \in Transfers, status'[y] = "end", Precise(y)'
               PROVE  Moved(y)'
    BY DEF EndsAfterArrival, Precise
  <2>1. y # x /\ status[y] = "end"
    BY <1>1
  <2> QED
    BY <1>7, <2>1 DEF Served, EndsAfterArrival, Precise
<1> QED
  BY <1>8, <1>12, <1>13, <1>14 DEF Served

\* The wait for a layer, or for the saves, returns: what is booked for it has
\* arrived.
LEMMA WaitServed ==
  ASSUME Placed, Served, NEW t \in Threads, InnerWaitReturns(t)
  PROVE  Served'
<1> USE DEF Placed, TypeOK
<1>1. UNCHANGED <<arg, hand, loads, saves, status, about, accepted, arrived>>
  BY DEF InnerWaitReturns, booked, outside
<1>2. /\ pc[t] \in {"waitload", "waitsave"}
      /\ pc' = [pc EXCEPT ![t] = IF pc[t] = "waitload" THEN "popload" ELSE "popsave"]
  BY DEF InnerWaitReturns, Goto
<1>3. BookedRight' /\ EndsAfterArrival'
  BY <1>1 DEF Served, BookedRight, EndsAfterArrival, Moved, Covers
<1>4. StartedRight'
  BY <1>1, <1>2 DEF Served, StartedRight
<1>5. ASSUME pc[t] = "waitload", arg[t] # NoLayer, NEW x \in loads[arg[t]] PROVE Moved(x)
  <2>1. x \in accepted /\ about[x].dir = "load" /\ about[x].layer = arg[t]
    BY <1>5 DEF Served, BookedRight
  <2>2. Covers(x) = {arg[t]}
    BY <1>5, <2>1 DEF Covers
  <2>3. <<x, arg[t]>> \in arrived
    BY <1>5, <2>1, <2>2 DEF InnerWaitReturns
  <2> QED
    BY <2>2, <2>3 DEF Moved
<1>6. ASSUME pc[t] = "waitsave", NEW x \in saves PROVE Moved(x)
  BY <1>6 DEF Served, BookedRight, InnerWaitReturns
<1>7. \A x \in Transfers : Moved(x)' = Moved(x) /\ Precise(x)' = Precise(x)
  BY <1>1 DEF Moved, Covers, Precise
<1>8. \A u \in Threads : u # t => pc'[u] = pc[u]
  BY <1>2
<1>9. WaitedFor'
  BY <1>1, <1>2, <1>5, <1>6, <1>7, <1>8 DEF Served, WaitedFor
<1> QED
  BY <1>3, <1>4, <1>9 DEF Served

LEMMA PopServed ==
  ASSUME Placed, Served, NEW t \in Threads, NEW next \in {"ending", "cancelling"}, Pop(t, next),
         \/ next = "ending" /\ pc[t] \in {"popload", "popsave"}
         \/ next = "cancelling" /\ pc[t] \in {"waitload", "waitsave"},
         Threads = {t}
  PROVE  Served'
<1> USE DEF Placed, TypeOK
<1>1. /\ UNCHANGED <<arg, status, about, accepted, arrived>>
      /\ pc' = [pc EXCEPT ![t] = next]
  BY DEF Pop, Goto, outside
<1>2. \A x \in Transfers : Moved(x)' = Moved(x) /\ Precise(x)' = Precise(x)
  BY <1>1 DEF Moved, Covers, Precise
<1>3. \A l \in LayerKeys : loads'[l] \subseteq loads[l]
  BY DEF Pop, AfterPop
<1>4. saves' \subseteq saves
  BY DEF Pop
<1>5. BookedRight'
  BY <1>1, <1>3, <1>4 DEF Served, BookedRight
<1>6. pc'[t] = next
  BY <1>1
<1>7. StartedRight'
  BY <1>6 DEF StartedRight
<1>8. ASSUME next = "ending", NEW x \in hand'[t], Precise(x) PROVE Moved(x)
  <2>1. CASE pc[t] = "popload"
    <3>1. KeyOf(arg[t]) \in {arg[t], NoLayer} /\ KeyOf(arg[t]) \in LayerKeys
      BY DEF KeyOf
    <3>2. x \in loads[KeyOf(arg[t])]
      BY <1>8, <2>1 DEF Pop
    <3>3. about[x].dir = "load" /\ about[x].layer = KeyOf(arg[t])
      BY <3>1, <3>2 DEF Served, BookedRight
    <3>4. KeyOf(arg[t]) = arg[t] /\ arg[t] # NoLayer
      BY <1>8, <3>1, <3>3 DEF Precise
    <3> QED
      BY <2>1, <3>2, <3>4 DEF Served, WaitedFor
  <2>2. CASE pc[t] = "popsave"
    BY <1>8, <2>2 DEF Pop, Served, WaitedFor
  <2> QED
    BY <1>8, <2>1, <2>2
<1>9. hand'[t] \subseteq Transfers
  BY DEF Pop, KeyOf
<1>10. WaitedFor'
  BY <1>2, <1>6, <1>8, <1>9 DEF WaitedFor
<1>11. EndsAfterArrival'
  BY <1>1, <1>2 DEF Served, EndsAfterArrival
<1> QED
  BY <1>5, <1>7, <1>10, <1>11 DEF Served

LEMMA BookServed ==
  ASSUME Placed, Served, NEW t \in Threads, AddLoad(t) \/ AddSave(t), Threads = {t}
  PROVE  Served'
<1> USE DEF Placed, TypeOK
<1>1. /\ UNCHANGED <<status, about, accepted, arrived>>
      /\ hand' = [hand EXCEPT ![t] = {}]
      /\ pc' = [pc EXCEPT ![t] = "idle"]
  BY DEF AddLoad, AddSave, Leave, outside
<1>2. BookedRight'
  <2>1. CASE AddLoad(t)
    BY <1>1, <2>1 DEF AddLoad, Served, BookedRight, StartedRight
  <2>2. CASE AddSave(t)
    BY <1>1, <2>2 DEF AddSave, Served, BookedRight, StartedRight
  <2> QED
    BY <2>1, <2>2
<1>3. pc'[t] = "idle" /\ hand'[t] = {}
  BY <1>1
<1>4. StartedRight' /\ WaitedFor'
  BY <1>3 DEF StartedRight, WaitedFor
<1>5. EndsAfterArrival'
  BY <1>1 DEF Served, EndsAfterArrival, Moved, Covers
<1> QED
  BY <1>2, <1>4, <1>5 DEF Served

LEMMA EndServed ==
  ASSUME Placed, Served, NEW t \in Threads, End(t)
  PROVE  Served'
<1> USE DEF Placed, TypeOK
<1>1. PICK x \in hand[t] :
        /\ hand' = [hand EXCEPT ![t] = @ \ {x}]
        /\ status' = IF status[x] # "open" THEN status
                     ELSE [status EXCEPT ![x] = IF pc[t] = "ending" THEN "end" ELSE "cancel"]
  BY DEF End
<1>2. /\ UNCHANGED <<pc, arg, loads, saves, about, accepted, arrived>>
      /\ pc[t] \in {"ending", "cancelling"}
  BY DEF End, booked, outside
<1>3. \A y \in Transfers : Moved(y)' = Moved(y) /\ Precise(y)' = Precise(y)
  BY <1>2 DEF Moved, Covers, Precise
<1>4. BookedRight'
  BY <1>2 DEF Served, BookedRight
<1>5. \A u \in Threads : hand'[u] \subseteq hand[u]
  BY <1>1
<1>6. StartedRight'
  BY <1>2, <1>5 DEF Served, StartedRight
<1>7. WaitedFor'
  BY <1>2, <1>3, <1>5 DEF Served, WaitedFor
<1>8. EndsAfterArrival'
  <2> SUFFICES ASSUME NEW y \in Transfers, status'[y] = "end", Precise(y)'
               PROVE  Moved(y)'
    BY DEF EndsAfterArrival, Precise
  <2>1. CASE status[y] = "end"
    BY <1>3, <2>1 DEF Served, EndsAfterArrival, Precise
  <2>2. CASE status[y] # "end"
    <3>1. y = x /\ pc[t] = "ending"
      BY <1>1, <1>2, <2>2
    <3> QED
      BY <1>1, <1>3, <3>1 DEF Served, WaitedFor
  <2> QED
    BY <2>1, <2>2
<1> QED
  BY <1>4, <1>6, <1>7, <1>8 DEF Served

\* More bytes arrive, or the wrapped connector accepts a transfer.
LEMMA ProgressServed ==
  ASSUME Placed, Served, UNCHANGED <<arg, hand, loads, saves, status, about>>,
         accepted \subseteq accepted', arrived \subseteq arrived',
         \/ UNCHANGED pc
         \/ \E t \in Threads : InnerStarts(t)
  PROVE  Served'
<1> USE DEF Placed, TypeOK
<1>1. \A x \in Transfers : (Moved(x) => Moved(x)') /\ Precise(x)' = Precise(x)
  BY DEF Moved, Covers, Precise
<1>2. BookedRight'
  BY DEF Served, BookedRight
<1>3. EndsAfterArrival'
  BY <1>1 DEF Served, EndsAfterArrival
<1>4. CASE UNCHANGED pc
  <2>1. StartedRight' /\ WaitedFor'
    BY <1>1, <1>4 DEF Served, StartedRight, WaitedFor
  <2> QED
    BY <1>2, <1>3, <2>1 DEF Served
<1>5. ASSUME NEW t \in Threads, InnerStarts(t) PROVE Served'
  <2>1. /\ pc[t] \in {"loading", "saving"}
        /\ accepted' = accepted \cup hand[t]
        /\ pc' = [pc EXCEPT ![t] = IF pc[t] = "loading" THEN "bookload" ELSE "booksave"]
    BY <1>5 DEF InnerStarts, Goto
  <2>2. StartedRight'
    BY <2>1 DEF Served, StartedRight
  <2>3. WaitedFor'
    BY <1>1, <2>1 DEF Served, WaitedFor
  <2> QED
    BY <1>2, <1>3, <2>2, <2>3 DEF Served
<1> QED
  BY <1>4, <1>5

\* Thread t moves to a place of which Served says nothing, empty-handed or not.
LEMMA MoveServed ==
  ASSUME Placed, Served, NEW t \in Threads,
         UNCHANGED <<loads, saves, status, about, accepted, arrived>>,
         \A u \in Threads : hand'[u] \subseteq hand[u],
         \A u \in Threads : u # t => pc'[u] = pc[u] /\ arg'[u] = arg[u],
         pc'[t] \in {"idle", "waitload", "waitsave", "cancelling"}
  PROVE  Served'
<1> USE DEF Placed, TypeOK
<1>1. \A x \in Transfers : Moved(x)' = Moved(x) /\ Precise(x)' = Precise(x)
  BY DEF Moved, Covers, Precise
<1>2. BookedRight' /\ EndsAfterArrival'
  BY <1>1 DEF Served, BookedRight, EndsAfterArrival
<1>3. StartedRight' /\ WaitedFor'
  BY <1>1 DEF Served, StartedRight, WaitedFor
<1> QED
  BY <1>2, <1>3 DEF Served

LEMMA ServedNext ==
  ASSUME \E t \in Threads : Threads = {t}
  PROVE  Placed /\ Served /\ [Next]_vars => Served'
<1> SUFFICES ASSUME Placed, Served, [Next]_vars PROVE Served'
  OBVIOUS
<1> PICK t \in Threads : Threads = {t}
  OBVIOUS
<1>1. CASE StartLoadKV(t) \/ SaveKVLayer(t)
  BY <1>1, StartServed DEF StartLoadKV, SaveKVLayer
<1>2. CASE InnerWaitReturns(t)
  BY <1>2, WaitServed
<1>3. CASE PopAfterWait(t) \/ WaitRaises(t)
  BY <1>3, PopServed DEF PopAfterWait, WaitRaises
<1>4. CASE AddLoad(t) \/ AddSave(t)
  BY <1>4, BookServed
<1>5. CASE End(t)
  BY <1>5, EndServed
<1>6. CASE \/ InnerStarts(t) \/ GetFinished(t) \/ UNCHANGED vars
           \/ \E x \in Transfers, l \in Layers : Arrive(x, l)
  BY <1>6, ProgressServed DEF InnerStarts, GetFinished, Arrive, vars, booked, outside
<1>7. CASE \/ WaitForSave(t) \/ \E l \in LayerKeys : WaitForLayerLoad(t, l)
           \/ InnerStartRaises(t) \/ InnerStartInterrupted(t) \/ WaitInterrupted(t) \/ Return(t)
  <2>1. /\ UNCHANGED <<loads, saves, status, about, accepted, arrived>>
        /\ \A u \in Threads : hand'[u] \subseteq hand[u]
        /\ pc'[t] \in {"idle", "waitload", "waitsave", "cancelling"}
    BY <1>7 DEF WaitForSave, WaitForLayerLoad, InnerStartRaises, InnerStartInterrupted,
                WaitInterrupted, Return, Goto, Leave, booked, outside, Placed, TypeOK
  <2> QED
    BY <2>1, MoveServed
<1> QED
  BY <1>1, <1>2, <1>3, <1>4, <1>5, <1>6, <1>7 DEF Next, Call, Returns, Fails

\* When one engine thread calls the connector, an end record of a load of one
\* layer or of a save is the truth: the bytes have arrived
\* (connector_wrapper.py:322-345, 397-420).
THEOREM EndsAreTrue ==
  ASSUME \E t \in Threads : Threads = {t}
  PROVE  Spec => []EndsAfterArrival
<1>1. Init => Placed /\ Served
  BY PlacedInit, ServedInit
<1>2. Placed /\ Served /\ [Next]_vars => (Placed /\ Served)'
  BY PlacedNext, ServedNext
<1>3. Served => EndsAfterArrival
  BY DEF Served
<1> QED
  BY <1>1, <1>2, <1>3, PTL DEF Spec
=============================================================================
