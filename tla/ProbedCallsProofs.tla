--------------------------- MODULE ProbedCallsProofs ---------------------------
(***************************************************************************)
(* Proofs about the wrapped calls for every number of threads and items,   *)
(* every nesting of the calls and every bound on their number.             *)
(***************************************************************************)
EXTENDS ProbedCalls, FiniteSets, SequenceTheorems, FiniteSetTheorems, TLAPS

-----------------------------------------------------------------------------
(* One stack of calls.  Along it every call remembers the context of the    *)
(* calls around it, and p is the context of them all.                       *)

Nested(s, p) ==
  /\ s \in Seq(Frame)
  /\ p \in Contexts
  /\ IsInnermost(s, Len(s), p)
  /\ \A i \in 1..Len(s) : IsInnermost(s, i - 1, s[i].before)

\* Only the first n calls matter.
LEMMA InnermostOfPrefix ==
  ASSUME NEW s, NEW r, NEW n \in Nat, NEW c,
         \A i \in 1..n : s[i] = r[i],
         IsInnermost(s, n, c)
  PROVE  IsInnermost(r, n, c)
<1>1. Contexted(s, n) = Contexted(r, n)
  BY DEF Contexted
<1>2. \A i \in Contexted(s, n) : s[i] = r[i]
  BY DEF Contexted
<1> QED
  BY <1>1, <1>2 DEF IsInnermost

\* A call that sets no context leaves that of its caller, ...
LEMMA InnermostOfPlain ==
  ASSUME NEW s, NEW n \in Nat, ~SetsContext(s[n + 1]), NEW c
  PROVE  IsInnermost(s, n + 1, c) <=> IsInnermost(s, n, c)
<1>1. 1..(n + 1) = (1..n) \cup {n + 1}
  OBVIOUS
<1>2. Contexted(s, n + 1) = Contexted(s, n)
  BY <1>1 DEF Contexted
<1> QED
  BY <1>2 DEF IsInnermost

\* ... and one that sets a context is innermost itself.
LEMMA InnermostOfSetter ==
  ASSUME NEW s, NEW n \in Nat, SetsContext(s[n + 1])
  PROVE  IsInnermost(s, n + 1, ContextOf[s[n + 1].kind])
<1>1. n + 1 \in Contexted(s, n + 1)
  BY DEF Contexted
<1>2. \A j \in Contexted(s, n + 1) : j <= n + 1
  BY DEF Contexted
<1> QED
  BY <1>1, <1>2 DEF IsInnermost

\* A call begins.
LEMMA NestedPush ==
  ASSUME NEW s, NEW p, Nested(s, p),
         NEW frame \in Frame, IsInnermost(s, Len(s), frame.before),
         NEW q, q = IF SetsContext(frame) THEN ContextOf[frame.kind] ELSE p
  PROVE  Nested(Append(s, frame), q)
<1> DEFINE r == Append(s, frame)
<1>1. /\ r \in Seq(Frame) /\ Len(r) = Len(s) + 1 /\ r[Len(s) + 1] = frame
      /\ Len(s) \in Nat /\ \A i \in 1..Len(s) : r[i] = s[i]
  BY DEF Nested
<1>2. q \in Contexts
  BY DEF Nested, Contexts, SetsContext
<1>3. IsInnermost(r, Len(s), p) /\ IsInnermost(r, Len(s), frame.before)
  BY <1>1, InnermostOfPrefix DEF Nested
<1>4. IsInnermost(r, Len(r), q)
  <2>1. CASE SetsContext(frame)
    BY <2>1, <1>1, InnermostOfSetter
  <2>2. CASE ~SetsContext(frame)
    <3>1. ~SetsContext(r[Len(s) + 1])
      BY <2>2, <1>1
    <3>2. IsInnermost(r, Len(s) + 1, p)
      BY <3>1, <1>1, <1>3, InnermostOfPlain
    <3> QED
      BY <2>2, <3>2, <1>1
  <2> QED
    BY <2>1, <2>2
<1>5. ASSUME NEW i \in 1..Len(r) PROVE IsInnermost(r, i - 1, r[i].before)
  <2>1. CASE i = Len(s) + 1
    BY <2>1, <1>1, <1>3
  <2>2. CASE i \in 1..Len(s)
    <3>1. IsInnermost(s, i - 1, s[i].before) /\ r[i] = s[i]
      BY <2>2, <1>1 DEF Nested
    <3>2. i - 1 \in Nat /\ \A j \in 1..(i - 1) : s[j] = r[j]
      BY <2>2, <1>1
    <3> QED
      BY <3>1, <3>2, InnermostOfPrefix
  <2> QED
    BY <1>1, <2>1, <2>2
<1> HIDE DEF r
<1>6. Nested(r, q)
  BY <1>1, <1>2, <1>4, <1>5 DEF Nested
<1> QED
  BY <1>6 DEF r

\* A call ends, with its context taken back if it set one.
LEMMA NestedPop ==
  ASSUME NEW s, NEW p, Nested(s, p), s # <<>>,
         NEW q, q = IF SetsContext(Last(s)) THEN Last(s).before ELSE p
  PROVE  Nested(Front(s), q) /\ IsInnermost(Front(s), Len(Front(s)), Last(s).before)
<1> DEFINE r == Front(s)
           n == Len(s) - 1
<1>1. /\ r \in Seq(Frame) /\ n \in Nat /\ Len(s) = n + 1 /\ Len(r) = n
      /\ \A i \in 1..n : r[i] = s[i]
  BY DEF Nested, Front
<1>2. Last(s) = s[n + 1] /\ Last(s) \in Frame
  BY <1>1 DEF Nested, Last
<1>3. IsInnermost(s, n, Last(s).before)
  <2>1. n + 1 \in 1..Len(s) /\ (n + 1) - 1 = n
    BY <1>1
  <2> QED
    BY <2>1, <1>2 DEF Nested
<1>4. IsInnermost(s, n, q)
  <2>1. CASE SetsContext(Last(s))
    BY <2>1, <1>3
  <2>2. CASE ~SetsContext(Last(s))
    BY <2>2, <1>1, <1>2, InnermostOfPlain DEF Nested
  <2> QED
    BY <2>1, <2>2
<1>5. q \in Contexts
  BY <1>2 DEF Nested, Frame
<1>6. IsInnermost(r, n, q) /\ IsInnermost(r, n, Last(s).before)
  BY <1>1, <1>3, <1>4, InnermostOfPrefix
<1>7. ASSUME NEW i \in 1..n PROVE IsInnermost(r, i - 1, r[i].before)
  <2>1. IsInnermost(s, i - 1, s[i].before) /\ r[i] = s[i]
    BY <1>1 DEF Nested
  <2>2. i - 1 \in Nat /\ \A j \in 1..(i - 1) : s[j] = r[j]
    BY <1>1
  <2> QED
    BY <2>1, <2>2, InnermostOfPrefix
<1> HIDE DEF r, n
<1>8. Nested(r, q) /\ IsInnermost(r, Len(r), Last(s).before)
  BY <1>1, <1>5, <1>6, <1>7 DEF Nested
<1> QED
  BY <1>8 DEF r

-----------------------------------------------------------------------------
(* The steps.  Each one pushes a frame on one stack, pops one, or pops one   *)
(* and pushes it again as a call that writes its records.                    *)

NewFrame(t, f, x) ==
  [kind |-> f, step |-> "body", before |-> payload[t], transfer |-> x, todo |-> {}]

\* What a collective's transfer is recorded as follows from the context it saw.
Told(frame, recs) ==
  /\ frame.transfer <= Len(recs)
  /\ frame.kind \in Collectives =>
       IF frame.transfer = NoTransfer THEN frame.before = NoContext
       ELSE recs[frame.transfer].kind =
              (IF frame.before = NoContext THEN "activation" ELSE frame.before.kind)

Typed == TypeOK /\ \A t \in Threads : Nested(stack[t], payload[t])

AllTold == \A t \in Threads : \A i \in 1..Len(stack[t]) : Told(stack[t][i], transfers)

IInv == Typed /\ AllTold

\* transfer ids grow, and what a transfer is about stays.
Grows ==
  /\ transfers' \in Seq(Transfer)
  /\ Len(transfers) <= Len(transfers')
  /\ \A x \in 1..Len(transfers) : transfers'[x].kind = transfers[x].kind

LEMMA OpenGrows ==
  ASSUME transfers \in Seq(Transfer), NEW r \in Transfer, transfers' = Append(transfers, r)
  PROVE  Grows /\ Len(transfers') = Len(transfers) + 1 /\ transfers'[Len(transfers) + 1] = r
BY DEF Grows

LEMMA CloseGrows ==
  ASSUME transfers \in Seq(Transfer), NEW x \in 0..Len(transfers),
         NEW how \in {"done", "cancelled"}, transfers' = Closed(x, how)
  PROVE  Grows /\ Len(transfers') = Len(transfers)
<1>1. CASE x = 0
  BY <1>1 DEF Closed, NoTransfer, Grows
<1>2. CASE x \in 1..Len(transfers)
  <2>1. transfers' = [transfers EXCEPT ![x] = [transfers[x] EXCEPT !.end = how]]
    BY <1>2 DEF Closed, NoTransfer
  <2>2. transfers[x] \in Transfer
    BY <1>2
  <2>3. [transfers[x] EXCEPT !.end = how] \in Transfer
    BY <2>2 DEF Transfer
  <2>4. [transfers[x] EXCEPT !.end = how].kind = transfers[x].kind
    BY <2>2 DEF Transfer
  <2> QED
    BY <1>2, <2>1, <2>3, <2>4 DEF Grows
<1> QED
  BY <1>1, <1>2

LEMMA ToldForGood ==
  ASSUME transfers \in Seq(Transfer), Grows, NEW frame \in Frame, Told(frame, transfers)
  PROVE  Told(frame, transfers')
BY DEF Grows, Told, Frame, NoTransfer

\* A frame is pushed on t's stack.
LEMMA PushStep ==
  ASSUME IInv, NEW t \in Threads, NEW f \in Kinds, NEW x \in Nat, MayCall(t, f), Push(t, f, x),
         Grows, Told(NewFrame(t, f, x), transfers'),
         payload' = [payload EXCEPT ![t] = IF f \in Setters THEN ContextOf[f] ELSE @],
         UNCHANGED <<recorded, returned, raised>>
  PROVE  IInv'
<1> DEFINE frame == NewFrame(t, f, x)
<1>1. frame \in Frame /\ payload[t] \in Contexts /\ stack[t] \in Seq(Frame)
  BY DEF IInv, Typed, TypeOK, NewFrame, Frame
<1>2. /\ stack'[t] = Append(stack[t], frame)
      /\ \A u \in Threads \ {t} : stack'[u] = stack[u] /\ payload'[u] = payload[u]
      /\ payload'[t] = IF SetsContext(frame) THEN ContextOf[frame.kind] ELSE payload[t]
  BY DEF IInv, Typed, TypeOK, Push, NewFrame, SetsContext
<1>3. IsInnermost(stack[t], Len(stack[t]), frame.before) /\ Nested(stack[t], payload[t])
  BY DEF IInv, Typed, Nested, NewFrame
<1>9. /\ Len(stack[t]) \in Nat /\ Len(stack'[t]) = Len(stack[t]) + 1
      /\ stack'[t][Len(stack[t]) + 1] = frame
      /\ \A i \in 1..Len(stack[t]) : stack'[t][i] = stack[t][i]
  <2> HIDE DEF frame
  <2> QED
    BY <1>1, <1>2
<1>4. Nested(stack'[t], payload'[t])
  BY <1>1, <1>2, <1>3, NestedPush
<1>5. \A u \in Threads : Nested(stack'[u], payload'[u])
  BY <1>2, <1>4 DEF IInv, Typed
<1>6. TypeOK'
  <2>1. stack' \in [Threads -> Seq(Frame)]
    BY <1>1 DEF IInv, Typed, TypeOK, Push, NewFrame
  <2>2. payload' \in [Threads -> Contexts]
    BY DEF IInv, Typed, TypeOK, Contexts
  <2>3. calls' \in 0..MaxCalls
    BY ProbedCallsAssumption DEF IInv, Typed, TypeOK, Push, MayCall
  <2>4. ASSUME NEW u \in Threads PROVE Len(stack'[u]) <= MaxDepth
    <3>1. CASE u = t
      BY <3>1, <1>9, ProbedCallsAssumption DEF MayCall
    <3>2. CASE u # t
      BY <3>2, <1>2 DEF IInv, Typed, TypeOK
    <3> QED
      BY <3>1, <3>2
  <2>5. transfers' \in Seq(Transfer) /\ raised' \subseteq 1..Len(transfers')
    BY DEF Grows, IInv, Typed, TypeOK
  <2> QED
    BY <2>1, <2>2, <2>3, <2>4, <2>5 DEF IInv, Typed, TypeOK
<1>7. ASSUME NEW u \in Threads, NEW i \in 1..Len(stack'[u]) PROVE Told(stack'[u][i], transfers')
  <2>1. CASE u = t /\ i = Len(stack[t]) + 1
    BY <2>1, <1>9
  <2>2. CASE ~(u = t /\ i = Len(stack[t]) + 1)
    <3>1. stack[u] \in Seq(Frame)
      BY DEF IInv, Typed, TypeOK
    <3>2. i \in 1..Len(stack[u]) /\ stack'[u][i] = stack[u][i]
      <4>1. CASE u = t
        BY <4>1, <2>2, <1>9
      <4>2. CASE u # t
        BY <4>2, <1>2
      <4> QED
        BY <4>1, <4>2
    <3> QED
      BY <3>1, <3>2, ToldForGood DEF IInv, Typed, TypeOK, AllTold
  <2> QED
    BY <2>1, <2>2
<1> QED
  BY <1>5, <1>6, <1>7 DEF IInv, Typed, AllTold

\* The call on top of t's stack ends, or goes on writing its records.
LEMMA LeaveStep ==
  ASSUME IInv, NEW t \in Threads, stack[t] # <<>>, NEW todo \in SUBSET Items, Leave(t, todo),
         Grows, raised' \subseteq 1..Len(transfers'),
         recorded' \in [Kinds -> [Items -> Nat]], returned' \in [Kinds -> Nat], calls' = calls,
         payload' = [payload EXCEPT ![t] = IF SetsContext(Top(t)) THEN Top(t).before ELSE @]
  PROVE  IInv'
<1> DEFINE top == Last(stack[t])
           r == Front(stack[t])
           q == IF SetsContext(top) THEN top.before ELSE payload[t]
           frame == [top EXCEPT !.step = "records", !.todo = todo]
<1>1. stack[t] \in Seq(Frame) /\ Nested(stack[t], payload[t])
  BY DEF IInv, Typed, TypeOK
<1>2. /\ r \in Seq(Frame) /\ Len(r) \in Nat /\ Len(stack[t]) = Len(r) + 1
      /\ \A i \in 1..Len(r) : r[i] = stack[t][i]
      /\ top \in Frame /\ top = stack[t][Len(r) + 1]
  BY <1>1 DEF Front, Last
<1>3. Nested(r, q) /\ IsInnermost(r, Len(r), top.before)
  BY <1>1, NestedPop
<1>4. frame \in Frame /\ frame.before = top.before /\ frame.kind = top.kind
      /\ frame.transfer = top.transfer /\ ~SetsContext(frame)
  BY <1>2 DEF Frame, SetsContext
<1>5. Told(top, transfers')
  BY <1>2, <1>1, ToldForGood DEF IInv, Typed, TypeOK, AllTold
<1>6. Told(frame, transfers')
  BY <1>4, <1>5 DEF Told
<1>7. Nested(Append(r, frame), q)
  BY <1>3, <1>4, NestedPush
<1>8. /\ stack' = [stack EXCEPT ![t] = IF todo = {} THEN r ELSE Append(r, frame)]
      /\ payload'[t] = q
      /\ \A u \in Threads \ {t} : stack'[u] = stack[u] /\ payload'[u] = payload[u]
      /\ stack'[t] = IF todo = {} THEN r ELSE Append(r, frame)
  BY DEF Leave, Top, IInv, Typed, TypeOK
<1> HIDE DEF r, top, q, frame
<1>9. Nested(stack'[t], payload'[t])
  BY <1>3, <1>7, <1>8
<1>10. \A u \in Threads : Nested(stack'[u], payload'[u])
  BY <1>8, <1>9 DEF IInv, Typed
<1>11. Len(stack'[t]) <= Len(stack[t]) /\ Len(stack[t]) \in Nat /\ stack'[t] \in Seq(Frame)
  BY <1>1, <1>2, <1>4, <1>8
<1>12. TypeOK'
  <2>1. stack' \in [Threads -> Seq(Frame)]
    BY <1>2, <1>4, <1>8 DEF IInv, Typed, TypeOK
  <2>2. payload' \in [Threads -> Contexts]
    <3>1. q \in Contexts
      BY <1>3 DEF Nested
    <3> QED
      BY <3>1, <1>8 DEF IInv, Typed, TypeOK
  <2>3. \A u \in Threads : Len(stack'[u]) <= MaxDepth
    BY <1>8, <1>11, ProbedCallsAssumption DEF IInv, Typed, TypeOK
  <2> QED
    BY <2>1, <2>2, <2>3 DEF IInv, Typed, TypeOK, Grows
<1>13. ASSUME NEW u \in Threads, NEW i \in 1..Len(stack'[u]) PROVE Told(stack'[u][i], transfers')
  <2>1. CASE u = t /\ i = Len(r) + 1
    <3>1. stack'[t] = Append(r, frame)
      <4>1. SUFFICES ASSUME stack'[t] = r PROVE FALSE
        BY <1>8
      <4>2. i \in 1..Len(r)
        BY <2>1, <4>1
      <4> QED
        BY <4>2, <2>1, <1>2
    <3>2. Append(r, frame)[Len(r) + 1] = frame
      BY <1>2, <1>4
    <3> QED
      BY <2>1, <3>1, <3>2, <1>6
  <2>2. CASE ~(u = t /\ i = Len(r) + 1)
    <3>1. i \in 1..Len(stack[u]) /\ stack'[u][i] = stack[u][i] /\ stack[u] \in Seq(Frame)
      BY <2>2, <1>2, <1>4, <1>8 DEF IInv, Typed, TypeOK
    <3> QED
      BY <3>1, ToldForGood DEF IInv, Typed, TypeOK, AllTold
  <2> QED
    BY <2>1, <2>2
<1> QED
  BY <1>10, <1>12, <1>13 DEF IInv, Typed, AllTold

-----------------------------------------------------------------------------
(* Every action takes one of the two steps.                                  *)

LEMMA RecordsAfterItems ==
  ASSUME NEW f \in Kinds, NEW ok \in BOOLEAN PROVE RecordsAfter(f, ok) \subseteq SUBSET Items
BY DEF RecordsAfter

LEMMA InvInit == Init => IInv
<1> SUFFICES ASSUME Init PROVE IInv
  OBVIOUS
<1>1. TypeOK
  BY ProbedCallsAssumption DEF Init, TypeOK, Contexts, Frame, Transfer
<1>2. ASSUME NEW t \in Threads PROVE Nested(stack[t], payload[t])
  <2>1. stack[t] = <<>> /\ payload[t] = NoContext
    BY DEF Init
  <2>2. Contexted(<<>>, 0) = {}
    BY DEF Contexted
  <2> QED
    BY <2>1, <2>2 DEF Nested, IsInnermost, Contexts
<1>3. AllTold
  BY DEF Init, AllTold
<1> QED
  BY <1>1, <1>2, <1>3 DEF IInv, Typed

LEMMA TagFacts ==
  ASSUME NEW t \in Threads, payload[t] \in Contexts, NEW f \in Collectives, Tag(t, f) # NoContext
  PROVE  /\ Tag(t, f).kind = (IF payload[t] = NoContext THEN "activation" ELSE payload[t].kind)
         /\ Tag(t, f).kind \in {"weight", "activation"}
         /\ IssuedBy(Tag(t, f)) \in {"weight_update", "moe_layer"}
BY DEF Tag, Contexts, NoContext, ContextOf, Setters, Collectives, IssuedBy

LEMMA InvNext == IInv /\ [Next]_vars => IInv'
<1> SUFFICES ASSUME IInv, [Next]_vars PROVE IInv'
  OBVIOUS
<1>0. transfers \in Seq(Transfer) /\ Len(transfers) \in Nat /\ raised \subseteq 1..Len(transfers)
  BY DEF IInv, Typed, TypeOK
<1>1. ASSUME NEW t \in Threads, NEW f \in Setters, CallInContext(t, f) PROVE IInv'
  <2>1. Grows /\ Told(NewFrame(t, f, 0), transfers')
    BY <1>1, <1>0 DEF CallInContext, Grows, Told, NewFrame, Collectives, Setters
  <2>2. f \in Kinds /\ MayCall(t, f) /\ Push(t, f, 0)
    BY <1>1 DEF CallInContext, Kinds, Movers, NoTransfer
  <2>3. payload' = [payload EXCEPT ![t] = IF f \in Setters THEN ContextOf[f] ELSE @]
    BY <1>1 DEF CallInContext
  <2> QED
    BY <1>1, <2>1, <2>2, <2>3, PushStep DEF CallInContext
<1>2. ASSUME NEW t \in Threads, CallUntagged(t) PROVE IInv'
  <2>1. payload[t] = NoContext
    BY <1>2 DEF CallUntagged, Tag
  <2>2. Grows /\ Told(NewFrame(t, "gather", 0), transfers')
    BY <1>2, <1>0, <2>1 DEF CallUntagged, Grows, Told, NewFrame, NoTransfer
  <2>3. "gather" \in Kinds /\ "gather" \notin Setters
    BY DEF Kinds, Bracketing, Collectives, Setters
  <2>4. payload' = [payload EXCEPT ![t] = @]
    BY <1>2 DEF CallUntagged, IInv, Typed, TypeOK
  <2> QED
    BY <1>2, <2>2, <2>3, <2>4, PushStep DEF CallUntagged, NoTransfer
<1>3. ASSUME NEW t \in Threads, NEW f \in Collectives, CallCollective(t, f) PROVE IInv'
  <2> DEFINE r == [kind |-> Tag(t, f).kind, by |-> IssuedBy(Tag(t, f)), end |-> "open"]
             x == Len(transfers) + 1
  <2>1. payload[t] \in Contexts /\ Tag(t, f) # NoContext
    BY <1>3 DEF CallCollective, IInv, Typed, TypeOK
  <2>2. r \in Transfer
    BY <2>1, TagFacts DEF Transfer, PayloadKinds
  <2>3. transfers' = Append(transfers, r)
    BY <1>3 DEF CallCollective, Open
  <2>4. Grows /\ Len(transfers') = x /\ transfers'[x] = r
    BY <1>0, <2>2, <2>3, OpenGrows
  <2>5. Told(NewFrame(t, f, x), transfers')
    BY <1>0, <2>1, <2>4, TagFacts DEF Told, NewFrame, NoTransfer
  <2>6. f \in Kinds /\ f \notin Setters
    BY DEF Kinds, Bracketing, Collectives, Setters
  <2>7. payload' = [payload EXCEPT ![t] = IF f \in Setters THEN ContextOf[f] ELSE @]
    BY <1>3, <2>6 DEF CallCollective, IInv, Typed, TypeOK
  <2>8. x \in Nat /\ MayCall(t, f) /\ Push(t, f, x) /\ UNCHANGED <<recorded, returned, raised>>
    BY <1>3, <1>0 DEF CallCollective
  <2> HIDE DEF x, r
  <2> QED
    BY <2>4, <2>5, <2>6, <2>7, <2>8, PushStep
<1>4. ASSUME NEW t \in Threads, NEW f \in Bracketing \ Collectives, CallTransfer(t, f) PROVE IInv'
  <2> DEFINE r == [kind |-> "kv", by |-> (IF f = "move" THEN "cache_controller" ELSE "connector"), end |-> "open"]
             x == Len(transfers) + 1
  <2>1. r \in Transfer
    BY DEF Transfer, PayloadKinds
  <2>2. transfers' = Append(transfers, r)
    BY <1>4 DEF CallTransfer, Open
  <2>3. Grows /\ Len(transfers') = x
    BY <1>0, <2>1, <2>2, OpenGrows
  <2>4. Told(NewFrame(t, f, x), transfers')
    BY <1>0, <2>3 DEF Told, NewFrame
  <2>5. f \in Kinds /\ f \notin Setters
    BY DEF Kinds, Bracketing, Collectives, Setters
  <2>6. payload' = [payload EXCEPT ![t] = IF f \in Setters THEN ContextOf[f] ELSE @]
    BY <1>4, <2>5 DEF CallTransfer, IInv, Typed, TypeOK
  <2>8. x \in Nat /\ MayCall(t, f) /\ Push(t, f, x) /\ UNCHANGED <<recorded, returned, raised>>
    BY <1>4, <1>0 DEF CallTransfer
  <2> HIDE DEF x, r
  <2> QED
    BY <2>3, <2>4, <2>5, <2>6, <2>8, PushStep
<1>5. ASSUME NEW t \in Threads, NEW f \in {"offload", "tier"}, CallPlain(t, f) PROVE IInv'
  <2>1. Grows /\ Told(NewFrame(t, f, 0), transfers')
    BY <1>5, <1>0 DEF CallPlain, Grows, Told, NewFrame, Collectives
  <2>2. f \in Kinds /\ f \notin Setters
    BY DEF Kinds, Movers, BlockMovers, Setters
  <2>3. payload' = [payload EXCEPT ![t] = @]
    BY <1>5 DEF CallPlain, IInv, Typed, TypeOK
  <2> QED
    BY <1>5, <2>1, <2>2, <2>3, PushStep DEF CallPlain, NoTransfer
<1>6. ASSUME NEW t \in Threads, stack[t] # <<>>
      PROVE  Top(t) \in Frame /\ Top(t).transfer \in 0..Len(transfers)
  <2>1. stack[t] \in Seq(Frame) /\ Len(stack[t]) \in 1..Len(stack[t])
    BY <1>6 DEF IInv, Typed, TypeOK
  <2>2. Top(t) \in Frame /\ Told(Top(t), transfers)
    BY <2>1 DEF IInv, AllTold, Top, Last
  <2> QED
    BY <2>2, <1>0 DEF Told, Frame
<1>7. ASSUME NEW t \in Threads, Return(t) PROVE IInv'
  <2>1. stack[t] # <<>> /\ Top(t).step = "body" /\ Top(t).kind \in Kinds
    BY <1>7, <1>6 DEF Return, Frame
  <2>2. PICK todo \in RecordsAfter(Top(t).kind, TRUE) : Leave(t, todo)
    BY <1>7 DEF Return
  <2>3. todo \in SUBSET Items
    BY <2>1, RecordsAfterItems
  <2>4. Grows /\ Len(transfers') = Len(transfers)
    BY <1>7, <1>0, <1>6, <2>1, CloseGrows DEF Return
  <2>5. payload' = [payload EXCEPT ![t] = IF SetsContext(Top(t)) THEN Top(t).before ELSE @]
    BY <1>7, <2>1 DEF Return, Unwind, SetsContext
  <2>6. returned' \in [Kinds -> Nat] /\ recorded' \in [Kinds -> [Items -> Nat]]
        /\ calls' = calls /\ raised' \subseteq 1..Len(transfers')
    BY <1>7, <1>0, <2>1, <2>4 DEF Return, IInv, Typed, TypeOK
  <2> QED
    BY <2>1, <2>2, <2>3, <2>4, <2>5, <2>6, LeaveStep
<1>8. ASSUME NEW t \in Threads, Raise(t) PROVE IInv'
  <2>1. stack[t] # <<>> /\ Top(t).step = "body" /\ Top(t).kind \in Kinds
    BY <1>8, <1>6 DEF Raise, Frame
  <2>2. PICK todo \in RecordsAfter(Top(t).kind, FALSE) : Leave(t, todo)
    BY <1>8 DEF Raise
  <2>3. todo \in SUBSET Items
    BY <2>1, RecordsAfterItems
  <2>4. Grows /\ Len(transfers') = Len(transfers)
    BY <1>8, <1>0, <1>6, <2>1, CloseGrows DEF Raise
  <2>5. payload' = [payload EXCEPT ![t] = IF SetsContext(Top(t)) THEN Top(t).before ELSE @]
    BY <1>8, <2>1 DEF Raise, Unwind, SetsContext
  <2>6. returned' \in [Kinds -> Nat] /\ recorded' \in [Kinds -> [Items -> Nat]] /\ calls' = calls
    BY <1>8 DEF Raise, IInv, Typed, TypeOK
  <2>7. raised' \subseteq 1..Len(transfers')
    <3>1. Top(t).transfer \in 0..Len(transfers)
      BY <1>6, <2>1
    <3>2. raised' = raised \cup ({Top(t).transfer} \ {0})
      BY <1>8 DEF Raise, NoTransfer
    <3>3. {Top(t).transfer} \ {0} \subseteq 1..Len(transfers)
      BY <3>1
    <3> QED
      BY <1>0, <2>4, <3>2, <3>3
  <2> QED
    BY <2>1, <2>2, <2>3, <2>4, <2>5, <2>6, <2>7, LeaveStep
<1>9. ASSUME NEW t \in Threads, Record(t) PROVE IInv'
  <2>1. stack[t] # <<>> /\ Top(t).step = "records" /\ Top(t) \in Frame
    BY <1>9, <1>6 DEF Record
  <2>2. PICK i \in Top(t).todo :
          /\ recorded' = [recorded EXCEPT ![Top(t).kind][i] = @ + 1]
          /\ Leave(t, Top(t).todo \ {i})
    BY <1>9 DEF Record
  <2>3. i \in Items /\ Top(t).todo \ {i} \in SUBSET Items /\ Top(t).kind \in Kinds
    BY <2>1 DEF Frame
  <2>4. Grows
    <3> DEFINE r == [kind |-> PayloadOf(Top(t).kind), by |-> IssuerOf(Top(t).kind), end |-> "done"]
    <3>1. r \in Transfer
      BY DEF Transfer, PayloadOf, IssuerOf, PayloadKinds
    <3>2. transfers' = Append(transfers, r) \/ transfers' = transfers
      BY <1>9 DEF Record
    <3>3. CASE transfers' = Append(transfers, r)
      BY <3>1, <3>3, <1>0, OpenGrows
    <3>4. CASE transfers' = transfers
      BY <3>4, <1>0 DEF Grows
    <3> QED
      BY <3>2, <3>3, <3>4
  <2>5. recorded' \in [Kinds -> [Items -> Nat]]
    BY <2>2, <2>3 DEF IInv, Typed, TypeOK
  <2>6. payload' = [payload EXCEPT ![t] = IF SetsContext(Top(t)) THEN Top(t).before ELSE @]
    BY <1>9, <2>1 DEF Record, SetsContext, IInv, Typed, TypeOK
  <2>7. returned' \in [Kinds -> Nat] /\ calls' = calls /\ raised' \subseteq 1..Len(transfers')
    BY <1>9, <1>0, <2>4 DEF Record, IInv, Typed, TypeOK, Grows
  <2> QED
    BY <2>1, <2>2, <2>3, <2>4, <2>5, <2>6, <2>7, LeaveStep
<1>10. CASE UNCHANGED vars
  BY <1>10 DEF vars, IInv, Typed, TypeOK, AllTold
<1> QED
  BY <1>1, <1>2, <1>3, <1>4, <1>5, <1>7, <1>8, <1>9, <1>10 DEF Next, Call

-----------------------------------------------------------------------------
(* Types: the variables stay in their domains, and no thread is deeper in    *)
(* wrapped calls than the bound.                                             *)
THEOREM TypeCorrect == Spec => []TypeOK
<1>1. IInv => TypeOK
  BY DEF IInv, Typed
<1> QED
  BY <1>1, InvInit, InvNext, PTL DEF Spec

(* payload_context(): on every thread the payload context is that of the      *)
(* innermost wrapped call in progress, whatever has been called and raised   *)
(* inside it and on other threads.                                           *)
THEOREM ContextsNest == Spec => []ContextIsInnermost
<1>1. IInv => ContextIsInnermost
  BY DEF IInv, Typed, Nested, ContextIsInnermost
<1> QED
  BY <1>1, InvInit, InvNext, PTL DEF Spec

(* make_collective_wrapper(): a collective is recorded with the payload kind  *)
(* of the innermost wrapped call around it that has one.                     *)
THEOREM CollectivesAreTagged == Spec => []KindTellsCaller
<1>1. IInv => KindTellsCaller
  <2> SUFFICES ASSUME IInv, NEW t \in Threads, NEW i \in DOMAIN stack[t],
                      stack[t][i].kind \in Collectives
               PROVE  \E around \in Contexts :
                        /\ IsInnermost(stack[t], i - 1, around)
                        /\ IF stack[t][i].transfer = NoTransfer THEN around = NoContext
                           ELSE transfers[stack[t][i].transfer].kind =
                                  (IF around = NoContext THEN "activation" ELSE around.kind)
    BY DEF KindTellsCaller
  <2>1. stack[t] \in Seq(Frame) /\ i \in 1..Len(stack[t])
    BY DEF IInv, Typed, TypeOK
  <2>2. stack[t][i].before \in Contexts
    <3>1. stack[t][i] \in Frame
      BY <2>1
    <3> QED
      BY <3>1 DEF Frame
  <2>3. IsInnermost(stack[t], i - 1, stack[t][i].before)
    BY <2>1 DEF IInv, Typed, Nested
  <2>4. Told(stack[t][i], transfers)
    BY <2>1 DEF IInv, AllTold
  <2> QED
    BY <2>2, <2>3, <2>4 DEF Told
<1> QED
  BY <1>1, InvInit, InvNext, PTL DEF Spec

-----------------------------------------------------------------------------
(* Transfers and the calls they were opened for.                             *)

LEMMA CarriesAfterPush ==
  ASSUME IInv, NEW t \in Threads, NEW f \in Kinds, NEW x \in Nat, Push(t, f, x),
         NEW u \in Threads, NEW i, NEW y
  PROVE  Carries(stack'[u], i, y) <=>
           Carries(stack[u], i, y) \/ (u = t /\ i = Len(stack[t]) + 1 /\ y = x)
<1> DEFINE frame == NewFrame(t, f, x)
<1>1. frame \in Frame /\ stack[t] \in Seq(Frame) /\ frame.step = "body" /\ frame.transfer = x
  BY DEF IInv, Typed, TypeOK, NewFrame, Frame
<1>2. /\ stack'[t] = Append(stack[t], frame)
      /\ \A v \in Threads \ {t} : stack'[v] = stack[v]
  BY DEF IInv, Typed, TypeOK, Push, NewFrame
<1> HIDE DEF frame
<1>3. CASE u # t
  BY <1>2, <1>3
<1>4. CASE u = t
  <2>1. /\ DOMAIN stack[t] = 1..Len(stack[t]) /\ DOMAIN stack'[t] = 1..(Len(stack[t]) + 1)
        /\ stack'[t][Len(stack[t]) + 1] = frame /\ Len(stack[t]) \in Nat
        /\ \A j \in 1..Len(stack[t]) : stack'[t][j] = stack[t][j]
    BY <1>1, <1>2
  <2>2. CASE i = Len(stack[t]) + 1
    BY <1>1, <1>4, <2>1, <2>2 DEF Carries
  <2>3. CASE i # Len(stack[t]) + 1
    BY <1>4, <2>1, <2>3 DEF Carries
  <2> QED
    BY <2>2, <2>3
<1> QED
  BY <1>3, <1>4

LEMMA CarriesAfterLeave ==
  ASSUME IInv, NEW t \in Threads, stack[t] # <<>>, NEW todo \in SUBSET Items, Leave(t, todo),
         NEW u \in Threads, NEW i, NEW y
  PROVE  Carries(stack'[u], i, y) <=>
           Carries(stack[u], i, y) /\ ~(u = t /\ i = Len(stack[t]))
<1> DEFINE r == Front(stack[t])
           frame == [Top(t) EXCEPT !.step = "records", !.todo = todo]
<1>1. /\ stack[t] \in Seq(Frame) /\ r \in Seq(Frame) /\ Len(r) \in Nat /\ Len(stack[t]) = Len(r) + 1
      /\ \A j \in 1..Len(r) : r[j] = stack[t][j]
  <2>1. stack[t] \in Seq(Frame)
    BY DEF IInv, Typed, TypeOK
  <2> QED
    BY <2>1 DEF Front
<1>2. frame \in Frame /\ frame.step = "records"
  <2>1. Top(t) \in Frame
    BY <1>1 DEF Top, Last
  <2> QED
    BY <2>1 DEF Frame
<1>3. /\ stack'[t] = IF todo = {} THEN r ELSE Append(r, frame)
      /\ \A v \in Threads \ {t} : stack'[v] = stack[v]
  BY DEF Leave, Top, IInv, Typed, TypeOK
<1> HIDE DEF r, frame
<1>4. CASE u # t
  BY <1>3, <1>4
<1>5. CASE u = t
  <2>1. CASE stack'[t] = r
    BY <1>1, <1>5, <2>1 DEF Carries
  <2>2. CASE stack'[t] = Append(r, frame)
    <3>1. /\ DOMAIN stack[t] = 1..(Len(r) + 1) /\ DOMAIN stack'[t] = 1..(Len(r) + 1)
          /\ stack'[t][Len(r) + 1] = frame
          /\ \A j \in 1..Len(r) : stack'[t][j] = stack[t][j]
      BY <1>1, <1>2, <2>2
    <3>2. CASE i = Len(r) + 1
      BY <1>1, <1>2, <1>5, <3>1, <3>2 DEF Carries
    <3>3. CASE i # Len(r) + 1
      BY <1>1, <1>5, <3>1, <3>3 DEF Carries
    <3> QED
      BY <3>2, <3>3
  <2> QED
    BY <1>3, <2>1, <2>2
<1> QED
  BY <1>4, <1>5

\* What TransfersFollowCalls says of one transfer.
Follows(st, recs, rsd, x) ==
  /\ recs[x].end = "open" <=> \E t \in Threads : \E i : Carries(st[t], i, x)
  /\ recs[x].end = "cancelled" <=> x \in rsd
  /\ \A t, u \in Threads : \A i, j :
       Carries(st[t], i, x) /\ Carries(st[u], j, x) => t = u /\ i = j

LEMMA FollowsEach ==
  ASSUME TransfersFollowCalls, NEW x \in DOMAIN transfers
  PROVE  Follows(stack, transfers, raised, x)
<1>1. \A t \in Threads : \A i : Carries(stack[t], i, x) => i \in DOMAIN stack[t]
  BY DEF Carries
<1>2. transfers[x].end = "open" <=> \E t \in Threads : \E i : Carries(stack[t], i, x)
  <2>1. CASE transfers[x].end = "open"
    BY <2>1 DEF TransfersFollowCalls
  <2>2. ASSUME NEW t \in Threads, NEW i, Carries(stack[t], i, x) PROVE transfers[x].end = "open"
    BY <1>1, <2>2 DEF TransfersFollowCalls
  <2> QED
    BY <2>1, <2>2
<1>3. transfers[x].end = "cancelled" <=> x \in raised
  BY DEF TransfersFollowCalls
<1>4. ASSUME NEW t \in Threads, NEW u \in Threads, NEW i, NEW j,
             Carries(stack[t], i, x), Carries(stack[u], j, x)
      PROVE  t = u /\ i = j
  <2>0. i \in DOMAIN stack[t] /\ j \in DOMAIN stack[u]
    BY <1>1, <1>4
  <2> QED
    BY <1>4, <2>0 DEF TransfersFollowCalls
<1> QED
  BY <1>2, <1>3, <1>4 DEF Follows

LEMMA FollowsEachPrime ==
  (\A x \in DOMAIN transfers' : Follows(stack', transfers', raised', x)) => TransfersFollowCalls'
<1>1. \A t \in Threads : \A i, x : Carries(stack'[t], i, x) => i \in DOMAIN stack'[t]
  BY DEF Carries
<1> QED
  BY <1>1 DEF TransfersFollowCalls, Follows

LEMMA SameFollows ==
  ASSUME NEW st, NEW st2, NEW recs, NEW recs2, NEW rsd, NEW rsd2, NEW x,
         Follows(st, recs, rsd, x), recs2[x].end = recs[x].end, x \in rsd2 <=> x \in rsd,
         \A u \in Threads : \A i : Carries(st2[u], i, x) <=> Carries(st[u], i, x)
  PROVE  Follows(st2, recs2, rsd2, x)
BY DEF Follows

\* A transfer is opened and its call pushed.
LEMMA FollowsOpened ==
  ASSUME IInv, TransfersFollowCalls, NEW t \in Threads, NEW f \in Kinds,
         NEW r \in Transfer, r.end = "open", transfers' = Append(transfers, r),
         Push(t, f, Len(transfers) + 1), raised' = raised
  PROVE  TransfersFollowCalls'
<1>n. PICK n \in Nat : n = Len(transfers) + 1
  BY DEF IInv, Typed, TypeOK
<1>1. /\ transfers \in Seq(Transfer) /\ Len(transfers) \in Nat
      /\ DOMAIN transfers = 1..Len(transfers) /\ raised \subseteq 1..Len(transfers)
      /\ \A x \in 1..Len(transfers) : transfers'[x] = transfers[x]
      /\ transfers'[n] = r /\ DOMAIN transfers' = 1..n
  BY <1>n DEF IInv, Typed, TypeOK
<1>2. \A u \in Threads : \A i, y : Carries(stack'[u], i, y) <=>
          Carries(stack[u], i, y) \/ (u = t /\ i = Len(stack[t]) + 1 /\ y = n)
  BY <1>n, CarriesAfterPush
<1>3. \A u \in Threads : \A i : ~Carries(stack[u], i, n)
  <2> SUFFICES ASSUME NEW u \in Threads, NEW i, Carries(stack[u], i, n) PROVE FALSE
    OBVIOUS
  <2>1. i \in 1..Len(stack[u]) /\ stack[u][i].transfer = n
    BY DEF Carries, IInv, Typed, TypeOK
  <2>2. n <= Len(transfers)
    BY <2>1 DEF IInv, AllTold, Told
  <2> QED
    BY <1>n, <1>1, <2>2
<1>4. ASSUME NEW x \in 1..Len(transfers) PROVE Follows(stack', transfers', raised', x)
  <2>1. Follows(stack, transfers, raised, x) /\ x # n
    BY <1>n, <1>1, FollowsEach
  <2>2. \A u \in Threads : \A i : Carries(stack'[u], i, x) <=> Carries(stack[u], i, x)
    BY <1>2, <2>1
  <2> QED
    BY <1>1, <2>1, <2>2, SameFollows
<1>5. Follows(stack', transfers', raised', n)
  <2>1. ASSUME NEW u \in Threads, NEW i
        PROVE  Carries(stack'[u], i, n) <=> u = t /\ i = Len(stack[t]) + 1
    <3>1. ~Carries(stack[u], i, n)
      BY <1>3
    <3>2. Carries(stack'[u], i, n) <=> Carries(stack[u], i, n) \/ (u = t /\ i = Len(stack[t]) + 1 /\ n = n)
      BY <1>2
    <3> QED
      BY <3>1, <3>2
  <2>2. \E u \in Threads : \E i : Carries(stack'[u], i, n)
    BY <2>1
  <2>3. n \notin raised'
    BY <1>n, <1>1
  <2>4. transfers'[n].end = "open"
    BY <1>1
  <2>5. ASSUME NEW v \in Threads, NEW w \in Threads, NEW i, NEW j,
               Carries(stack'[v], i, n), Carries(stack'[w], j, n)
        PROVE  v = w /\ i = j
    <3>1. v = t /\ i = Len(stack[t]) + 1
      BY <2>1, <2>5
    <3>2. w = t /\ j = Len(stack[t]) + 1
      BY <2>1, <2>5
    <3> QED
      BY <3>1, <3>2
  <2> QED
    BY <2>2, <2>3, <2>4, <2>5 DEF Follows
<1> QED
  BY <1>n, <1>1, <1>4, <1>5, FollowsEachPrime

\* A call ends, its transfer with it.
LEMMA FollowsClosed ==
  ASSUME IInv, TransfersFollowCalls, NEW t \in Threads, stack[t] # <<>>, Top(t).step = "body",
         NEW todo \in SUBSET Items, Leave(t, todo), NEW how \in {"done", "cancelled"},
         Top(t).transfer \in 0..Len(transfers), transfers' = Closed(Top(t).transfer, how),
         raised' = IF how = "cancelled" THEN raised \cup ({Top(t).transfer} \ {0}) ELSE raised
  PROVE  TransfersFollowCalls'
<1>z. PICK z \in 0..Len(transfers) : z = Top(t).transfer
  OBVIOUS
<1>m. PICK m : m = Len(stack[t])
  OBVIOUS
<1>1. /\ transfers \in Seq(Transfer) /\ DOMAIN transfers = 1..Len(transfers)
      /\ DOMAIN transfers' = 1..Len(transfers) /\ raised \subseteq 1..Len(transfers)
      /\ \A x \in 1..Len(transfers) : x # z => transfers'[x] = transfers[x]
      /\ z # 0 => transfers'[z].end = how
  BY <1>z DEF IInv, Typed, TypeOK, Closed, NoTransfer, Transfer
<1>2. /\ m \in DOMAIN stack[t] /\ Carries(stack[t], m, z)
      /\ \A y : Carries(stack[t], m, y) => y = z
  <2>1. stack[t] \in Seq(Frame) /\ m \in 1..Len(stack[t])
    BY <1>m DEF IInv, Typed, TypeOK
  <2> QED
    BY <2>1, <1>m, <1>z DEF Carries, Top, Last
<1>3. \A u \in Threads : \A i, y : Carries(stack'[u], i, y) <=>
          Carries(stack[u], i, y) /\ ~(u = t /\ i = m)
  BY <1>m, CarriesAfterLeave
<1>4. ASSUME NEW x \in 1..Len(transfers), x # z PROVE Follows(stack', transfers', raised', x)
  <2>1. Follows(stack, transfers, raised, x)
    BY <1>1, FollowsEach
  <2>2. \A u \in Threads : \A i : Carries(stack'[u], i, x) <=> Carries(stack[u], i, x)
    BY <1>2, <1>3, <1>4
  <2>3. x \in raised' <=> x \in raised
    BY <1>4, <1>z
  <2>4. transfers'[x].end = transfers[x].end
    BY <1>1, <1>4
  <2>5. transfers'[x].end = "cancelled" <=> x \in raised'
    BY <2>1, <2>3, <2>4 DEF Follows
  <2>6. transfers'[x].end = "open" <=> \E u \in Threads : \E i : Carries(stack'[u], i, x)
    BY <2>1, <2>2, <2>4 DEF Follows
  <2>7. ASSUME NEW v \in Threads, NEW w \in Threads, NEW i, NEW j,
               Carries(stack'[v], i, x), Carries(stack'[w], j, x)
        PROVE  v = w /\ i = j
    <3>1. Carries(stack[v], i, x) /\ Carries(stack[w], j, x)
      BY <2>2, <2>7
    <3> QED
      BY <2>1, <3>1 DEF Follows
  <2> QED
    BY <2>5, <2>6, <2>7 DEF Follows
<1>5. ASSUME z \in 1..Len(transfers) PROVE Follows(stack', transfers', raised', z)
  <2>1. Follows(stack, transfers, raised, z)
    BY <1>1, <1>5, FollowsEach
  <2>2. \A u \in Threads : \A i : Carries(stack[u], i, z) => u = t /\ i = m
    BY <1>2, <2>1 DEF Follows
  <2>3. \A u \in Threads : \A i : ~Carries(stack'[u], i, z)
    BY <1>3, <2>2
  <2>4. z \notin raised
    <3>1. transfers[z].end = "open"
      BY <1>2, <2>1 DEF Follows
    <3> QED
      BY <2>1, <3>1 DEF Follows
  <2>5. transfers'[z].end = "cancelled" <=> z \in raised'
    BY <1>1, <1>5, <1>z, <2>4
  <2>6. transfers'[z].end # "open"
    BY <1>1, <1>5
  <2> QED
    BY <2>3, <2>5, <2>6 DEF Follows
<1> QED
  BY <1>1, <1>4, <1>5, FollowsEachPrime

LEMMA FollowsNext == IInv /\ TransfersFollowCalls /\ [Next]_vars => TransfersFollowCalls'
<1> SUFFICES ASSUME IInv, TransfersFollowCalls, [Next]_vars PROVE TransfersFollowCalls'
  OBVIOUS
<1>0. /\ transfers \in Seq(Transfer) /\ Len(transfers) \in Nat /\ DOMAIN transfers = 1..Len(transfers)
      /\ raised \subseteq 1..Len(transfers)
  BY DEF IInv, Typed, TypeOK
<1>1. ASSUME NEW t \in Threads, NEW f \in Kinds, Push(t, f, 0), UNCHANGED <<transfers, raised>>
      PROVE  TransfersFollowCalls'
  <2>1. ASSUME NEW x \in DOMAIN transfers PROVE Follows(stack', transfers', raised', x)
    <3>1. Follows(stack, transfers, raised, x) /\ x # 0
      BY <1>0, FollowsEach
    <3>2. \A u \in Threads : \A i : Carries(stack'[u], i, x) <=> Carries(stack[u], i, x)
      BY <1>1, <3>1, CarriesAfterPush
    <3> QED
      BY <1>1, <3>1, <3>2, SameFollows
  <2> QED
    BY <1>1, <2>1, FollowsEachPrime
<1>2. ASSUME NEW t \in Threads, Call(t) PROVE TransfersFollowCalls'
  <2>1. ASSUME NEW f \in Setters, CallInContext(t, f) PROVE TransfersFollowCalls'
    BY <1>1, <2>1 DEF CallInContext, NoTransfer, Kinds, Movers
  <2>2. CASE CallUntagged(t)
    BY <1>1, <2>2 DEF CallUntagged, NoTransfer, Kinds, Bracketing, Collectives
  <2>3. ASSUME NEW f \in Collectives, CallCollective(t, f) PROVE TransfersFollowCalls'
    <3> DEFINE r == [kind |-> Tag(t, f).kind, by |-> IssuedBy(Tag(t, f)), end |-> "open"]
    <3>1. payload[t] \in Contexts /\ Tag(t, f) # NoContext
      BY <2>3 DEF CallCollective, IInv, Typed, TypeOK
    <3>2. r \in Transfer
      BY <3>1, TagFacts DEF Transfer, PayloadKinds
    <3>3. f \in Kinds
      BY DEF Kinds, Bracketing
    <3>4. transfers' = Append(transfers, r) /\ r.end = "open" /\ raised' = raised
          /\ Push(t, f, Len(transfers) + 1)
      BY <2>3 DEF CallCollective, Open
    <3> HIDE DEF r
    <3> QED
      BY <3>2, <3>3, <3>4, FollowsOpened
  <2>4. ASSUME NEW f \in Bracketing \ Collectives, CallTransfer(t, f) PROVE TransfersFollowCalls'
    <3> DEFINE r == [kind |-> "kv", by |-> (IF f = "move" THEN "cache_controller" ELSE "connector"),
                     end |-> "open"]
    <3>1. r \in Transfer
      BY DEF Transfer, PayloadKinds
    <3>2. f \in Kinds
      BY DEF Kinds
    <3>3. transfers' = Append(transfers, r) /\ r.end = "open" /\ raised' = raised
          /\ Push(t, f, Len(transfers) + 1)
      BY <2>4 DEF CallTransfer, Open
    <3> HIDE DEF r
    <3> QED
      BY <3>1, <3>2, <3>3, FollowsOpened
  <2>5. ASSUME NEW f \in {"offload", "tier"}, CallPlain(t, f) PROVE TransfersFollowCalls'
    BY <1>1, <2>5 DEF CallPlain, NoTransfer, Kinds, Movers, BlockMovers
  <2> QED
    BY <1>2, <2>1, <2>2, <2>3, <2>4, <2>5 DEF Call
<1>3. ASSUME NEW t \in Threads, stack[t] # <<>>
      PROVE  Top(t) \in Frame /\ Top(t).transfer \in 0..Len(transfers)
  <2>1. stack[t] \in Seq(Frame) /\ Len(stack[t]) \in 1..Len(stack[t])
    BY <1>3 DEF IInv, Typed, TypeOK
  <2>2. Top(t) \in Frame /\ Told(Top(t), transfers)
    BY <2>1 DEF IInv, AllTold, Top, Last
  <2> QED
    BY <2>2, <1>0 DEF Told, Frame
<1>4. ASSUME NEW t \in Threads, Return(t) PROVE TransfersFollowCalls'
  <2>1. stack[t] # <<>> /\ Top(t).step = "body" /\ Top(t).kind \in Kinds
        /\ transfers' = Closed(Top(t).transfer, "done") /\ raised' = raised
    BY <1>4, <1>3 DEF Return, Frame
  <2>2. PICK todo \in RecordsAfter(Top(t).kind, TRUE) : Leave(t, todo)
    BY <1>4 DEF Return
  <2>3. todo \in SUBSET Items
    BY <2>1, RecordsAfterItems
  <2> QED
    BY <1>3, <2>1, <2>2, <2>3, FollowsClosed
<1>5. ASSUME NEW t \in Threads, Raise(t) PROVE TransfersFollowCalls'
  <2>1. stack[t] # <<>> /\ Top(t).step = "body" /\ Top(t).kind \in Kinds
        /\ transfers' = Closed(Top(t).transfer, "cancelled")
        /\ raised' = raised \cup ({Top(t).transfer} \ {0})
    BY <1>5, <1>3 DEF Raise, Frame, NoTransfer
  <2>2. PICK todo \in RecordsAfter(Top(t).kind, FALSE) : Leave(t, todo)
    BY <1>5 DEF Raise
  <2>3. todo \in SUBSET Items
    BY <2>1, RecordsAfterItems
  <2> QED
    BY <1>3, <2>1, <2>2, <2>3, FollowsClosed
<1>6. ASSUME NEW t \in Threads, Record(t) PROVE TransfersFollowCalls'
  <2>1. stack[t] # <<>> /\ Top(t).step = "records" /\ Top(t) \in Frame /\ raised' = raised
    BY <1>6, <1>3 DEF Record
  <2>2. PICK i \in Top(t).todo : Leave(t, Top(t).todo \ {i})
    BY <1>6 DEF Record
  <2>3. Top(t).todo \ {i} \in SUBSET Items
    BY <2>1 DEF Frame
  <2>4. \A y : ~Carries(stack[t], Len(stack[t]), y)
    BY <2>1 DEF Carries, Top, Last
  <2>5. \A u \in Threads : \A j, y : Carries(stack'[u], j, y) <=> Carries(stack[u], j, y)
    BY <2>1, <2>2, <2>3, <2>4, CarriesAfterLeave
  <2>n. PICK n \in Nat : n = Len(transfers) + 1
    BY <1>0
  <2> DEFINE r == [kind |-> PayloadOf(Top(t).kind), by |-> IssuerOf(Top(t).kind), end |-> "done"]
  <2>6. r \in Transfer /\ r.end = "done"
    BY DEF Transfer, PayloadOf, IssuerOf, PayloadKinds
  <2>7. transfers' = Append(transfers, r) \/ transfers' = transfers
    BY <1>6 DEF Record
  <2> HIDE DEF r
  <2>8. \A x \in DOMAIN transfers : transfers'[x] = transfers[x]
    BY <1>0, <2>6, <2>7
  <2>9. ASSUME NEW x \in DOMAIN transfers PROVE Follows(stack', transfers', raised', x)
    <3>1. Follows(stack, transfers, raised, x)
      BY FollowsEach
    <3> QED
      BY <2>1, <2>5, <2>8, <3>1, SameFollows
  <2>10. CASE transfers' = transfers
    BY <2>9, <2>10, FollowsEachPrime
  <2>11. CASE transfers' = Append(transfers, r)
    <3>1. DOMAIN transfers' = 1..n /\ transfers'[n] = r
      BY <1>0, <2>n, <2>6, <2>11
    <3>2. \A u \in Threads : \A j : ~Carries(stack[u], j, n)
      <4> SUFFICES ASSUME NEW u \in Threads, NEW j, Carries(stack[u], j, n) PROVE FALSE
        OBVIOUS
      <4>1. j \in 1..Len(stack[u]) /\ stack[u][j].transfer = n
        BY DEF Carries, IInv, Typed, TypeOK
      <4>2. n <= Len(transfers)
        BY <4>1 DEF IInv, AllTold, Told
      <4> QED
        BY <1>0, <2>n, <4>2
    <3>3. \A u \in Threads : \A j : ~Carries(stack'[u], j, n)
      BY <2>5, <3>2
    <3>4. n \notin raised'
      BY <1>0, <2>n, <2>1
    <3>5. Follows(stack', transfers', raised', n)
      BY <2>6, <3>1, <3>3, <3>4 DEF Follows
    <3>6. DOMAIN transfers' = DOMAIN transfers \cup {n}
      BY <1>0, <2>n, <3>1
    <3> QED
      BY <2>9, <3>5, <3>6, FollowsEachPrime
  <2> QED
    BY <2>7, <2>10, <2>11
<1>7. CASE UNCHANGED vars
  BY <1>7 DEF vars, TransfersFollowCalls
<1> QED
  BY <1>2, <1>4, <1>5, <1>6, <1>7 DEF Next

(* The try/finally of every wrapper that opens a transfer: the transfer is    *)
(* open while its call is in progress and no longer, it belongs to one call, *)
(* and it is cancelled exactly if that call raised.                          *)
THEOREM TransfersAreClosed == Spec => []TransfersFollowCalls
<1>1. Init => TransfersFollowCalls
  BY DEF Init, TransfersFollowCalls
<1> QED
  BY <1>1, InvInit, InvNext, FollowsNext, PTL DEF Spec

-----------------------------------------------------------------------------
(* Records need a return.  What is recorded and what is still to be        *)
(* recorded together do not exceed the calls that returned.                *)

\* The k-th call of thread t is one of f that still has to record item i.
HasTodo(t, k, f, i) ==
  k \in DOMAIN stack[t] /\ stack[t][k].step = "records" /\ stack[t][k].kind = f /\ i \in stack[t][k].todo

Pending(f, i) == {p \in Threads \X Nat : HasTodo(p[1], p[2], f, i)}

Backed(f, i) ==
  /\ IsFiniteSet(Pending(f, i))
  /\ recorded[f][i] + Cardinality(Pending(f, i)) <= returned[f]

Counted == Movers \cup {"tier"}

RecordsBacked == \A f \in Counted, i \in Items : Backed(f, i)

LEMMA OneMore ==
  ASSUME NEW S, NEW T, NEW x, IsFiniteSet(S), T = S \cup {x}
  PROVE  IsFiniteSet(T) /\ Cardinality(T) \in Nat /\ Cardinality(T) <= Cardinality(S) + 1
<1>1. IsFiniteSet(T) /\ Cardinality(T) = IF x \in S THEN Cardinality(S) ELSE Cardinality(S) + 1
  BY FS_AddElement
<1>2. Cardinality(S) \in Nat /\ Cardinality(T) \in Nat
  BY <1>1, FS_CardinalityType
<1> QED
  BY <1>1, <1>2

LEMMA OneLess ==
  ASSUME NEW S, NEW T, NEW x \in S, IsFiniteSet(S), T = S \ {x}
  PROVE  IsFiniteSet(T) /\ Cardinality(T) = Cardinality(S) - 1
  BY FS_RemoveElement

LEMMA TodoAfterPush ==
  ASSUME IInv, NEW t \in Threads, NEW g, NEW x, Push(t, g, x),
         NEW f, NEW i
  PROVE  Pending(f, i)' = Pending(f, i)
<1> DEFINE frame == [kind |-> g, step |-> "body", before |-> payload[t], transfer |-> x, todo |-> {}]
<1>1. stack[t] \in Seq(Frame)
  BY DEF IInv, Typed, TypeOK
<1>2. stack'[t] = Append(stack[t], frame) /\ frame.step = "body" /\ \A v \in Threads \ {t} : stack'[v] = stack[v]
  BY DEF Push, IInv, Typed, TypeOK
<1> HIDE DEF frame
<1>3. /\ DOMAIN stack'[t] = DOMAIN stack[t] \cup {Len(stack[t]) + 1}
      /\ stack'[t][Len(stack[t]) + 1] = frame
      /\ \A k \in DOMAIN stack[t] : stack'[t][k] = stack[t][k]
      /\ Len(stack[t]) + 1 \notin DOMAIN stack[t]
  BY <1>1, <1>2
<1>4. \A u \in Threads : \A k : HasTodo(u, k, f, i)' <=> HasTodo(u, k, f, i)
  BY <1>2, <1>3 DEF HasTodo
<1> QED
  BY <1>4 DEF Pending

LEMMA TodoAfterLeave ==
  ASSUME IInv, NEW t \in Threads, stack[t] # <<>>, NEW todo \in SUBSET Items, Leave(t, todo),
         NEW u \in Threads, NEW k, NEW f, NEW i
  PROVE  HasTodo(u, k, f, i)' <=>
           IF u = t /\ k = Len(stack[t]) THEN Top(t).kind = f /\ i \in todo ELSE HasTodo(u, k, f, i)
<1> DEFINE r == Front(stack[t])
           frame == [Top(t) EXCEPT !.step = "records", !.todo = todo]
<1>1. /\ stack[t] \in Seq(Frame) /\ r \in Seq(Frame) /\ Len(r) \in Nat /\ Len(stack[t]) = Len(r) + 1
      /\ \A j \in 1..Len(r) : r[j] = stack[t][j]
  <2>1. stack[t] \in Seq(Frame)
    BY DEF IInv, Typed, TypeOK
  <2> QED
    BY <2>1 DEF Front
<1>2. frame \in Frame /\ frame.step = "records" /\ frame.todo = todo /\ frame.kind = Top(t).kind
  <2>1. Top(t) \in Frame
    BY <1>1 DEF Top, Last
  <2> QED
    BY <2>1 DEF Frame
<1>3. /\ stack'[t] = IF todo = {} THEN r ELSE Append(r, frame)
      /\ \A v \in Threads \ {t} : stack'[v] = stack[v]
  BY DEF Leave, Top, IInv, Typed, TypeOK
<1> HIDE DEF r, frame
<1>4. CASE u # t
  BY <1>3, <1>4 DEF HasTodo
<1>5. CASE u = t
  <2>1. CASE todo = {}
    BY <1>1, <1>3, <1>5, <2>1 DEF HasTodo
  <2>2. CASE todo # {}
    <3>1. /\ DOMAIN stack[t] = 1..(Len(r) + 1) /\ DOMAIN stack'[t] = 1..(Len(r) + 1)
          /\ stack'[t][Len(r) + 1] = frame
          /\ \A j \in 1..Len(r) : stack'[t][j] = stack[t][j]
      BY <1>1, <1>2, <1>3, <2>2
    <3>2. CASE k = Len(r) + 1
      BY <1>1, <1>2, <1>5, <3>1, <3>2 DEF HasTodo
    <3>3. CASE k # Len(r) + 1
      BY <1>1, <1>5, <3>1, <3>3 DEF HasTodo
    <3> QED
      BY <3>2, <3>3
  <2> QED
    BY <2>1, <2>2
<1> QED
  BY <1>4, <1>5

\* A call that has just ended: what it has to record is new.
LEMMA PendingAfterBody ==
  ASSUME IInv, NEW t \in Threads, stack[t] # <<>>, Top(t).step = "body",
         NEW todo \in SUBSET Items, Leave(t, todo), NEW f, NEW i
  PROVE  Pending(f, i)' = Pending(f, i) \cup
           (IF Top(t).kind = f /\ i \in todo THEN {<<t, Len(stack[t])>>} ELSE {})
<1>1. stack[t] \in Seq(Frame) /\ Len(stack[t]) \in Nat /\ stack[t][Len(stack[t])] = Top(t)
  BY DEF IInv, Typed, TypeOK, Top, Last
<1>2. ~HasTodo(t, Len(stack[t]), f, i)
  BY <1>1 DEF HasTodo
<1>3. \A u \in Threads : \A k : HasTodo(u, k, f, i)' <=>
        IF u = t /\ k = Len(stack[t]) THEN Top(t).kind = f /\ i \in todo ELSE HasTodo(u, k, f, i)
  BY TodoAfterLeave
<1> QED
  BY <1>1, <1>2, <1>3 DEF Pending

\* A call that is recording: the item it records is no longer to be recorded.
LEMMA PendingAfterRecord ==
  ASSUME IInv, NEW t \in Threads, stack[t] # <<>>, Top(t).step = "records", NEW j, j \in Top(t).todo,
         NEW rest, rest = Top(t).todo \ {j}, Leave(t, rest), Top(t) \in Frame, NEW f, NEW i
  PROVE  /\ Top(t).kind = f /\ i = j =>
              <<t, Len(stack[t])>> \in Pending(f, i) /\ Pending(f, i)' = Pending(f, i) \ {<<t, Len(stack[t])>>}
         /\ Top(t).kind # f \/ i # j => Pending(f, i)' = Pending(f, i)
<1>1. /\ stack[t] \in Seq(Frame) /\ Len(stack[t]) \in Nat /\ stack[t][Len(stack[t])] = Top(t)
      /\ Len(stack[t]) \in DOMAIN stack[t]
  BY DEF IInv, Typed, TypeOK, Top, Last
<1>2. HasTodo(t, Len(stack[t]), f, i) <=> Top(t).kind = f /\ i \in Top(t).todo
  BY <1>1 DEF HasTodo
<1>3. rest \in SUBSET Items
  BY DEF Frame
<1>4. \A u \in Threads : \A k : HasTodo(u, k, f, i)' <=>
        IF u = t /\ k = Len(stack[t]) THEN Top(t).kind = f /\ i \in rest ELSE HasTodo(u, k, f, i)
  BY <1>3, TodoAfterLeave
<1> QED
  BY <1>1, <1>2, <1>4 DEF Pending

LEMMA BackedInit == Init => RecordsBacked
<1> SUFFICES ASSUME Init, NEW f \in Counted, NEW i \in Items PROVE Backed(f, i)
  BY DEF RecordsBacked
<1>1. f \in Kinds
  BY DEF Counted, Kinds, BlockMovers
<1>2. Pending(f, i) = {}
  BY DEF Init, Pending, HasTodo
<1> QED
  BY <1>1, <1>2, FS_EmptySet DEF Init, Backed

LEMMA BackedNext == IInv /\ RecordsBacked /\ [Next]_vars => RecordsBacked'
<1> SUFFICES ASSUME IInv, RecordsBacked, [Next]_vars, NEW f \in Counted, NEW i \in Items
             PROVE  Backed(f, i)'
  BY DEF RecordsBacked
<1>p. PICK P : P = Pending(f, i)
  OBVIOUS
<1>0. /\ P = Pending(f, i)
      /\ f \in Kinds /\ f # "move" /\ IsFiniteSet(P) /\ Cardinality(P) \in Nat
      /\ recorded[f][i] + Cardinality(P) <= returned[f]
      /\ recorded \in [Kinds -> [Items -> Nat]] /\ returned \in [Kinds -> Nat]
  BY <1>p, FS_CardinalityType
     DEF RecordsBacked, Backed, Counted, Kinds, Movers, Setters, BlockMovers, IInv, Typed, TypeOK
<1>1. ASSUME NEW t \in Threads, stack[t] # <<>> PROVE Top(t) \in Frame
  <2>1. stack[t] \in Seq(Frame) /\ Len(stack[t]) \in 1..Len(stack[t])
    BY <1>1 DEF IInv, Typed, TypeOK
  <2> QED
    BY <2>1 DEF Top, Last
<1>2. ASSUME NEW t \in Threads, Call(t) PROVE Backed(f, i)'
  <2>1. (\E g, x : Push(t, g, x)) /\ UNCHANGED <<recorded, returned>>
    BY <1>2 DEF Call, CallInContext, CallUntagged, CallCollective, CallTransfer, CallPlain
  <2>2. Pending(f, i)' = P
    BY <1>p, <2>1, TodoAfterPush
  <2> QED
    BY <1>0, <2>1, <2>2 DEF Backed
<1>3. ASSUME NEW t \in Threads, Return(t) PROVE Backed(f, i)'
  <2>1. stack[t] # <<>> /\ Top(t).step = "body" /\ recorded' = recorded
        /\ returned' = [returned EXCEPT ![Top(t).kind] = @ + 1]
    BY <1>3 DEF Return
  <2>2. Top(t).kind \in Kinds
    BY <1>1, <2>1 DEF Frame
  <2>3. PICK todo \in RecordsAfter(Top(t).kind, TRUE) : Leave(t, todo)
    BY <1>3 DEF Return
  <2>4. todo \in SUBSET Items
    BY <2>2, RecordsAfterItems
  <2>5. Pending(f, i)' = P \cup (IF Top(t).kind = f /\ i \in todo THEN {<<t, Len(stack[t])>>} ELSE {})
    BY <1>p, <2>1, <2>3, <2>4, PendingAfterBody
  <2>6. CASE Top(t).kind = f /\ i \in todo
    <3>0. Pending(f, i)' = P \cup {<<t, Len(stack[t])>>}
      BY <2>5, <2>6
    <3>1. IsFiniteSet(Pending(f, i)') /\ Cardinality(Pending(f, i)') <= Cardinality(P) + 1
          /\ Cardinality(Pending(f, i)') \in Nat
      BY <1>0, <3>0, OneMore
    <3>2. returned'[f] = returned[f] + 1
      BY <1>0, <2>1, <2>6
    <3> QED
      BY <1>0, <2>1, <3>1, <3>2 DEF Backed
  <2>7. CASE ~(Top(t).kind = f /\ i \in todo)
    <3>1. Pending(f, i)' = P
      BY <2>5, <2>7
    <3>2. returned'[f] >= returned[f] /\ returned'[f] \in Nat
      BY <1>0, <2>1
    <3> QED
      BY <1>0, <2>1, <3>1, <3>2 DEF Backed
  <2> QED
    BY <2>6, <2>7
<1>4. ASSUME NEW t \in Threads, Raise(t) PROVE Backed(f, i)'
  <2>1. stack[t] # <<>> /\ Top(t).step = "body" /\ UNCHANGED <<recorded, returned>>
    BY <1>4 DEF Raise
  <2>2. Top(t).kind \in Kinds
    BY <1>1, <2>1 DEF Frame
  <2>3. PICK todo \in RecordsAfter(Top(t).kind, FALSE) : Leave(t, todo)
    BY <1>4 DEF Raise
  <2>4. todo \in SUBSET Items
    BY <2>2, RecordsAfterItems
  <2>5. Pending(f, i)' = P \cup (IF Top(t).kind = f /\ i \in todo THEN {<<t, Len(stack[t])>>} ELSE {})
    BY <1>p, <2>1, <2>3, <2>4, PendingAfterBody
  <2>6. Top(t).kind = f => todo = {}
    BY <1>0, <2>3 DEF RecordsAfter
  <2>7. Pending(f, i)' = P
    BY <2>5, <2>6
  <2> QED
    BY <1>0, <2>1, <2>7 DEF Backed
<1>5. ASSUME NEW t \in Threads, Record(t) PROVE Backed(f, i)'
  <2>1. stack[t] # <<>> /\ Top(t).step = "records" /\ returned' = returned
    BY <1>5 DEF Record
  <2>2. Top(t).kind \in Kinds /\ Top(t).todo \in SUBSET Items
    BY <1>1, <2>1 DEF Frame
  <2>3. PICK j \in Top(t).todo : /\ recorded' = [recorded EXCEPT ![Top(t).kind][j] = @ + 1]
                                 /\ Leave(t, Top(t).todo \ {j})
    BY <1>5 DEF Record
  <2>4. /\ Top(t).kind = f /\ i = j => <<t, Len(stack[t])>> \in P /\ Pending(f, i)' = P \ {<<t, Len(stack[t])>>}
        /\ ~(Top(t).kind = f /\ i = j) => Pending(f, i)' = P
    <3>1. PICK rest : rest = Top(t).todo \ {j}
      OBVIOUS
    <3>2. Leave(t, rest)
      BY <2>3, <3>1 DEF Leave
    <3> QED
      BY <1>p, <1>1, <2>1, <3>1, <3>2, PendingAfterRecord
  <2>5. CASE Top(t).kind = f /\ i = j
    <3>1. IsFiniteSet(Pending(f, i)') /\ Cardinality(Pending(f, i)') = Cardinality(P) - 1
      BY <1>0, <2>4, <2>5, OneLess
    <3>2. recorded'[f][i] = recorded[f][i] + 1
      BY <1>0, <2>2, <2>3, <2>5
    <3>3. recorded[f][i] \in Nat /\ returned[f] \in Nat
      BY <1>0
    <3> QED
      BY <1>0, <2>1, <3>1, <3>2, <3>3 DEF Backed
  <2>6. CASE ~(Top(t).kind = f /\ i = j)
    <3>1. recorded'[f][i] = recorded[f][i]
      BY <1>0, <2>2, <2>3, <2>6
    <3> QED
      BY <1>0, <2>1, <2>4, <2>6, <3>1 DEF Backed
  <2> QED
    BY <2>5, <2>6
<1>6. CASE UNCHANGED vars
  <2>1. Pending(f, i)' = P /\ UNCHANGED <<recorded, returned>>
    BY <1>p, <1>6 DEF vars, Pending, HasTodo
  <2> QED
    BY <1>0, <2>1 DEF Backed
<1> QED
  BY <1>2, <1>3, <1>4, <1>5, <1>6 DEF Next

\* A call that raised leaves no weight records: each item's records of a kind,
\* those still to be written included, are covered by calls that returned,
\* whatever calls run on however many threads.
THEOREM RecordsAreBacked == Spec => []RecordsNeedReturn
<1>1. IInv /\ RecordsBacked => RecordsNeedReturn
  <2> SUFFICES ASSUME IInv, RecordsBacked, NEW f \in Counted, NEW i \in Items
               PROVE  recorded[f][i] <= returned[f]
    BY DEF RecordsNeedReturn, Counted
  <2>1. f \in Kinds
    BY DEF Counted, Kinds, BlockMovers
  <2>2. recorded[f][i] \in Nat /\ returned[f] \in Nat /\ Cardinality(Pending(f, i)) \in Nat
    BY <2>1, FS_CardinalityType DEF RecordsBacked, Backed, IInv, Typed, TypeOK
  <2> QED
    BY <2>2 DEF RecordsBacked, Backed
<1> QED
  BY <1>1, InvInit, InvNext, BackedInit, BackedNext, PTL DEF Spec
=============================================================================
