----------------------------- MODULE PatchingProofs -----------------------------
(***************************************************************************)
(* Proofs about the installation of the probes and the process-wide        *)
(* emitter, for any threads, any number of calls, emitters and resets, and *)
(* any engine.                                                             *)
(***************************************************************************)
EXTENDS Patching, SequenceTheorems, TLAPS

-----------------------------------------------------------------------------
(* The frames of a stack and what they tell.                               *)

FrameOf(op, places) == [op : {op}, at : places]

Factories == FrameOf("factory", {"decide", "delegate", "pop", "guard, popped", "guard", "direct",
                                 "original, popped", "original", "after direct", "after, popped",
                                 "after", "restore"})

Frames ==
  FrameOf("get", {"check", "wait", "manifest", "return"}) \cup {Frame("probe", "put")} \cup
  FrameOf("shutdown", {"wait", "collector", "flusher"}) \cup
  FrameOf("apply", {"wait", "emitter"} \cup Modules) \cup Factories

\* The calls inside a block of apply()'s lock, inside one of the emitter's, ...
Body == FrameOf("apply", {"emitter"} \cup Modules)
Closing == FrameOf("shutdown", {"collector", "flusher"})
Critical == {Frame("get", "manifest")} \cup Closing

\* ... the calls of tracing_factory() that have found apply() done, those that
\* have set the guard, and those that have the variable to put back.
Past == Factories \ {Frame("factory", "decide")}
Popped == FrameOf("factory", {"guard, popped", "original, popped", "after, popped", "restore"})
Guarded == FrameOf("factory", {"original, popped", "original", "after, popped", "after"})

\* What a call may have called.
Over(f, g) ==
  \/ f = Frame("probe", "put") /\ g.op = "get"
  \/ f \in Body /\ g.op = "get"
  \/ f = Frame("factory", "decide") /\ g.op = "apply"
  \/ f \in FrameOf("factory", {"after direct", "after, popped", "after"}) /\ g.op = "factory"

Shape(s) ==
  /\ s \in Seq(Frames)
  /\ s # <<>> => s[1].op # "get"
  /\ \A i \in 1 .. Len(s) - 1 : Over(s[i], s[i + 1])

\* One of the frames of s is in F.
Within(s, F) == \E i \in DOMAIN s : s[i] \in F

Shapes == stack \in [Threads -> Seq(Frames)] /\ \A t \in Threads : Shape(stack[t])

Scalars ==
  /\ ret \in [Threads -> Nat] /\ raised \in [Threads -> BOOLEAN]
  /\ current \in 0 .. made /\ lock \in Threads \cup {Nobody}
  /\ made \in 0 .. MaxEmitters
  /\ flusher \in [Emitters -> {"none", "running", "done", "dead"}]
  /\ collector \in [Emitters -> {"none", "running", "sampling", "done"}]
  /\ stops \in [Emitters -> SUBSET {"collector", "flusher"}]
  /\ late \in [Emitters -> SUBSET RecordKinds]
  /\ calls \in 0 .. MaxCalls /\ overlapped \in SUBSET Threads /\ gaveUp \in BOOLEAN
  /\ build \in Build /\ applyLock \in Threads \cup {Nobody}
  /\ result \in {"none", "applied", "nothing"}
  /\ done \in SUBSET Modules /\ layers \in [Modules -> Nat]
  /\ inFactory \in BOOLEAN /\ env \in BOOLEAN /\ untraced \in BOOLEAN
  /\ resets \in 0 .. MaxResets

\* Each lock has the thread that is inside one of its blocks.
Held ==
  \A t \in Threads :
    /\ applyLock = t <=> Within(stack[t], Body)
    /\ lock = t <=> Within(stack[t], Critical)

\* An emitter is told to stop by a shutdown() that is under way or over, ...
Stopping ==
  /\ \A t \in Threads : Within(stack[t], Critical) => current # 0
  /\ current # 0 /\ (\A t \in Threads : ~Within(stack[t], Closing)) => stops[current] = {}
  /\ \A e \in Emitters :
       /\ e > made => flusher[e] = "none" /\ collector[e] = "none" /\ stops[e] = {} /\ late[e] = {}
       /\ e <= made => flusher[e] # "none"
       /\ flusher[e] = "done" => "flusher" \in stops[e]

\* ... and if no join() gives up, its threads end one after the other.
InTurn ==
  ~gaveUp =>
    /\ \A t \in Threads : Within(stack[t], {Frame("shutdown", "flusher")}) => collector[current] = "done"
    /\ \A e \in Emitters :
         /\ flusher[e] = "running" => e = current
         /\ "flusher" \in stops[e] => collector[e] = "done"
         /\ late[e] \subseteq {"engine"}

\* A call that no shutdown() has overlapped finds the emitter as it is.
Undisturbed ==
  \A t \in Threads : t \notin overlapped =>
    /\ Busy(t) => \A u \in Threads : ~Within(stack[u], Closing)
    /\ At(t, "get", "return") => current # 0
    /\ At(t, "probe", "put") /\ ~raised[t] => current # 0 /\ ret[t] = current

\* Wrappers: a site without a mark gets another one only after a reset().
Layers ==
  /\ \A m \in Modules :
       /\ layers[m] <= IF Marked(m) THEN 1 ELSE resets + (IF m \in done THEN 1 ELSE 0)
       /\ m \in done => layers[m] > 0
  /\ result = "applied" => done # {}

\* The guard is set and the variable gone on behalf of a call that will see to it.
Restored ==
  /\ env => IsVllm
  /\ \A t \in Threads : Within(stack[t], Factories) => IsVllm
  /\ IsVllm /\ ~env => \E t \in Threads : Within(stack[t], Popped)
  /\ inFactory => \E t \in Threads : Within(stack[t], Guarded)

\* Whoever has got through apply() finds the connector's site wrapped.
PastOrWeight == Past \cup {Frame("apply", "weight")}
Unwrapped == resets = 0 /\ IsVllm /\ "connector" \in build.present /\ layers["connector"] = 0

Wrapping ==
  /\ \A t \in Threads : Within(stack[t], Past) => "connector" \in build.present
  /\ resets = 0 => ~untraced
  /\ Unwrapped =>
       /\ result = "none"
       /\ \A t \in Threads : ~Within(stack[t], PastOrWeight)
       /\ \A t \in Threads : At(t, "factory", "decide") => raised[t]

PatchInv ==
  Scalars /\ Shapes /\ Held /\ Stopping /\ InTurn /\ Undisturbed /\ Layers /\ Restored /\ Wrapping

-----------------------------------------------------------------------------
(* Stacks.                                                                 *)

\* The frames below the topmost.
Below(s, F) == \E i \in 1 .. Len(s) - 1 : s[i] \in F

LEMMA FrameFields ==
  ASSUME NEW f \in Frames
  PROVE  f = Frame(f.op, f.at) /\ f.op \in {"get", "probe", "shutdown", "apply", "factory"}
<1>1. ASSUME NEW ops, NEW places, NEW g \in [op : ops, at : places]
      PROVE  g = Frame(g.op, g.at) /\ g.op \in ops
  BY DEF Frame
<1>2. f \in FrameOf("get", {"check", "wait", "manifest", "return"}) => f = Frame(f.op, f.at) /\ f.op = "get"
  BY <1>1 DEF FrameOf
<1>3. f = Frame("probe", "put") => f = Frame(f.op, f.at) /\ f.op = "probe"
  BY DEF Frame
<1>4. f \in FrameOf("shutdown", {"wait", "collector", "flusher"}) => f = Frame(f.op, f.at) /\ f.op = "shutdown"
  BY <1>1 DEF FrameOf
<1>5. f \in FrameOf("apply", {"wait", "emitter"} \cup Modules) => f = Frame(f.op, f.at) /\ f.op = "apply"
  BY <1>1 DEF FrameOf
<1>6. f \in Factories => f = Frame(f.op, f.at) /\ f.op = "factory"
  BY <1>1 DEF FrameOf, Factories
<1> QED
  BY <1>2, <1>3, <1>4, <1>5, <1>6 DEF Frames

LEMMA WithinTop ==
  ASSUME NEW s \in Seq(Frames), s # <<>>, NEW F
  PROVE  Within(s, F) <=> Below(s, F) \/ s[Len(s)] \in F
<1>1. Len(s) \in Nat /\ Len(s) > 0 /\ DOMAIN s = 1 .. Len(s)
  OBVIOUS
<1>2. 1 .. Len(s) = (1 .. Len(s) - 1) \cup {Len(s)}
  BY <1>1
<1> QED
  BY <1>1, <1>2 DEF Within, Below

\* What runs on top of what, told by the kind.
LEMMA OverFacts ==
  ASSUME NEW f, NEW g, Over(f, g)
  PROVE  /\ f \notin Critical /\ f.op # "get"
         /\ f \in Body => g.op = "get"
<1>1. f \in Body => f.op = "apply"
  BY DEF Body, FrameOf
<1>2. f \in Closing => f.op = "shutdown"
  BY DEF Closing, FrameOf
<1>3. f \in Critical => f.op \in {"get", "shutdown"}
  BY <1>2 DEF Critical, Frame
<1>4. CASE f = Frame("probe", "put") /\ g.op = "get"
  <2>1. f.op = "probe"
    BY <1>4 DEF Frame
  <2> QED
    BY <1>4, <2>1, <1>1, <1>3
<1>5. CASE f \in Body /\ g.op = "get"
  BY <1>5, <1>1, <1>3
<1>6. CASE f = Frame("factory", "decide") \/ f \in FrameOf("factory", {"after direct", "after, popped", "after"})
  <2>1. f.op = "factory"
    <3>1. f = Frame("factory", "decide") => f.op = "factory"
      BY DEF Frame
    <3>2. f \in FrameOf("factory", {"after direct", "after, popped", "after"}) => f.op = "factory"
      BY DEF FrameOf
    <3> QED
      BY <1>6, <3>1, <3>2
  <2> QED
    BY <2>1, <1>1, <1>3
<1> QED
  BY <1>4, <1>5, <1>6 DEF Over

\* Only a get() runs on top of the body of apply(), and nothing on top of what
\* holds the emitter's lock.
LEMMA BelowFacts ==
  ASSUME NEW s, Shape(s), s # <<>>
  PROVE  /\ ~Below(s, Critical) /\ ~Below(s, Closing)
         /\ Below(s, Body) => s[Len(s)].op = "get"
<1>1. Len(s) \in Nat /\ Len(s) > 0
  BY DEF Shape
<1>2. ASSUME NEW i \in 1 .. Len(s) - 1 PROVE Over(s[i], s[i + 1]) /\ i + 1 \in 1 .. Len(s)
  BY <1>1, <1>2 DEF Shape
<1>3. ASSUME NEW i \in 1 .. Len(s) - 1 PROVE s[i] \notin Critical
  BY <1>2, OverFacts
<1>4. Closing \subseteq Critical
  BY DEF Critical
<1>5. ASSUME NEW i \in 1 .. Len(s) - 1, s[i] \in Body PROVE s[Len(s)].op = "get"
  <2>1. s[i + 1].op = "get"
    BY <1>2, <1>5, OverFacts
  <2>2. CASE i + 1 = Len(s)
    BY <2>1, <2>2
  <2>3. CASE i + 1 # Len(s)
    <3>1. i + 1 \in 1 .. Len(s) - 1
      BY <1>1, <2>3
    <3> QED
      BY <2>1, <3>1, <1>2, OverFacts
  <2> QED
    BY <2>2, <2>3
<1> QED
  BY <1>3, <1>4, <1>5 DEF Below

LEMMA Replaced ==
  ASSUME NEW op, NEW a, NEW b, NEW f, f = Frame(op, a)
  PROVE  [f EXCEPT !.at = b] = Frame(op, b)
  BY DEF Frame

\* The topmost frame goes on to another place.
LEMMA GotoStack ==
  ASSUME NEW s, Shape(s), s # <<>>, NEW op, NEW a, NEW b,
         s[Len(s)] = Frame(op, a), Frame(op, b) \in Frames,
         NEW r, r = [s EXCEPT ![Len(s)].at = b]
  PROVE  /\ Shape(r) /\ r # <<>> /\ r[Len(r)] = Frame(op, b) /\ Len(r) = Len(s)
         /\ \A F : Within(r, F) <=> Below(s, F) \/ Frame(op, b) \in F
         /\ \A F : Below(r, F) <=> Below(s, F)
<1> PICK n : n = Len(s)
  OBVIOUS
<1>1. s \in Seq(Frames) /\ n \in Nat /\ n > 0 /\ DOMAIN s = 1 .. n
  BY DEF Shape
<1>2. r = [s EXCEPT ![n] = Frame(op, b)]
  <2>1. r = [s EXCEPT ![n] = [s[n] EXCEPT !.at = b]]
    OBVIOUS
  <2>2. [s[n] EXCEPT !.at = b] = Frame(op, b)
    BY Replaced
  <2> QED
    BY <2>1, <2>2
<1>3. /\ r \in Seq(Frames) /\ Len(r) = n /\ r[n] = Frame(op, b) /\ r # <<>>
      /\ \A i \in 1 .. n - 1 : r[i] = s[i]
  <2>1. r \in [1 .. n -> Frames]
    BY <1>1, <1>2
  <2>2. r \in Seq(Frames) /\ Len(r) = n
    BY <1>1, <2>1
  <2> QED
    BY <1>1, <1>2, <2>2
<1>4. \A F : Below(r, F) <=> Below(s, F)
  BY <1>3 DEF Below
<1>5. \A F : Within(r, F) <=> Below(s, F) \/ Frame(op, b) \in F
  BY <1>3, <1>4, WithinTop
<1>6. Shape(r)
  <2>1. r[1].op # "get"
    <3>1. s[1].op # "get"
      BY DEF Shape
    <3>2. CASE n = 1
      BY <1>3, <3>1, <3>2 DEF Frame
    <3>3. CASE n # 1
      BY <1>1, <1>3, <3>1, <3>3
    <3> QED
      BY <3>2, <3>3
  <2>2. ASSUME NEW i \in 1 .. n - 1 PROVE Over(r[i], r[i + 1])
    <3>1. Over(s[i], s[i + 1]) /\ r[i] = s[i]
      BY <1>3 DEF Shape
    <3>2. r[i + 1].op = s[i + 1].op
      <4>1. CASE i + 1 = n
        BY <1>3, <4>1 DEF Frame
      <4>2. CASE i + 1 # n
        <5>1. i + 1 \in 1 .. n - 1
          BY <1>1, <4>2
        <5> QED
          BY <1>3, <5>1
      <4> QED
        BY <4>1, <4>2
    <3> QED
      BY <3>1, <3>2 DEF Over
  <2> QED
    BY <1>3, <2>1, <2>2 DEF Shape
<1> QED
  BY <1>3, <1>4, <1>5, <1>6

\* A call is made on top.
LEMMA PushStack ==
  ASSUME NEW s, Shape(s), s # <<>>, NEW g \in Frames, Over(s[Len(s)], g), NEW r, r = Append(s, g)
  PROVE  /\ Shape(r) /\ r # <<>> /\ r[Len(r)] = g
         /\ \A F : Within(r, F) <=> Within(s, F) \/ g \in F
         /\ \A F : Below(r, F) <=> Within(s, F)
<1> PICK n : n = Len(s)
  OBVIOUS
<1>1. s \in Seq(Frames) /\ n \in Nat /\ n > 0 /\ DOMAIN s = 1 .. n
  BY DEF Shape
<1>2. /\ r \in Seq(Frames) /\ Len(r) = n + 1 /\ r[n + 1] = g /\ r # <<>>
      /\ \A i \in 1 .. n : r[i] = s[i]
  BY <1>1
<1>0. (n + 1) - 1 = n
  BY <1>1
<1>3. \A F : Below(r, F) <=> Within(s, F)
  BY <1>0, <1>1, <1>2 DEF Below, Within
<1>4. ASSUME NEW F PROVE Within(r, F) <=> Within(s, F) \/ g \in F
  <2>1. r[Len(r)] = g
    BY <1>2
  <2>2. Within(r, F) <=> Below(r, F) \/ g \in F
    BY <1>2, <2>1, WithinTop
  <2> QED
    BY <2>2, <1>3
<1>5. Shape(r)
  <2>1. r[1].op # "get"
    BY <1>1, <1>2 DEF Shape
  <2>2. ASSUME NEW i \in 1 .. n PROVE Over(r[i], r[i + 1])
    <3>1. CASE i = n
      BY <1>1, <1>2, <3>1
    <3>2. CASE i # n
      <4>0. i \in Nat /\ 1 <= i /\ i <= n
        BY <1>1
      <4>1. i \in 1 .. n - 1 /\ i + 1 \in 1 .. n
        BY <1>1, <3>2, <4>0
      <4>2. Over(s[i], s[i + 1])
        BY <4>1 DEF Shape
      <4> QED
        BY <1>2, <4>1, <4>2
    <3> QED
      BY <3>1, <3>2
  <2> QED
    BY <1>0, <1>1, <1>2, <2>1, <2>2 DEF Shape
<1> QED
  BY <1>2, <1>3, <1>4, <1>5

\* The topmost call returns.
LEMMA PopStack ==
  ASSUME NEW s, Shape(s), s # <<>>, NEW r, r = SubSeq(s, 1, Len(s) - 1)
  PROVE  /\ Shape(r)
         /\ (r = <<>> <=> Len(s) = 1)
         /\ r # <<>> => r[Len(r)] \in Frames /\ Over(r[Len(r)], s[Len(s)])
         /\ \A F : Within(r, F) <=> Below(s, F)
<1> PICK n : n = Len(s)
  OBVIOUS
<1>1. s \in Seq(Frames) /\ n \in Nat /\ n > 0 /\ DOMAIN s = 1 .. n
  BY DEF Shape
<1>2. /\ r \in Seq(Frames) /\ Len(r) = n - 1
      /\ \A i \in 1 .. n - 1 : r[i] = s[i]
  BY <1>1, SubSeqProperties
<1>3. \A F : Within(r, F) <=> Below(s, F)
  <2>1. DOMAIN r = 1 .. n - 1
    BY <1>2
  <2> QED
    BY <1>2, <2>1 DEF Within, Below
<1>4. Shape(r)
  <2>1. r # <<>> => r[1].op # "get"
    BY <1>1, <1>2 DEF Shape
  <2>2. ASSUME NEW i \in 1 .. Len(r) - 1 PROVE Over(r[i], r[i + 1])
    <3>0. i \in Nat /\ 1 <= i /\ i <= (n - 1) - 1
      BY <1>1, <1>2
    <3>1. i \in 1 .. n - 1 /\ i + 1 \in 1 .. n - 1
      BY <1>1, <3>0
    <3>2. Over(s[i], s[i + 1])
      BY <3>1 DEF Shape
    <3> QED
      BY <1>2, <3>1, <3>2
  <2> QED
    BY <1>2, <2>1, <2>2 DEF Shape
<1>5. r = <<>> <=> n = 1
  <2>1. r = <<>> <=> Len(r) = 0
    BY <1>2, EmptySeq
  <2> QED
    BY <1>1, <1>2, <2>1
<1>6. r # <<>> => r[Len(r)] \in Frames /\ Over(r[Len(r)], s[Len(s)])
  <2> SUFFICES ASSUME r # <<>> PROVE r[Len(r)] \in Frames /\ Over(r[Len(r)], s[Len(s)])
    OBVIOUS
  <2>1. n - 1 \in 1 .. n - 1 /\ Len(r) = n - 1 /\ (n - 1) + 1 = n
    BY <1>1, <1>2, <1>5
  <2>2. Over(s[n - 1], s[(n - 1) + 1])
    BY <2>1 DEF Shape
  <2>3. r[n - 1] = s[n - 1] /\ r[n - 1] \in Frames
    BY <1>2, <2>1
  <2> QED
    BY <2>1, <2>2, <2>3
<1> QED
  BY <1>3, <1>4, <1>5, <1>6

-----------------------------------------------------------------------------
(* What a step does to a stack.                                            *)

\* Which frames are in which of the sets.
LEMMA Places ==
  ASSUME NEW op, NEW at
  PROVE  /\ Frame(op, at).op = op /\ Frame(op, at).at = at
         /\ Frame(op, at) \in Body <=> op = "apply" /\ at \in {"emitter"} \cup Modules
         /\ Frame(op, at) \in Closing <=> op = "shutdown" /\ at \in {"collector", "flusher"}
         /\ Frame(op, at) \in Critical <=>
              (op = "get" /\ at = "manifest") \/ (op = "shutdown" /\ at \in {"collector", "flusher"})
         /\ Frame(op, at) \in Factories <=>
              op = "factory" /\ at \in {"decide", "delegate", "pop", "guard, popped", "guard", "direct",
                                        "original, popped", "original", "after direct", "after, popped",
                                        "after", "restore"}
         /\ Frame(op, at) \in Past <=>
              op = "factory" /\ at \in {"delegate", "pop", "guard, popped", "guard", "direct",
                                        "original, popped", "original", "after direct", "after, popped",
                                        "after", "restore"}
         /\ Frame(op, at) \in Popped <=>
              op = "factory" /\ at \in {"guard, popped", "original, popped", "after, popped", "restore"}
         /\ Frame(op, at) \in Guarded <=>
              op = "factory" /\ at \in {"original, popped", "after, popped", "original", "after"}
         /\ Frame(op, at) \in Frames <=>
              \/ op = "get" /\ at \in {"check", "wait", "manifest", "return"}
              \/ op = "probe" /\ at = "put"
              \/ op = "shutdown" /\ at \in {"wait", "collector", "flusher"}
              \/ op = "apply" /\ at \in {"wait", "emitter"} \cup Modules
              \/ Frame(op, at) \in Factories
         /\ \A op2, at2 : Frame(op, at) = Frame(op2, at2) <=> op = op2 /\ at = at2
<1>1. \A o, p : Frame(op, at) \in FrameOf(o, p) <=> op = o /\ at \in p
  BY DEF Frame, FrameOf
<1>2. \A op2, at2 : Frame(op, at) = Frame(op2, at2) <=> op = op2 /\ at = at2
  BY DEF Frame
<1>3. Frame(op, at).op = op /\ Frame(op, at).at = at
  BY DEF Frame
<1>4. /\ Frame(op, at) \in Body <=> op = "apply" /\ at \in {"emitter"} \cup Modules
      /\ Frame(op, at) \in Closing <=> op = "shutdown" /\ at \in {"collector", "flusher"}
      /\ Frame(op, at) \in Factories <=>
              op = "factory" /\ at \in {"decide", "delegate", "pop", "guard, popped", "guard", "direct",
                                        "original, popped", "original", "after direct", "after, popped",
                                        "after", "restore"}
      /\ Frame(op, at) \in Popped <=>
              op = "factory" /\ at \in {"guard, popped", "original, popped", "after, popped", "restore"}
  BY <1>1 DEF Body, Closing, Factories, Popped
<1>5. Frame(op, at) \in Critical <=>
        (op = "get" /\ at = "manifest") \/ (op = "shutdown" /\ at \in {"collector", "flusher"})
  BY <1>2, <1>4 DEF Critical
<1>6. Frame(op, at) \in Past <=>
        op = "factory" /\ at \in {"delegate", "pop", "guard, popped", "guard", "direct",
                                  "original, popped", "original", "after direct", "after, popped",
                                  "after", "restore"}
  <2>1. Frame(op, at) \in Past <=> Frame(op, at) \in Factories /\ ~(op = "factory" /\ at = "decide")
    BY <1>2 DEF Past
  <2> QED
    BY <2>1, <1>4
<1>7. Frame(op, at) \in Guarded <=>
        op = "factory" /\ at \in {"original, popped", "after, popped", "original", "after"}
  BY <1>1 DEF Guarded
<1>8. Frame(op, at) \in Frames <=>
              \/ op = "get" /\ at \in {"check", "wait", "manifest", "return"}
              \/ op = "probe" /\ at = "put"
              \/ op = "shutdown" /\ at \in {"wait", "collector", "flusher"}
              \/ op = "apply" /\ at \in {"wait", "emitter"} \cup Modules
              \/ Frame(op, at) \in Factories
  BY <1>1, <1>2 DEF Frames
<1> QED
  BY <1>2, <1>3, <1>4, <1>5, <1>6, <1>7, <1>8

LEMMA SameFrame ==
  ASSUME NEW op, NEW at, NEW op2, NEW at2
  PROVE  Frame(op, at) = Frame(op2, at2) <=> op = op2 /\ at = at2
  BY DEF Frame

Top(t) == stack[t][Len(stack[t])]

LEMMA AtTop ==
  ASSUME Shapes, NEW t \in Threads, NEW op, NEW at
  PROVE  At(t, op, at) <=> Busy(t) /\ Top(t) = Frame(op, at)
<1>1. stack[t] \in Seq(Frames) /\ Len(stack[t]) \in Nat
  BY DEF Shapes
<1>2. Busy(t) <=> Len(stack[t]) > 0
  BY <1>1, EmptySeq DEF Busy
<1>3. Busy(t) => Top(t) \in Frames
  BY <1>1, <1>2 DEF Top
<1>4. Busy(t) => Top(t) = Frame(Top(t).op, Top(t).at)
  BY <1>3, FrameFields
<1>5. At(t, op, at) <=> Busy(t) /\ Top(t).op = op /\ Top(t).at = at
  BY <1>1, <1>2 DEF At, Top
<1>6. Frame(Top(t).op, Top(t).at) = Frame(op, at) <=> Top(t).op = op /\ Top(t).at = at
  BY SameFrame
<1> QED
  BY <1>4, <1>5, <1>6

\* On the stack of t, the frames old at the top give way to new; if it is not
\* empty then, its topmost is in tops.  Nobody else's stack changes.
Turn(t, old, new, tops) ==
  /\ Shapes'
  /\ \A u \in Threads : u # t => stack'[u] = stack[u]
  /\ stack'[t] # <<>> => stack'[t][Len(stack'[t])] \in tops
  /\ \A F : /\ Within(stack[t], F) <=> Below(stack[t], F) \/ \E f \in old : f \in F
            /\ Within(stack'[t], F) <=> Below(stack[t], F) \/ \E f \in new : f \in F
  /\ ~Below(stack[t], Critical) /\ ~Below(stack[t], Closing)
  /\ Below(stack[t], Body) => \A f \in old : f.op = "get"

Given(t, value, fails) ==
  /\ ret' = [ret EXCEPT ![t] = value] /\ raised' = [raised EXCEPT ![t] = fails]

LEMMA OneStack ==
  ASSUME Shapes, NEW t \in Threads, NEW s, Shape(s), stack' = [stack EXCEPT ![t] = s]
  PROVE  Shapes' /\ stack'[t] = s /\ \A u \in Threads : u # t => stack'[u] = stack[u]
<1>1. s \in Seq(Frames)
  BY DEF Shape
<1>2. stack' \in [Threads -> Seq(Frames)] /\ stack'[t] = s /\ \A u \in Threads : u # t => stack'[u] = stack[u]
  BY <1>1 DEF Shapes
<1>3. ASSUME NEW u \in Threads PROVE Shape(stack'[u])
  BY <1>2 DEF Shapes
<1> QED
  BY <1>2, <1>3 DEF Shapes

\* What is known of a stack s with frame f on top.
Topped(s, f) ==
  /\ Shape(s) /\ s # <<>> /\ s[Len(s)] = f
  /\ \A F : Within(s, F) <=> Below(s, F) \/ \E g \in {f} : g \in F
  /\ ~Below(s, Critical) /\ ~Below(s, Closing)
  /\ Below(s, Body) => \A g \in {f} : g.op = "get"

LEMMA TopFacts ==
  ASSUME Shapes, NEW t \in Threads, NEW op, NEW a, At(t, op, a)
  PROVE  Topped(stack[t], Frame(op, a))
<1>1. Shape(stack[t]) /\ stack[t] # <<>> /\ stack[t][Len(stack[t])] = Frame(op, a)
  BY AtTop DEF Shapes, Busy, Top
<1>2. stack[t] \in Seq(Frames)
  BY DEF Shapes
<1>3. \A F : Within(stack[t], F) <=> Below(stack[t], F) \/ Frame(op, a) \in F
  BY <1>1, <1>2, WithinTop
<1>4. /\ ~Below(stack[t], Critical) /\ ~Below(stack[t], Closing)
      /\ Below(stack[t], Body) => stack[t][Len(stack[t])].op = "get"
  BY <1>1, BelowFacts
<1> QED
  BY <1>1, <1>3, <1>4 DEF Topped

\* The stack of t with its topmost frame gone on.
LEMMA MovedStack ==
  ASSUME Shapes, NEW t \in Threads, NEW op, NEW a, NEW b, At(t, op, a), Frame(op, b) \in Frames,
         NEW r, r = Moved(t, b)
  PROVE  /\ Shape(r) /\ r # <<>> /\ r[Len(r)] = Frame(op, b) /\ Len(r) = Len(stack[t])
         /\ \A F : Within(r, F) <=> Below(stack[t], F) \/ Frame(op, b) \in F
<1> PICK s : s = stack[t]
  OBVIOUS
<1>1. Shape(s) /\ s # <<>> /\ s[Len(s)] = Frame(op, a)
  BY TopFacts DEF Topped
<1>2. r = [s EXCEPT ![Len(s)].at = b]
  BY DEF Moved
<1>3. /\ Shape(r) /\ r # <<>> /\ r[Len(r)] = Frame(op, b) /\ Len(r) = Len(s)
      /\ \A F : Within(r, F) <=> Below(s, F) \/ Frame(op, b) \in F
  BY <1>1, <1>2, GotoStack
<1> QED
  BY <1>3

LEMMA GotoTurn ==
  ASSUME Shapes, NEW t \in Threads, NEW op, NEW a, NEW b, At(t, op, a), Frame(op, b) \in Frames,
         Goto(t, b)
  PROVE  Turn(t, {Frame(op, a)}, {Frame(op, b)}, {Frame(op, b)}) /\ Busy(t)' /\ Given(t, 0, FALSE)
<1> PICK s : s = Moved(t, b)
  OBVIOUS
<1>0. Topped(stack[t], Frame(op, a))
  BY TopFacts
<1>1. stack' = [stack EXCEPT ![t] = s]
  BY DEF Goto
<1>2. /\ Shape(s) /\ s # <<>> /\ s[Len(s)] = Frame(op, b)
      /\ \A F : Within(s, F) <=> Below(stack[t], F) \/ Frame(op, b) \in F
  BY MovedStack
<1>3. Shapes' /\ stack'[t] = s /\ \A u \in Threads : u # t => stack'[u] = stack[u]
  BY <1>1, <1>2, OneStack
<1>4. Given(t, 0, FALSE)
  BY DEF Goto, Outcome, Given
<1>5. \A F : Within(stack'[t], F) <=> Below(stack[t], F) \/ \E f \in {Frame(op, b)} : f \in F
  BY <1>2, <1>3
<1>6. Turn(t, {Frame(op, a)}, {Frame(op, b)}, {Frame(op, b)})
  BY <1>0, <1>2, <1>3, <1>5 DEF Turn, Topped
<1> QED
  BY <1>2, <1>3, <1>4, <1>6 DEF Busy

LEMMA EnterTurn ==
  ASSUME Shapes, NEW t \in Threads, NEW op, NEW a, NEW back, At(t, op, a), Frame(op, back) \in Body,
         Enter(t, "get", "check", back)
  PROVE  /\ Turn(t, {Frame(op, a)}, {Frame(op, back), Frame("get", "check")}, {Frame("get", "check")})
         /\ Busy(t)' /\ Given(t, 0, FALSE)
<1> PICK r : r = Moved(t, back)
  OBVIOUS
<1> PICK s : s = Append(r, Frame("get", "check"))
  OBVIOUS
<1>0. Topped(stack[t], Frame(op, a))
  BY TopFacts
<1>1. stack' = [stack EXCEPT ![t] = s]
  BY DEF Enter
<1>2. Frame(op, back) \in Frames /\ Frame("get", "check") \in Frames /\ Over(Frame(op, back), Frame("get", "check"))
  <2>1. Frame("get", "check") \in Frames /\ Frame("get", "check").op = "get"
    BY DEF Frames, FrameOf, Frame
  <2>2. Frame(op, back) \in Frames
    BY DEF Body, Frames, FrameOf
  <2> QED
    BY <2>1, <2>2 DEF Over
<1>3. /\ Shape(r) /\ r # <<>> /\ r[Len(r)] = Frame(op, back)
      /\ \A F : Within(r, F) <=> Below(stack[t], F) \/ Frame(op, back) \in F
  BY <1>2, MovedStack
<1>4. /\ Shape(s) /\ s # <<>> /\ s[Len(s)] = Frame("get", "check")
      /\ \A F : Within(s, F) <=> Within(r, F) \/ Frame("get", "check") \in F
  <2> PICK g : g = Frame("get", "check")
    OBVIOUS
  <2>1. Shape(r) /\ r # <<>> /\ g \in Frames /\ Over(r[Len(r)], g) /\ s = Append(r, g)
    BY <1>2, <1>3
  <2>2. /\ Shape(s) /\ s # <<>> /\ s[Len(s)] = g
        /\ \A F : Within(s, F) <=> Within(r, F) \/ g \in F
    BY <2>1, PushStack
  <2> QED
    BY <2>2
<1>5. Shapes' /\ stack'[t] = s /\ \A u \in Threads : u # t => stack'[u] = stack[u]
  BY <1>1, <1>4, OneStack
<1>6. Given(t, 0, FALSE)
  BY DEF Enter, Outcome, Given
<1>7. \A F : Within(stack'[t], F) <=>
             Below(stack[t], F) \/ \E f \in {Frame(op, back), Frame("get", "check")} : f \in F
  BY <1>3, <1>4, <1>5
<1>8. Turn(t, {Frame(op, a)}, {Frame(op, back), Frame("get", "check")}, {Frame("get", "check")})
  BY <1>0, <1>4, <1>5, <1>7 DEF Turn, Topped
<1> QED
  BY <1>4, <1>5, <1>6, <1>8 DEF Busy

\* The value of an outermost call goes nowhere.
LEMMA LeaveTurn ==
  ASSUME Shapes, NEW t \in Threads, NEW op, NEW a, At(t, op, a), NEW value, NEW fails,
         Leave(t, value, fails)
  PROVE  /\ Turn(t, {Frame(op, a)}, {}, {f \in Frames : Over(f, Frame(op, a))})
         /\ Busy(t)' => Given(t, value, fails)
         /\ ~Busy(t)' => Given(t, 0, FALSE)
         /\ Busy(t)' <=> Len(stack[t]) # 1
<1> PICK s : s = SubSeq(stack[t], 1, Len(stack[t]) - 1)
  OBVIOUS
<1>0. Topped(stack[t], Frame(op, a))
  BY TopFacts
<1>1. stack' = [stack EXCEPT ![t] = s]
  BY DEF Leave, Shapes
<1>2. /\ Shape(s) /\ (s = <<>> <=> Len(stack[t]) = 1)
      /\ s # <<>> => s[Len(s)] \in Frames /\ Over(s[Len(s)], Frame(op, a))
      /\ \A F : Within(s, F) <=> Below(stack[t], F)
  <2> PICK q : q = stack[t]
    OBVIOUS
  <2>1. Shape(q) /\ q # <<>> /\ q[Len(q)] = Frame(op, a) /\ s = SubSeq(q, 1, Len(q) - 1)
    BY <1>0 DEF Topped
  <2> QED
    BY <2>1, PopStack
<1>3. Shapes' /\ stack'[t] = s /\ \A u \in Threads : u # t => stack'[u] = stack[u]
  BY <1>1, <1>2, OneStack
<1>4. /\ Busy(t)' => Given(t, value, fails)
      /\ ~Busy(t)' => Given(t, 0, FALSE)
      /\ Busy(t)' <=> Len(stack[t]) # 1
  BY <1>2, <1>3 DEF Leave, Outcome, Given, Busy
<1>5. \A F : Within(stack'[t], F) <=> Below(stack[t], F) \/ \E f \in {} : f \in F
  BY <1>2, <1>3
<1>6. Turn(t, {Frame(op, a)}, {}, {f \in Frames : Over(f, Frame(op, a))})
  BY <1>0, <1>2, <1>3, <1>5 DEF Turn, Topped
<1> QED
  BY <1>4, <1>6

LEMMA OneFrame ==
  ASSUME NEW f \in Frames, f.op # "get"
  PROVE  Shape(<<f>>) /\ <<f>> # <<>> /\ <<f>>[Len(<<f>>)] = f /\ \A F : Within(<<f>>, F) <=> f \in F
  BY DEF Shape, Within

LEMMA EmptyStack ==
  ASSUME NEW t, ~Busy(t)
  PROVE  \A F : ~Within(stack[t], F) /\ ~Below(stack[t], F)
<1>1. stack[t] = <<>>
  BY DEF Busy
<1> QED
  BY <1>1 DEF Within, Below

LEMMA BeginTurn ==
  ASSUME Shapes, NEW t \in Threads, NEW f \in Frames, f.op # "get", Begin(t, <<f>>)
  PROVE  Turn(t, {}, {f}, {f}) /\ Busy(t)'
<1>1. stack' = [stack EXCEPT ![t] = <<f>>]
  BY DEF Begin
<1>2. Shapes' /\ stack'[t] = <<f>> /\ \A u \in Threads : u # t => stack'[u] = stack[u]
  BY <1>1, OneFrame, OneStack
<1>3. \A F : ~Within(stack[t], F) /\ ~Below(stack[t], F)
  BY EmptyStack DEF Begin
<1> QED
  BY <1>2, <1>3, OneFrame DEF Turn, Busy

LEMMA BeginTwoTurn ==
  ASSUME Shapes, NEW t \in Threads, NEW f \in Frames, NEW g \in Frames, f.op # "get", Over(f, g),
         Begin(t, <<f, g>>)
  PROVE  Turn(t, {}, {f, g}, {g}) /\ Busy(t)'
<1>1. <<f, g>> = Append(<<f>>, g)
  OBVIOUS
<1> PICK s : s = <<f, g>>
  OBVIOUS
<1>2. stack' = [stack EXCEPT ![t] = s]
  BY DEF Begin
<1>3. Shape(s) /\ s # <<>> /\ s[Len(s)] = g /\ \A F : Within(s, F) <=> f \in F \/ g \in F
  BY <1>1, OneFrame, PushStack
<1>4. Shapes' /\ stack'[t] = s /\ \A u \in Threads : u # t => stack'[u] = stack[u]
  BY <1>2, <1>3, OneStack
<1>5. \A F : ~Within(stack[t], F) /\ ~Below(stack[t], F)
  BY EmptyStack DEF Begin
<1> QED
  BY <1>3, <1>4, <1>5 DEF Turn, Busy

-----------------------------------------------------------------------------
(* The turns of the actions.                                               *)

GoTurn(t, op, a, b) ==
  Turn(t, {Frame(op, a)}, {Frame(op, b)}, {Frame(op, b)}) /\ Busy(t)' /\ Given(t, 0, FALSE)

GetTurn(t, op, a, back) ==
  /\ Turn(t, {Frame(op, a)}, {Frame(op, back), Frame("get", "check")}, {Frame("get", "check")})
  /\ Busy(t)' /\ Given(t, 0, FALSE)

PopTurn(t, op, a, value, fails) ==
  /\ Turn(t, {Frame(op, a)}, {}, {f \in Frames : Over(f, Frame(op, a))})
  /\ Busy(t)' => Given(t, value, fails)
  /\ ~Busy(t)' => Given(t, 0, FALSE)
  /\ Busy(t)' <=> Len(stack[t]) # 1

LEMMA GoTurns ==
  ASSUME Shapes, NEW t \in Threads, NEW op, NEW a, NEW b, At(t, op, a), Frame(op, b) \in Frames, Goto(t, b)
  PROVE  GoTurn(t, op, a, b)
  BY GotoTurn DEF GoTurn

LEMMA PopTurns ==
  ASSUME Shapes, NEW t \in Threads, NEW op, NEW a, At(t, op, a), NEW value, NEW fails, Leave(t, value, fails)
  PROVE  PopTurn(t, op, a, value, fails)
  BY LeaveTurn DEF PopTurn

LEMMA PlainFrames ==
  /\ Frame("get", "check") \in Frames /\ Frame("get", "wait") \in Frames /\ Frame("get", "manifest") \in Frames
  /\ Frame("get", "return") \in Frames /\ Frame("probe", "put") \in Frames
  /\ Frame("shutdown", "wait") \in Frames /\ Frame("shutdown", "collector") \in Frames
  /\ Frame("shutdown", "flusher") \in Frames /\ Frame("apply", "wait") \in Frames
  /\ Frame("apply", "emitter") \in Frames /\ Frame("factory", "decide") \in Frames
  BY DEF Frames, FrameOf, Factories, Frame

LEMMA GetActions ==
  ASSUME Shapes, NEW t \in Threads
  PROVE  /\ GetCheck(t) => \E b \in {"return", "wait"} :
              GoTurn(t, "get", "check", b) /\ (b = "return" => current # 0)
         /\ GetFound(t) => GoTurn(t, "get", "wait", "return")
         /\ GetCreate(t) => GoTurn(t, "get", "wait", "manifest")
         /\ GetFails(t) => PopTurn(t, "get", "wait", 0, TRUE)
         /\ GetManifest(t) => \/ GoTurn(t, "get", "manifest", "return")
                              \/ PopTurn(t, "get", "manifest", 0, TRUE)
         /\ GetReturn(t) => \E v : v = current /\ PopTurn(t, "get", "return", v, FALSE)
<1>1. GetCheck(t) => \E b \in {"return", "wait"} :
        GoTurn(t, "get", "check", b) /\ (b = "return" => current # 0)
  <2> SUFFICES ASSUME GetCheck(t)
      PROVE \E b \in {"return", "wait"} : GoTurn(t, "get", "check", b) /\ (b = "return" => current # 0)
    OBVIOUS
  <2> PICK b : b = IF current # 0 THEN "return" ELSE "wait"
    OBVIOUS
  <2>1. At(t, "get", "check") /\ Goto(t, b) /\ b \in {"return", "wait"} /\ (b = "return" => current # 0)
    BY DEF GetCheck
  <2> QED
    BY <2>1, GoTurns, PlainFrames
<1>2. GetFound(t) => GoTurn(t, "get", "wait", "return")
  BY GoTurns, PlainFrames DEF GetFound
<1>3. GetCreate(t) => GoTurn(t, "get", "wait", "manifest")
  BY GoTurns, PlainFrames DEF GetCreate
<1>4. GetFails(t) => PopTurn(t, "get", "wait", 0, TRUE)
  BY PopTurns DEF GetFails
<1>5. GetManifest(t) => \/ GoTurn(t, "get", "manifest", "return")
                        \/ PopTurn(t, "get", "manifest", 0, TRUE)
  BY GoTurns, PopTurns, PlainFrames DEF GetManifest
<1>6. GetReturn(t) => \E v : v = current /\ PopTurn(t, "get", "return", v, FALSE)
  <2> SUFFICES ASSUME GetReturn(t) PROVE \E v : v = current /\ PopTurn(t, "get", "return", v, FALSE)
    OBVIOUS
  <2> PICK v : v = current
    OBVIOUS
  <2>1. At(t, "get", "return") /\ Leave(t, v, FALSE)
    BY DEF GetReturn
  <2> QED
    BY <2>1, PopTurns
<1> QED
  BY <1>1, <1>2, <1>3, <1>4, <1>5, <1>6

LEMMA ProbeActions ==
  ASSUME Shapes, NEW t \in Threads
  PROVE  /\ ProbePut(t) => \E x : PopTurn(t, "probe", "put", 0, x) /\ (x <=> raised[t] \/ ret[t] = 0) /\ x \in BOOLEAN
         /\ ShutdownLock(t) => GoTurn(t, "shutdown", "wait", "collector")
         /\ ShutdownNothing(t) => PopTurn(t, "shutdown", "wait", 0, FALSE)
         /\ JoinCollector(t) => GoTurn(t, "shutdown", "collector", "flusher")
         /\ JoinFlusher(t) => PopTurn(t, "shutdown", "flusher", 0, FALSE)
<1>1. ProbePut(t) => \E x : PopTurn(t, "probe", "put", 0, x) /\ (x <=> raised[t] \/ ret[t] = 0) /\ x \in BOOLEAN
  <2> SUFFICES ASSUME ProbePut(t)
      PROVE \E x : PopTurn(t, "probe", "put", 0, x) /\ (x <=> raised[t] \/ ret[t] = 0) /\ x \in BOOLEAN
    OBVIOUS
  <2> PICK x : x = (raised[t] \/ ret[t] = 0)
    OBVIOUS
  <2>1. At(t, "probe", "put") /\ Leave(t, 0, x)
    BY DEF ProbePut
  <2>2. PopTurn(t, "probe", "put", 0, x)
    BY <2>1, PopTurns
  <2> QED
    BY <2>2
<1>2. ShutdownLock(t) => GoTurn(t, "shutdown", "wait", "collector")
  BY GoTurns, PlainFrames DEF ShutdownLock
<1>3. ShutdownNothing(t) => PopTurn(t, "shutdown", "wait", 0, FALSE)
  BY PopTurns DEF ShutdownNothing
<1>4. JoinCollector(t) => GoTurn(t, "shutdown", "collector", "flusher")
  BY GoTurns, PlainFrames DEF JoinCollector
<1>5. JoinFlusher(t) => PopTurn(t, "shutdown", "flusher", 0, FALSE)
  BY PopTurns DEF JoinFlusher
<1> QED
  BY <1>1, <1>2, <1>3, <1>4, <1>5

\* apply().
Onward(t, a, m) ==
  \/ GoTurn(t, "apply", a, m) /\ ~(NeedsEmitter(m) /\ m \notin done)
  \/ GetTurn(t, "apply", a, m)

LEMMA Listed ==
  ASSUME build \in Build, NEW i \in 1 .. Len(build.list)
  PROVE  /\ build.list[i] \in Modules /\ Len(build.list) = 5
         /\ build.list[1] \in Modules
         /\ i < 5 => build.list[i + 1] \in Modules
         /\ i = 5 <=> build.list[i] = "weight"
         /\ IsVllm => (i = 4 <=> build.list[i] = "connector")
<1>1. build.list \in {VllmModules, SglangModules}
  BY DEF Build
<1>2. CASE build.list = VllmModules
  BY <1>2 DEF VllmModules, Modules, IsVllm
<1>3. CASE build.list = SglangModules
  <2>1. ~IsVllm
    BY <1>3 DEF IsVllm, VllmModules, SglangModules
  <2> QED
    BY <1>3, <2>1 DEF SglangModules, Modules
<1> QED
  BY <1>1, <1>2, <1>3

LEMMA ProceedTurn ==
  ASSUME Shapes, NEW t \in Threads, NEW a, At(t, "apply", a), NEW m \in Modules, Proceed(t, m)
  PROVE  Onward(t, a, m)
<1>1. Frame("apply", m) \in Frames /\ Frame("apply", m) \in Body
  BY DEF Frames, FrameOf, Frame, Body
<1>2. CASE NeedsEmitter(m) /\ m \notin done
  <2>1. Enter(t, "get", "check", m)
    BY <1>2 DEF Proceed
  <2> QED
    BY <1>1, <2>1, EnterTurn DEF Onward, GetTurn
<1>3. CASE ~(NeedsEmitter(m) /\ m \notin done)
  <2>1. Goto(t, m)
    BY <1>3 DEF Proceed
  <2> QED
    BY <1>1, <1>3, <2>1, GoTurns DEF Onward
<1> QED
  BY <1>2, <1>3

LEMMA ApplyActions ==
  ASSUME Shapes, Scalars, NEW t \in Threads
  PROVE  /\ ApplyCached(t) => PopTurn(t, "apply", "wait", 0, FALSE)
         /\ ApplyStart(t) => GetTurn(t, "apply", "wait", "emitter")
         /\ ApplyEmitter(t) =>
              \/ PopTurn(t, "apply", "emitter", 0, TRUE) /\ ApplyFails(t)
              \/ \E m \in Modules : m = build.list[1] /\ Onward(t, "emitter", m) /\ UNCHANGED <<onlyFrames, patchVars>>
<1>1. ApplyCached(t) => PopTurn(t, "apply", "wait", 0, FALSE)
  BY PopTurns DEF ApplyCached
<1>2. ApplyStart(t) => GetTurn(t, "apply", "wait", "emitter")
  <2>1. Frame("apply", "emitter") \in Body
    BY DEF FrameOf, Frame, Body
  <2> QED
    BY <2>1, EnterTurn DEF ApplyStart, GetTurn
<1>3. ASSUME ApplyEmitter(t), raised[t] /\ ApplyFails(t)
      PROVE  PopTurn(t, "apply", "emitter", 0, TRUE)
  BY <1>3, PopTurns DEF ApplyEmitter, ApplyFails
<1>4. ASSUME ApplyEmitter(t), Proceed(t, build.list[1])
      PROVE  \E m \in Modules : m = build.list[1] /\ Onward(t, "emitter", m)
  <2> PICK m : m = build.list[1]
    OBVIOUS
  <2>1. build \in Build
    BY DEF Scalars
  <2>2. build.list \in {VllmModules, SglangModules}
    BY <2>1 DEF Build
  <2>3. m \in Modules
    BY <2>2 DEF VllmModules, SglangModules, Modules
  <2>4. At(t, "apply", "emitter") /\ Proceed(t, m)
    BY <1>4 DEF ApplyEmitter
  <2> QED
    BY <2>3, <2>4, ProceedTurn
<1> QED
  BY <1>1, <1>2, <1>3, <1>4 DEF ApplyEmitter

\* apply_patches() of module m, the i-th.
ModuleStep(t, i, m) ==
  /\ m = build.list[i] /\ m \in Modules
  /\ \/ PopTurn(t, "apply", m, 0, TRUE) /\ ApplyFails(t) /\ LacksEmitter(t, m)
     \/ /\ ~LacksEmitter(t, m)
        /\ done' = IF m \in done \/ FlagAfter(m) THEN done \cup {m} ELSE done
        /\ layers' = IF m \in build.present \ done THEN [layers EXCEPT ![m] = Layered(m)] ELSE layers
        /\ \/ /\ i < 5 /\ \E n \in Modules : n = build.list[i + 1] /\ Onward(t, m, n)
              /\ UNCHANGED <<applyLock, result>>
           \/ /\ i = 5 /\ result' = IF done' # {} THEN "applied" ELSE "nothing"
              /\ applyLock' = Nobody /\ PopTurn(t, "apply", m, 0, FALSE)
        /\ UNCHANGED <<onlyFrames, build, inFactory, env, resets, untraced>>

LEMMA ApplyModuleTurn ==
  ASSUME Shapes, Scalars, NEW t \in Threads, ApplyModule(t)
  PROVE  \E i \in 1 .. 5 : \E m : ModuleStep(t, i, m)
<1>1. build \in Build
  BY DEF Scalars
<1>2. PICK i \in 1 .. Len(build.list) :
        LET m == build.list[i] IN
    /\ At(t, "apply", m)
    /\ \/ LacksEmitter(t, m) /\ ApplyFails(t)
       \/ /\ ~LacksEmitter(t, m)
          /\ done' = IF m \in done \/ FlagAfter(m) THEN done \cup {m} ELSE done
          /\ layers' = IF m \in build.present \ done THEN [layers EXCEPT ![m] = Layered(m)] ELSE layers
          /\ IF i < Len(build.list)
               THEN Proceed(t, build.list[i + 1]) /\ UNCHANGED <<applyLock, result>>
               ELSE /\ result' = IF done' # {} THEN "applied" ELSE "nothing"
                    /\ applyLock' = Nobody
                    /\ Leave(t, 0, FALSE)
          /\ UNCHANGED <<onlyFrames, build, inFactory, env, resets, untraced>>
  BY DEF ApplyModule
<1> PICK m : m = build.list[i]
  OBVIOUS
<1>3. m \in Modules /\ Len(build.list) = 5 /\ i \in 1 .. 5 /\ (i < 5 => build.list[i + 1] \in Modules)
  BY <1>1, Listed
<1>4. At(t, "apply", m)
  BY <1>2
<1>5. CASE LacksEmitter(t, m) /\ ApplyFails(t)
  <2>1. PopTurn(t, "apply", m, 0, TRUE)
    BY <1>4, <1>5, PopTurns DEF ApplyFails
  <2> QED
    BY <1>3, <1>5, <2>1 DEF ModuleStep
<1>6. CASE /\ ~LacksEmitter(t, m)
           /\ done' = IF m \in done \/ FlagAfter(m) THEN done \cup {m} ELSE done
           /\ layers' = IF m \in build.present \ done THEN [layers EXCEPT ![m] = Layered(m)] ELSE layers
           /\ IF i < Len(build.list)
                THEN Proceed(t, build.list[i + 1]) /\ UNCHANGED <<applyLock, result>>
                ELSE /\ result' = IF done' # {} THEN "applied" ELSE "nothing"
                     /\ applyLock' = Nobody
                     /\ Leave(t, 0, FALSE)
           /\ UNCHANGED <<onlyFrames, build, inFactory, env, resets, untraced>>
  <2>1. CASE i < 5
    <3> PICK n : n = build.list[i + 1]
      OBVIOUS
    <3>1. n \in Modules /\ Proceed(t, n) /\ UNCHANGED <<applyLock, result>>
      BY <1>3, <1>6, <2>1
    <3>2. Onward(t, m, n)
      BY <1>4, <3>1, ProceedTurn
    <3> QED
      BY <1>3, <1>6, <2>1, <3>1, <3>2 DEF ModuleStep
  <2>2. CASE ~(i < 5)
    <3>0. i = 5 /\ ~(i < Len(build.list))
      BY <1>3, <2>2
    <3>1. i = 5 /\ Leave(t, 0, FALSE) /\ applyLock' = Nobody /\ result' = IF done' # {} THEN "applied" ELSE "nothing"
      BY <1>6, <3>0
    <3>2. PopTurn(t, "apply", m, 0, FALSE)
      BY <1>4, <3>1, PopTurns
    <3> QED
      BY <1>3, <1>6, <3>1, <3>2 DEF ModuleStep
  <2> QED
    BY <2>1, <2>2
<1> QED
  BY <1>2, <1>5, <1>6

\* tracing_factory().
LEMMA FactoryFrames ==
  /\ Factories \subseteq Frames
  /\ Frame("factory", "decide") \in Factories /\ Frame("factory", "delegate") \in Factories
  /\ Frame("factory", "direct") \in Factories /\ Frame("factory", "original") \in Factories
  /\ Frame("factory", "original, popped") \in Factories /\ Frame("factory", "after direct") \in Factories
  /\ Frame("factory", "after, popped") \in Factories /\ Frame("factory", "after") \in Factories
  /\ Frame("factory", "pop") \in Factories /\ Frame("factory", "guard") \in Factories
  /\ Frame("factory", "guard, popped") \in Factories /\ Frame("factory", "restore") \in Factories
  /\ Over(Frame("factory", "decide"), Frame("apply", "wait"))
  /\ Over(Frame("factory", "after direct"), Frame("factory", "decide"))
  /\ Over(Frame("factory", "after, popped"), Frame("factory", "decide"))
  /\ Over(Frame("factory", "after"), Frame("factory", "decide"))
  BY DEF Factories, Frames, FrameOf, Frame, Over

LEMMA Afters ==
  /\ AfterOriginal("direct") = "after direct"
  /\ AfterOriginal("original, popped") = "after, popped"
  /\ AfterOriginal("original") = "after"
  BY DEF AfterOriginal

\* create_connector_v1() calls what the variable names, or does not.
NestTurn(t, a, b) ==
  /\ Turn(t, {Frame("factory", a)}, {Frame("factory", b), Frame("factory", "decide"), Frame("apply", "wait")},
          {Frame("apply", "wait")})
  /\ Busy(t)' /\ Given(t, 0, FALSE)

LEMMA MovedFactory ==
  ASSUME Shapes, NEW t \in Threads, NEW a, NEW b, At(t, "factory", a), Frame("factory", b) \in Frames,
         NEW r, r = Moved(t, b)
  PROVE  /\ Shape(r) /\ r # <<>> /\ r[Len(r)] = Frame("factory", b)
         /\ \A F : Within(r, F) <=> Below(stack[t], F) \/ Frame("factory", b) \in F
<1> PICK op : op = "factory"
  OBVIOUS
<1>1. At(t, op, a) /\ Frame(op, b) \in Frames
  OBVIOUS
<1>2. /\ Shape(r) /\ r # <<>> /\ r[Len(r)] = Frame(op, b)
      /\ \A F : Within(r, F) <=> Below(stack[t], F) \/ Frame(op, b) \in F
  BY <1>1, MovedStack
<1> QED
  BY <1>2

LEMMA TwoOn ==
  ASSUME NEW r \in Seq(Frames), NEW f \in Frames, NEW g \in Frames
  PROVE  r \o <<f, g>> = Append(Append(r, f), g)
<1> PICK p : p = Append(r, f)
  OBVIOUS
<1> PICK s : s = r \o <<f, g>>
  OBVIOUS
<1>1. <<f, g>> \in Seq(Frames) /\ Len(<<f, g>>) = 2 /\ <<f, g>>[1] = f /\ <<f, g>>[2] = g
  OBVIOUS
<1> PICK n \in Nat : n = Len(r)
  OBVIOUS
<1>2. /\ s \in Seq(Frames) /\ Len(s) = n + 2 /\ s[n + 1] = f /\ s[n + 2] = g
      /\ \A i \in 1 .. n : s[i] = r[i]
  BY <1>1, ConcatProperties
<1>3. p \in Seq(Frames) /\ Len(p) = n + 1 /\ p[n + 1] = f /\ \A i \in 1 .. n : p[i] = r[i]
  BY AppendProperties
<1> PICK q : q = Append(p, g)
  OBVIOUS
<1>4. /\ q \in Seq(Frames) /\ Len(q) = n + 2 /\ q[n + 2] = g /\ q[n + 1] = f
      /\ \A i \in 1 .. n : q[i] = r[i]
  BY <1>3, AppendProperties
<1>5. \A i \in 1 .. n + 2 : i \in 1 .. n \/ i = n + 1 \/ i = n + 2
  OBVIOUS
<1>6. \A i \in 1 .. Len(s) : s[i] = q[i]
  BY <1>2, <1>4, <1>5
<1>7. s = q
  BY <1>2, <1>4, <1>6, SeqEqual
<1> QED
  BY <1>7

LEMMA PushTwo ==
  ASSUME NEW r, Shape(r), r # <<>>, NEW f \in Frames, NEW g \in Frames,
         Over(r[Len(r)], f), Over(f, g), NEW p, p = Append(r, f), NEW s, s = Append(p, g)
  PROVE  /\ Shape(s) /\ s # <<>> /\ s[Len(s)] = g
         /\ \A F : Within(s, F) <=> Within(r, F) \/ f \in F \/ g \in F
<1>2. Shape(p) /\ p # <<>> /\ p[Len(p)] = f /\ \A F : Within(p, F) <=> Within(r, F) \/ f \in F
  BY PushStack
<1>3. Over(p[Len(p)], g)
  BY <1>2
<1>4. Shape(s) /\ s # <<>> /\ s[Len(s)] = g /\ \A F : Within(s, F) <=> Within(p, F) \/ g \in F
  BY <1>2, <1>3, PushStack
<1> QED
  BY <1>2, <1>4

LEMMA TwoTurn ==
  ASSUME Shapes, NEW t \in Threads, NEW h, Topped(stack[t], h), NEW k, NEW r, Shape(r), r # <<>>, r[Len(r)] = k,
         \A F : Within(r, F) <=> Below(stack[t], F) \/ k \in F,
         NEW f \in Frames, NEW g \in Frames, Over(k, f), Over(f, g),
         NEW p, p = Append(r, f), NEW s, s = Append(p, g), stack' = [stack EXCEPT ![t] = s]
  PROVE  Turn(t, {h}, {k, f, g}, {g}) /\ Busy(t)'
<1>1. /\ Shape(r) /\ r # <<>> /\ f \in Frames /\ g \in Frames /\ Over(r[Len(r)], f) /\ Over(f, g)
      /\ p = Append(r, f) /\ s = Append(p, g)
  OBVIOUS
<1>2. /\ Shape(s) /\ s # <<>> /\ s[Len(s)] = g
      /\ \A F : Within(s, F) <=> Within(r, F) \/ f \in F \/ g \in F
  BY <1>1, PushTwo
<1>3. Shapes' /\ stack'[t] = s /\ \A u \in Threads : u # t => stack'[u] = stack[u]
  BY <1>2, OneStack
<1>4. \A F : Within(stack'[t], F) <=> Below(stack[t], F) \/ \E e \in {k, f, g} : e \in F
  BY <1>2, <1>3
<1>5. Turn(t, {h}, {k, f, g}, {g})
  BY <1>2, <1>3, <1>4 DEF Turn, Topped
<1> QED
  BY <1>2, <1>3, <1>5 DEF Busy

LEMMA NestedTurn ==
  ASSUME Shapes, NEW t \in Threads, NEW a, NEW b \in {"after direct", "after, popped", "after"},
         At(t, "factory", a), NEW r, r = Moved(t, b),
         NEW p, p = Append(r, Frame("factory", "decide")), NEW s, s = Append(p, Frame("apply", "wait")),
         stack' = [stack EXCEPT ![t] = s], Outcome(t, 0, FALSE)
  PROVE  NestTurn(t, a, b)
<1>0. Topped(stack[t], Frame("factory", a))
  BY TopFacts
<1>1. /\ Frame("factory", b) \in Frames
      /\ Frame("factory", "decide") \in Frames /\ Frame("apply", "wait") \in Frames
      /\ Over(Frame("factory", b), Frame("factory", "decide"))
      /\ Over(Frame("factory", "decide"), Frame("apply", "wait"))
  BY FactoryFrames, PlainFrames
<1>2. /\ Shape(r) /\ r # <<>> /\ r[Len(r)] = Frame("factory", b)
      /\ \A F : Within(r, F) <=> Below(stack[t], F) \/ Frame("factory", b) \in F
  BY <1>1, MovedFactory
<1>3. /\ Turn(t, {Frame("factory", a)}, {Frame("factory", b), Frame("factory", "decide"), Frame("apply", "wait")},
               {Frame("apply", "wait")})
      /\ Busy(t)'
  BY <1>0, <1>1, <1>2, TwoTurn
<1> QED
  BY <1>3 DEF NestTurn, Outcome, Given

\* Within one frame of the factory.
MoveTurn(t, a, b) ==
  /\ Turn(t, {Frame("factory", a)}, {Frame("factory", b)}, {Frame("factory", b)}) /\ Busy(t)'
  /\ \E v \in Nat, x \in BOOLEAN : Given(t, v, x)

LEMMA MoveTurns ==
  ASSUME Shapes, NEW t \in Threads, NEW a, NEW b, At(t, "factory", a), Frame("factory", b) \in Frames,
         stack' = [stack EXCEPT ![t] = Moved(t, b)], NEW v \in Nat, NEW x \in BOOLEAN, Given(t, v, x)
  PROVE  MoveTurn(t, a, b)
<1> PICK s : s = Moved(t, b)
  OBVIOUS
<1>1. Topped(stack[t], Frame("factory", a))
  BY TopFacts
<1>2. /\ Shape(s) /\ s # <<>> /\ s[Len(s)] = Frame("factory", b)
      /\ \A F : Within(s, F) <=> Below(stack[t], F) \/ Frame("factory", b) \in F
  BY MovedFactory
<1>3. Shapes' /\ stack'[t] = s /\ \A u \in Threads : u # t => stack'[u] = stack[u]
  BY <1>2, OneStack
<1>4. \A F : Within(stack'[t], F) <=> Below(stack[t], F) \/ \E f \in {Frame("factory", b)} : f \in F
  BY <1>2, <1>3
<1>5. Turn(t, {Frame("factory", a)}, {Frame("factory", b)}, {Frame("factory", b)})
  BY <1>1, <1>2, <1>3, <1>4 DEF Turn, Topped
<1>6. Busy(t)'
  BY <1>2, <1>3 DEF Busy
<1> QED
  BY <1>5, <1>6 DEF MoveTurn

OriginalStep(t, a, b) ==
  /\ <<a, b>> \in {<<"direct", "after direct">>, <<"original, popped", "after, popped">>, <<"original", "after">>}
  /\ (env /\ NestTurn(t, a, b)) \/ MoveTurn(t, a, b)

LEMMA FactoryOriginalTurn ==
  ASSUME Shapes, NEW t \in Threads, FactoryOriginal(t)
  PROVE  \E a, b : OriginalStep(t, a, b)
<1>1. PICK a \in {"direct", "original, popped", "original"} :
        /\ At(t, "factory", a)
        /\ \/ /\ env
              /\ stack' = [stack EXCEPT ![t] = Moved(t, AfterOriginal(a)) \o Factory]
              /\ Outcome(t, 0, FALSE)
           \/ /\ stack' = [stack EXCEPT ![t] = Moved(t, AfterOriginal(a))]
              /\ \E v \in {NoConnector, Bare}, x \in BOOLEAN : Outcome(t, v, x)
  BY DEF FactoryOriginal
<1> PICK b : b = AfterOriginal(a)
  OBVIOUS
<1>2. /\ <<a, b>> \in {<<"direct", "after direct">>, <<"original, popped", "after, popped">>, <<"original", "after">>}
      /\ b \in {"after direct", "after, popped", "after"} /\ Frame("factory", b) \in Frames
  BY Afters, FactoryFrames
<1>3. CASE /\ env
           /\ stack' = [stack EXCEPT ![t] = Moved(t, b) \o Factory] /\ Outcome(t, 0, FALSE)
  <2> PICK r : r = Moved(t, b)
    OBVIOUS
  <2> PICK p : p = Append(r, Frame("factory", "decide"))
    OBVIOUS
  <2> PICK s : s = Append(p, Frame("apply", "wait"))
    OBVIOUS
  <2>1. stack' = [stack EXCEPT ![t] = s]
    <3>1. Shape(r)
      BY <1>1, <1>2, MovedFactory
    <3>2. r \in Seq(Frames) /\ Frame("factory", "decide") \in Frames /\ Frame("apply", "wait") \in Frames
      BY <3>1, PlainFrames DEF Shape
    <3>3. r \o <<Frame("factory", "decide"), Frame("apply", "wait")>> = s
      BY <3>2, TwoOn
    <3> QED
      BY <1>3, <3>3 DEF Factory
  <2>2. NestTurn(t, a, b)
    <3>1. At(t, "factory", a) /\ Outcome(t, 0, FALSE) /\ b \in {"after direct", "after, popped", "after"}
      BY <1>1, <1>2, <1>3
    <3> QED
      BY <2>1, <3>1, NestedTurn
  <2>3. OriginalStep(t, a, b)
    <3>1. env
      BY <1>3
    <3> QED
      BY <1>2, <2>2, <3>1 DEF OriginalStep
  <2> QED
    BY <2>3
<1>4. CASE /\ stack' = [stack EXCEPT ![t] = Moved(t, b)]
           /\ \E v \in {NoConnector, Bare}, x \in BOOLEAN : Outcome(t, v, x)
  <2>1. \E v \in Nat, x \in BOOLEAN : Given(t, v, x)
    BY <1>4 DEF Outcome, Given, NoConnector, Bare
  <2>2. MoveTurn(t, a, b)
    BY <1>1, <1>2, <1>4, <2>1, MoveTurns
  <2>3. OriginalStep(t, a, b)
    BY <1>2, <2>2 DEF OriginalStep
  <2> QED
    BY <2>3
<1> QED
  BY <1>1, <1>3, <1>4

LEMMA Numbers ==
  0 # 1 /\ 2 # 1 /\ 0 \in Nat /\ 2 \in Nat
  OBVIOUS

LEMMA FactoryActions ==
  ASSUME Shapes, Scalars, NEW t \in Threads
  PROVE  /\ FactoryLeaves(t) => \E x \in BOOLEAN : x = raised[t] /\ PopTurn(t, "factory", "decide", 0, x)
         /\ FactoryDecide(t) => \E b \in {"direct", "delegate"} : GoTurn(t, "factory", "decide", b)
         /\ FactoryLook(t) => \E b \in {"pop", "guard"} : GoTurn(t, "factory", "delegate", b)
         /\ FactoryPop(t) => \/ GoTurn(t, "factory", "pop", "guard, popped")
                             \/ ~env /\ PopTurn(t, "factory", "pop", NoConnector, FALSE)
         /\ FactoryGuard(t) => \/ GoTurn(t, "factory", "guard", "original")
                               \/ GoTurn(t, "factory", "guard, popped", "original, popped")
         /\ FactoryDirect(t) => \E v \in Nat, x \in BOOLEAN :
              /\ x = raised[t] /\ (v = Bare => ~x /\ ret[t] = Bare /\ ~(layers["connector"] > 0))
              /\ PopTurn(t, "factory", "after direct", v, x)
              /\ untraced' = (untraced \/ (Len(stack[t]) = 1 /\ v = Bare))
         /\ FactoryUnguard(t) =>
              /\ inFactory' = FALSE /\ untraced' = untraced
              /\ \/ MoveTurn(t, "after, popped", "restore")
                 \/ \E v \in {NoConnector, Traced} : PopTurn(t, "factory", "after", v, FALSE)
         /\ FactoryRestore(t) =>
              /\ untraced' = untraced
              /\ \E v \in {NoConnector, Traced} : PopTurn(t, "factory", "restore", v, FALSE)
<1> USE DEF NoConnector, Bare, Traced
<1>1. FactoryLeaves(t) => \E x \in BOOLEAN : x = raised[t] /\ PopTurn(t, "factory", "decide", 0, x)
  <2> SUFFICES ASSUME FactoryLeaves(t) PROVE \E x \in BOOLEAN : x = raised[t] /\ PopTurn(t, "factory", "decide", 0, x)
    OBVIOUS
  <2> PICK x : x = raised[t]
    OBVIOUS
  <2>1. x \in BOOLEAN /\ At(t, "factory", "decide") /\ Leave(t, 0, x)
    BY DEF FactoryLeaves, Scalars
  <2> QED
    BY <2>1, PopTurns
<1>2. FactoryDecide(t) => \E b \in {"direct", "delegate"} : GoTurn(t, "factory", "decide", b)
  <2> SUFFICES ASSUME FactoryDecide(t) PROVE \E b \in {"direct", "delegate"} : GoTurn(t, "factory", "decide", b)
    OBVIOUS
  <2> PICK b : b = IF inFactory THEN "direct" ELSE "delegate"
    OBVIOUS
  <2>1. At(t, "factory", "decide") /\ Goto(t, b) /\ b \in {"direct", "delegate"}
    BY DEF FactoryDecide
  <2> QED
    BY <2>1, GoTurns, FactoryFrames
<1>3. FactoryLook(t) => \E b \in {"pop", "guard"} : GoTurn(t, "factory", "delegate", b)
  <2> SUFFICES ASSUME FactoryLook(t) PROVE \E b \in {"pop", "guard"} : GoTurn(t, "factory", "delegate", b)
    OBVIOUS
  <2> PICK b : b = IF env THEN "pop" ELSE "guard"
    OBVIOUS
  <2>1. At(t, "factory", "delegate") /\ Goto(t, b) /\ b \in {"pop", "guard"}
    BY DEF FactoryLook
  <2> QED
    BY <2>1, GoTurns, FactoryFrames
<1>6. FactoryPop(t) => \/ GoTurn(t, "factory", "pop", "guard, popped")
                       \/ ~env /\ PopTurn(t, "factory", "pop", NoConnector, FALSE)
  <2> SUFFICES ASSUME FactoryPop(t) PROVE \/ GoTurn(t, "factory", "pop", "guard, popped")
                                          \/ ~env /\ PopTurn(t, "factory", "pop", NoConnector, FALSE)
    OBVIOUS
  <2>1. At(t, "factory", "pop") /\ (IF env THEN Goto(t, "guard, popped") ELSE Leave(t, NoConnector, FALSE))
    BY DEF FactoryPop
  <2>2. CASE env
    <3>1. Goto(t, "guard, popped")
      BY <2>1, <2>2
    <3> QED
      BY <2>1, <3>1, GoTurns, FactoryFrames
  <2>3. CASE ~env
    <3>1. Leave(t, NoConnector, FALSE)
      BY <2>1, <2>3
    <3>2. PopTurn(t, "factory", "pop", NoConnector, FALSE)
      BY <2>1, <3>1, PopTurns
    <3> QED
      BY <2>3, <3>2
  <2> QED
    BY <2>2, <2>3
<1>7. FactoryGuard(t) => \/ GoTurn(t, "factory", "guard", "original")
                         \/ GoTurn(t, "factory", "guard, popped", "original, popped")
  BY GoTurns, FactoryFrames DEF FactoryGuard
<1>4. FactoryDirect(t) => \E v \in Nat, x \in BOOLEAN :
              /\ x = raised[t] /\ (v = Bare => ~x /\ ret[t] = Bare /\ ~(layers["connector"] > 0))
              /\ PopTurn(t, "factory", "after direct", v, x)
              /\ untraced' = (untraced \/ (Len(stack[t]) = 1 /\ v = Bare))
  <2> SUFFICES ASSUME FactoryDirect(t) PROVE \E v \in Nat, x \in BOOLEAN :
              /\ x = raised[t] /\ (v = Bare => ~x /\ ret[t] = Bare /\ ~(layers["connector"] > 0))
              /\ PopTurn(t, "factory", "after direct", v, x)
              /\ untraced' = (untraced \/ (Len(stack[t]) = 1 /\ v = Bare))
    OBVIOUS
  <2> PICK x : x = raised[t]
    OBVIOUS
  <2> PICK v : v = IF raised[t] THEN NoConnector ELSE FromOriginal(t)
    OBVIOUS
  <2>1. x \in BOOLEAN /\ ret[t] \in Nat
    BY DEF Scalars
  <2>2. v \in Nat /\ (v = Bare => ~x /\ ret[t] = Bare /\ ~(layers["connector"] > 0))
    BY <2>1 DEF FromOriginal
  <2>3. /\ At(t, "factory", "after direct") /\ Leave(t, v, x)
        /\ untraced' = (untraced \/ (Len(stack[t]) = 1 /\ v = Bare))
    BY DEF FactoryDirect, HandOver
  <2>4. PopTurn(t, "factory", "after direct", v, x)
    BY <2>3, PopTurns
  <2> QED
    BY <2>1, <2>2, <2>3, <2>4
<1>a. ASSUME NEW a, At(t, "factory", a), HandOver(t, Wrapped(t), FALSE)
      PROVE  untraced' = untraced /\ \E v \in {NoConnector, Traced} : PopTurn(t, "factory", a, v, FALSE)
  <2> PICK v : v = Wrapped(t)
    OBVIOUS
  <2>1. v \in {NoConnector, Traced} /\ v # Bare
    BY Numbers, Zenon DEF Wrapped
  <2>2. Leave(t, v, FALSE) /\ untraced' = (untraced \/ (Len(stack[t]) = 1 /\ v = Bare))
    BY <1>a DEF HandOver
  <2>3. untraced' = untraced
    BY <2>1, <2>2 DEF Scalars
  <2>4. PopTurn(t, "factory", a, v, FALSE)
    BY <1>a, <2>2, PopTurns
  <2> QED
    BY <2>1, <2>3, <2>4
<1>5. FactoryUnguard(t) =>
              /\ inFactory' = FALSE /\ untraced' = untraced
              /\ \/ MoveTurn(t, "after, popped", "restore")
                 \/ \E v \in {NoConnector, Traced} : PopTurn(t, "factory", "after", v, FALSE)
  <2> SUFFICES ASSUME FactoryUnguard(t)
      PROVE   /\ inFactory' = FALSE /\ untraced' = untraced
              /\ \/ MoveTurn(t, "after, popped", "restore")
                 \/ \E v \in {NoConnector, Traced} : PopTurn(t, "factory", "after", v, FALSE)
    OBVIOUS
  <2>1. inFactory' = FALSE
    BY DEF FactoryUnguard, Finally, Scalars
  <2>2. CASE At(t, "factory", "after, popped")
    <3>1. stack' = [stack EXCEPT ![t] = Moved(t, "restore")] /\ UNCHANGED <<ret, raised, untraced>>
      BY <2>2 DEF FactoryUnguard, Finally
    <3>2. ret[t] \in Nat /\ raised[t] \in BOOLEAN /\ Given(t, ret[t], raised[t])
      BY <3>1 DEF Scalars, Given
    <3>3. MoveTurn(t, "after, popped", "restore")
      BY <2>2, <3>1, <3>2, MoveTurns, FactoryFrames
    <3> QED
      BY <2>1, <3>1, <3>3
  <2>3. CASE ~At(t, "factory", "after, popped")
    <3>1. At(t, "factory", "after") /\ HandOver(t, Wrapped(t), FALSE)
      BY <2>3 DEF FactoryUnguard
    <3> QED
      BY <2>1, <3>1, <1>a
  <2> QED
    BY <2>2, <2>3
<1>8. FactoryRestore(t) =>
              /\ untraced' = untraced
              /\ \E v \in {NoConnector, Traced} : PopTurn(t, "factory", "restore", v, FALSE)
  BY <1>a DEF FactoryRestore
<1> QED
  BY <1>1, <1>2, <1>3, <1>4, <1>5, <1>6, <1>7, <1>8

\* The steps of the factory but the call of create_connector_v1().
FactoryPlain(t) ==
  \/ FactoryLeaves(t) \/ FactoryDecide(t) \/ FactoryLook(t) \/ FactoryPop(t) \/ FactoryGuard(t)
  \/ FactoryDirect(t) \/ FactoryUnguard(t) \/ FactoryRestore(t)

FactoryStep(t) == FactoryPlain(t) \/ FactoryOriginal(t)

LEMMA GoMoves ==
  ASSUME NEW t \in Threads, NEW a, NEW b, GoTurn(t, "factory", a, b)
  PROVE  MoveTurn(t, a, b)
  BY DEF GoTurn, MoveTurn

LEMMA FactoryTurns ==
  ASSUME Shapes, Scalars, NEW t \in Threads, FactoryPlain(t)
  PROVE  \/ \E a : \E v \in Nat, x \in BOOLEAN : PopTurn(t, "factory", a, v, x)
         \/ \E a, b : MoveTurn(t, a, b)
<1>1. ASSUME NEW a, NEW v \in {NoConnector, Traced}, PopTurn(t, "factory", a, v, FALSE)
      PROVE  \E c : \E w \in Nat, x \in BOOLEAN : PopTurn(t, "factory", c, w, x)
  <2>1. v \in Nat
    BY DEF NoConnector, Traced
  <2> QED
    BY <1>1, <2>1
<1>2. NoConnector = 0 /\ 0 \in Nat
  BY DEF NoConnector
<1>3. CASE FactoryLeaves(t) \/ FactoryDirect(t)
  BY <1>2, <1>3, FactoryActions
<1>4. CASE FactoryDecide(t) \/ FactoryLook(t) \/ FactoryGuard(t)
  <2>1. \E a, b : GoTurn(t, "factory", a, b)
    BY <1>4, FactoryActions
  <2> QED
    BY <2>1, GoMoves
<1>5. CASE FactoryPop(t)
  <2>1. \/ GoTurn(t, "factory", "pop", "guard, popped")
        \/ PopTurn(t, "factory", "pop", NoConnector, FALSE)
    BY <1>5, FactoryActions
  <2> QED
    BY <1>1, <2>1, GoMoves
<1>6. CASE FactoryUnguard(t)
  BY <1>1, <1>6, FactoryActions
<1>7. CASE FactoryRestore(t)
  BY <1>1, <1>7, FactoryActions
<1> QED
  BY <1>3, <1>4, <1>5, <1>6, <1>7 DEF FactoryPlain

\* The calls of the engine.
BeginTurns(t) ==
  /\ \/ Turn(t, {}, {Frame("probe", "put"), Frame("get", "check")}, {Frame("get", "check")})
     \/ Turn(t, {}, {Frame("shutdown", "wait")}, {Frame("shutdown", "wait")})
     \/ Turn(t, {}, {Frame("apply", "wait")}, {Frame("apply", "wait")})
     \/ IsVllm /\ Turn(t, {}, {Frame("factory", "decide"), Frame("apply", "wait")}, {Frame("apply", "wait")})
  /\ ~Busy(t) /\ Busy(t)' /\ calls < MaxCalls /\ calls' = calls + 1
  /\ overlapped' = IF ShuttingDown THEN overlapped \cup {t} ELSE overlapped \ {t}
  /\ UNCHANGED <<ret, raised, current, lock, emitterVars, gaveUp>>

LEMMA BeginActions ==
  ASSUME Shapes, NEW t \in Threads, SingletonBegin(t) \/ PatchBegin(t)
  PROVE  BeginTurns(t)
<1>1. CASE Begin(t, <<Frame("probe", "put"), Frame("get", "check")>>)
  <2>1. Over(Frame("probe", "put"), Frame("get", "check")) /\ Frame("probe", "put").op # "get"
    BY DEF Over, Frame
  <2>2. Turn(t, {}, {Frame("probe", "put"), Frame("get", "check")}, {Frame("get", "check")}) /\ Busy(t)'
    BY <1>1, <2>1, PlainFrames, BeginTwoTurn
  <2> QED
    BY <1>1, <2>2 DEF Begin, BeginTurns
<1>2. CASE Begin(t, <<Frame("shutdown", "wait")>>)
  <2>1. Frame("shutdown", "wait").op # "get"
    BY DEF Frame
  <2>2. Turn(t, {}, {Frame("shutdown", "wait")}, {Frame("shutdown", "wait")}) /\ Busy(t)'
    BY <1>2, <2>1, PlainFrames, BeginTurn
  <2> QED
    BY <1>2, <2>2 DEF Begin, BeginTurns
<1>3. CASE Begin(t, <<Frame("apply", "wait")>>)
  <2>1. Frame("apply", "wait").op # "get"
    BY DEF Frame
  <2>2. Turn(t, {}, {Frame("apply", "wait")}, {Frame("apply", "wait")}) /\ Busy(t)'
    BY <1>3, <2>1, PlainFrames, BeginTurn
  <2> QED
    BY <1>3, <2>2 DEF Begin, BeginTurns
<1>4. CASE IsVllm /\ Begin(t, Factory)
  <2>1. Over(Frame("factory", "decide"), Frame("apply", "wait")) /\ Frame("factory", "decide").op # "get"
    BY DEF Over, Frame
  <2>2. Turn(t, {}, {Frame("factory", "decide"), Frame("apply", "wait")}, {Frame("apply", "wait")}) /\ Busy(t)'
    BY <1>4, <2>1, PlainFrames, BeginTwoTurn DEF Factory
  <2> QED
    BY <1>4, <2>2 DEF Begin, BeginTurns
<1> QED
  BY <1>1, <1>2, <1>3, <1>4 DEF SingletonBegin, PatchBegin

-----------------------------------------------------------------------------
(* Where the threads are with respect to the emitter's lock.               *)

LEMMA TurnKeeps ==
  ASSUME NEW t \in Threads, NEW old, NEW new, NEW tops, Turn(t, old, new, tops), NEW F,
         (\E f \in old : f \in F) <=> (\E f \in new : f \in F)
  PROVE  \A u \in Threads : Within(stack'[u], F) <=> Within(stack[u], F)
  BY DEF Turn

\* The stages of a thread: outside, at the manifest of an emitter it has
\* created, or waiting for one of the threads of one it stops.
StageOf(op, at) ==
  IF op = "get" /\ at = "manifest" THEN "manifest"
  ELSE IF op = "shutdown" /\ at \in {"collector", "flusher"} THEN at ELSE "out"

Stage(s, x) ==
  /\ Within(s, Critical) <=> x # "out"
  /\ Within(s, Closing) <=> x \in {"collector", "flusher"}
  /\ Within(s, {Frame("shutdown", "flusher")}) <=> x = "flusher"

Stages(t, x, y) ==
  /\ Stage(stack[t], x) /\ Stage(stack'[t], y)
  /\ \A u \in Threads : u # t => stack'[u] = stack[u]

LEMMA FrameStage ==
  ASSUME NEW op, NEW at
  PROVE  /\ Frame(op, at) \in Critical <=> StageOf(op, at) # "out"
         /\ Frame(op, at) \in Closing <=> StageOf(op, at) \in {"collector", "flusher"}
         /\ Frame(op, at) \in {Frame("shutdown", "flusher")} <=> StageOf(op, at) = "flusher"
<1>1. Frame(op, at) = Frame("shutdown", "flusher") <=> op = "shutdown" /\ at = "flusher"
  BY DEF Frame
<1>2. /\ Frame(op, at) \in Closing <=> op = "shutdown" /\ at \in {"collector", "flusher"}
      /\ Frame(op, at) \in Critical <=>
            (op = "get" /\ at = "manifest") \/ (op = "shutdown" /\ at \in {"collector", "flusher"})
  BY Places
<1> QED
  BY <1>1, <1>2 DEF StageOf

LEMMA LastStage ==
  ASSUME NEW s, ~Below(s, Closing)
  PROVE  ~Below(s, {Frame("shutdown", "flusher")})
<1>1. Frame("shutdown", "flusher") \in Closing
  BY Places
<1> QED
  BY <1>1 DEF Below

\* A turn of one frame on top.
LEMMA OldStage ==
  ASSUME NEW t \in Threads, NEW op, NEW a, NEW new, NEW tops, Turn(t, {Frame(op, a)}, new, tops)
  PROVE  Stage(stack[t], StageOf(op, a))
<1>1. /\ \A F : Within(stack[t], F) <=> Below(stack[t], F) \/ Frame(op, a) \in F
      /\ ~Below(stack[t], Critical) /\ ~Below(stack[t], Closing)
  BY DEF Turn
<1>2. ~Below(stack[t], {Frame("shutdown", "flusher")})
  BY <1>1, LastStage
<1> QED
  BY <1>1, <1>2, FrameStage DEF Stage

LEMMA NewStage ==
  ASSUME NEW t \in Threads, NEW old, NEW op, NEW b, NEW tops, Turn(t, old, {Frame(op, b)}, tops)
  PROVE  Stage(stack'[t], StageOf(op, b))
<1>1. /\ \A F : Within(stack'[t], F) <=> Below(stack[t], F) \/ Frame(op, b) \in F
      /\ ~Below(stack[t], Critical) /\ ~Below(stack[t], Closing)
  BY DEF Turn
<1>2. ~Below(stack[t], {Frame("shutdown", "flusher")})
  BY <1>1, LastStage
<1> QED
  BY <1>1, <1>2, FrameStage DEF Stage

\* A turn to frames outside.
LEMMA OutStage ==
  ASSUME NEW t \in Threads, NEW old, NEW new, NEW tops, Turn(t, old, new, tops),
         \A f \in new : f \notin Critical
  PROVE  Stage(stack'[t], "out")
<1>1. /\ \A F : Within(stack'[t], F) <=> Below(stack[t], F) \/ \E f \in new : f \in F
      /\ ~Below(stack[t], Critical) /\ ~Below(stack[t], Closing)
  BY DEF Turn
<1>2. ~Below(stack[t], {Frame("shutdown", "flusher")})
  BY <1>1, LastStage
<1>3. Closing \subseteq Critical /\ Frame("shutdown", "flusher") \in Critical
  <2>1. Frame("shutdown", "flusher") \in Closing
    BY Places
  <2> QED
    BY <2>1 DEF Critical
<1>4. ~Within(stack'[t], Critical)
  BY <1>1
<1>5. ~Within(stack'[t], Closing)
  BY <1>1, <1>3
<1>6. ~Within(stack'[t], {Frame("shutdown", "flusher")})
  BY <1>1, <1>2, <1>3
<1> QED
  BY <1>4, <1>5, <1>6 DEF Stage

LEMMA NoStage ==
  ASSUME NEW t \in Threads, NEW new, NEW tops, Turn(t, {}, new, tops)
  PROVE  Stage(stack[t], "out")
<1>1. /\ \A F : Within(stack[t], F) <=> Below(stack[t], F)
      /\ ~Below(stack[t], Critical) /\ ~Below(stack[t], Closing)
  BY DEF Turn
<1>2. ~Below(stack[t], {Frame("shutdown", "flusher")})
  BY <1>1, LastStage
<1> QED
  BY <1>1, <1>2 DEF Stage

LEMMA GoStages ==
  ASSUME NEW t \in Threads, NEW op, NEW a, NEW b, GoTurn(t, op, a, b)
  PROVE  Stages(t, StageOf(op, a), StageOf(op, b))
<1>1. Turn(t, {Frame(op, a)}, {Frame(op, b)}, {Frame(op, b)})
  BY DEF GoTurn
<1>2. Stage(stack[t], StageOf(op, a)) /\ Stage(stack'[t], StageOf(op, b))
  BY <1>1, OldStage, NewStage
<1> QED
  BY <1>1, <1>2 DEF Turn, Stages

LEMMA PopStages ==
  ASSUME NEW t \in Threads, NEW op, NEW a, NEW v, NEW x, PopTurn(t, op, a, v, x)
  PROVE  Stages(t, StageOf(op, a), "out")
<1>1. Turn(t, {Frame(op, a)}, {}, {f \in Frames : Over(f, Frame(op, a))})
  BY DEF PopTurn
<1>2. Stage(stack[t], StageOf(op, a)) /\ Stage(stack'[t], "out")
  BY <1>1, OldStage, OutStage
<1> QED
  BY <1>1, <1>2 DEF Turn, Stages

LEMMA StageNames ==
  /\ StageOf("get", "check") = "out" /\ StageOf("get", "wait") = "out" /\ StageOf("get", "return") = "out"
  /\ StageOf("get", "manifest") = "manifest" /\ StageOf("probe", "put") = "out"
  /\ StageOf("shutdown", "wait") = "out" /\ StageOf("shutdown", "collector") = "collector"
  /\ StageOf("shutdown", "flusher") = "flusher"
  /\ \A at : StageOf("apply", at) = "out" /\ StageOf("factory", at) = "out"
  BY DEF StageOf

LEMMA GetStages ==
  ASSUME Shapes, NEW t \in Threads
  PROVE  /\ GetCheck(t) => Stages(t, "out", "out")
         /\ GetFound(t) => Stages(t, "out", "out")
         /\ GetCreate(t) => Stages(t, "out", "manifest")
         /\ GetFails(t) => Stages(t, "out", "out")
         /\ GetManifest(t) => Stages(t, "manifest", "out")
         /\ GetReturn(t) => Stages(t, "out", "out")
<1>1. ASSUME NEW a, NEW b, GoTurn(t, "get", a, b) PROVE Stages(t, StageOf("get", a), StageOf("get", b))
  BY <1>1, GoStages
<1>2. ASSUME NEW a, NEW v, NEW x, PopTurn(t, "get", a, v, x) PROVE Stages(t, StageOf("get", a), "out")
  BY <1>2, PopStages
<1>3. GetCheck(t) => Stages(t, "out", "out")
  BY <1>1, GetActions, StageNames
<1>4. GetFound(t) => Stages(t, "out", "out")
  BY <1>1, GetActions, StageNames
<1>5. GetCreate(t) => Stages(t, "out", "manifest")
  BY <1>1, GetActions, StageNames
<1>6. GetFails(t) => Stages(t, "out", "out")
  BY <1>2, GetActions, StageNames
<1>7. GetManifest(t) => Stages(t, "manifest", "out")
  BY <1>1, <1>2, GetActions, StageNames
<1>8. GetReturn(t) => Stages(t, "out", "out")
  BY <1>2, GetActions, StageNames
<1> QED
  BY <1>3, <1>4, <1>5, <1>6, <1>7, <1>8

LEMMA ProbeStages ==
  ASSUME Shapes, NEW t \in Threads
  PROVE  /\ ProbePut(t) => Stages(t, "out", "out")
         /\ ShutdownLock(t) => Stages(t, "out", "collector")
         /\ ShutdownNothing(t) => Stages(t, "out", "out")
         /\ JoinCollector(t) => Stages(t, "collector", "flusher")
         /\ JoinFlusher(t) => Stages(t, "flusher", "out")
<1>1. ProbePut(t) => Stages(t, "out", "out")
  BY ProbeActions, PopStages, StageNames
<1>2. ShutdownLock(t) => Stages(t, "out", "collector")
  BY ProbeActions, GoStages, StageNames
<1>3. ShutdownNothing(t) => Stages(t, "out", "out")
  BY ProbeActions, PopStages, StageNames
<1>4. JoinCollector(t) => Stages(t, "collector", "flusher")
  BY ProbeActions, GoStages, StageNames
<1>5. JoinFlusher(t) => Stages(t, "flusher", "out")
  BY ProbeActions, PopStages, StageNames
<1> QED
  BY <1>1, <1>2, <1>3, <1>4, <1>5

LEMMA OnwardStages ==
  ASSUME NEW t \in Threads, NEW a, NEW m, Onward(t, a, m) \/ GetTurn(t, "apply", a, m)
  PROVE  Stages(t, "out", "out")
<1>1. CASE GoTurn(t, "apply", a, m)
  BY <1>1, GoStages, StageNames
<1>2. CASE GetTurn(t, "apply", a, m)
  <2>1. Turn(t, {Frame("apply", a)}, {Frame("apply", m), Frame("get", "check")}, {Frame("get", "check")})
    BY <1>2 DEF GetTurn
  <2>2. Frame("apply", m) \notin Critical /\ Frame("get", "check") \notin Critical
    BY FrameStage, StageNames
  <2>3. Stage(stack'[t], "out")
    BY <2>1, <2>2, OutStage
  <2>4. Stage(stack[t], "out")
    BY <2>1, OldStage, StageNames
  <2> QED
    BY <2>1, <2>3, <2>4 DEF Turn, Stages
<1> QED
  BY <1>1, <1>2 DEF Onward

LEMMA PatchStages ==
  ASSUME Shapes, Scalars, NEW t \in Threads, PatchStep(t)
  PROVE  Stages(t, "out", "out")
<1>1. ASSUME NEW op \in {"apply", "factory"}, NEW a, NEW v, NEW x, PopTurn(t, op, a, v, x)
      PROVE  Stages(t, "out", "out")
  BY <1>1, PopStages, StageNames
<1>2. ASSUME NEW op \in {"apply", "factory"}, NEW a, NEW b, GoTurn(t, op, a, b) PROVE Stages(t, "out", "out")
  BY <1>2, GoStages, StageNames
<1>3. CASE ApplyCached(t)
  BY <1>1, <1>3, ApplyActions
<1>4. CASE ApplyStart(t)
  BY <1>4, ApplyActions, OnwardStages
<1>5. CASE ApplyEmitter(t)
  BY <1>1, <1>5, ApplyActions, OnwardStages
<1>6. CASE ApplyModule(t)
  <2>1. PICK i, m : i \in 1 .. 5 /\ ModuleStep(t, i, m)
    BY <1>6, ApplyModuleTurn
  <2>2. \/ \E v, x : PopTurn(t, "apply", m, v, x)
        \/ \E n : Onward(t, m, n)
    BY <2>1 DEF ModuleStep
  <2> QED
    BY <1>1, <2>2, OnwardStages
<1>7. ASSUME NEW a, NEW b, MoveTurn(t, a, b) PROVE Stages(t, "out", "out")
  <2>1. Turn(t, {Frame("factory", a)}, {Frame("factory", b)}, {Frame("factory", b)})
    BY <1>7 DEF MoveTurn
  <2>2. Stage(stack[t], "out") /\ Stage(stack'[t], "out")
    BY <2>1, OldStage, NewStage, StageNames
  <2> QED
    BY <2>1, <2>2 DEF Turn, Stages
<1>8. CASE FactoryPlain(t)
  BY <1>1, <1>7, <1>8, FactoryTurns
<1>9. CASE FactoryOriginal(t)
  <2>1. PICK a, b : OriginalStep(t, a, b)
    BY <1>9, FactoryOriginalTurn
  <2>2. CASE MoveTurn(t, a, b)
    BY <1>7, <2>2
  <2>3. CASE NestTurn(t, a, b)
    <3>1. Turn(t, {Frame("factory", a)}, {Frame("factory", b), Frame("factory", "decide"), Frame("apply", "wait")},
               {Frame("apply", "wait")})
      BY <2>3 DEF NestTurn
    <3>2. \A at : Frame("factory", at) \notin Critical /\ Frame("apply", at) \notin Critical
      BY FrameStage, StageNames
    <3>3. Stage(stack'[t], "out")
      BY <3>1, <3>2, OutStage
    <3>4. Stage(stack[t], "out")
      BY <3>1, OldStage, StageNames
    <3> QED
      BY <3>1, <3>3, <3>4 DEF Turn, Stages
  <2> QED
    BY <2>1, <2>2, <2>3 DEF OriginalStep
<1> QED
  BY <1>3, <1>4, <1>5, <1>6, <1>8, <1>9 DEF PatchStep, FactoryPlain

LEMMA BeginStages ==
  ASSUME NEW t \in Threads, BeginTurns(t)
  PROVE  Stages(t, "out", "out")
<1>1. PICK new, tops : /\ Turn(t, {}, new, tops)
                       /\ new \subseteq {Frame("probe", "put"), Frame("get", "check"), Frame("shutdown", "wait"),
                                         Frame("apply", "wait"), Frame("factory", "decide")}
  BY DEF BeginTurns
<1>2. /\ Frame("probe", "put") \notin Critical /\ Frame("get", "check") \notin Critical
      /\ Frame("shutdown", "wait") \notin Critical /\ Frame("apply", "wait") \notin Critical
      /\ Frame("factory", "decide") \notin Critical
  BY FrameStage, StageNames
<1>3. Stage(stack[t], "out") /\ Stage(stack'[t], "out")
  BY <1>1, <1>2, NoStage, OutStage
<1> QED
  BY <1>1, <1>3 DEF Turn, Stages

-----------------------------------------------------------------------------
(* The emitter.                                                            *)

LockHeld == \A t \in Threads : lock = t <=> Within(stack[t], Critical)

EmitterInv == Scalars /\ LockHeld /\ Stopping /\ InTurn

LEMMA FlusherPlace ==
  /\ Closing \subseteq Critical /\ {Frame("shutdown", "flusher")} \subseteq Closing
  /\ Frame("get", "manifest") \in Critical
<1>1. Frame("shutdown", "flusher") \in Closing
  BY Places
<1> QED
  BY <1>1 DEF Critical

\* Who holds the lock is the only one in one of its blocks.
LEMMA OneInside ==
  ASSUME LockHeld, NEW t \in Threads, lock = t
  PROVE  /\ Within(stack[t], Critical)
         /\ \A u \in Threads : u # t => /\ ~Within(stack[u], Critical) /\ ~Within(stack[u], Closing)
                                        /\ ~Within(stack[u], {Frame("shutdown", "flusher")})
<1>1. ASSUME NEW u \in Threads, u # t PROVE ~Within(stack[u], Critical)
  BY <1>1 DEF LockHeld
<1> QED
  BY <1>1, FlusherPlace DEF LockHeld, Within

LEMMA NobodyInside ==
  ASSUME LockHeld, lock = Nobody
  PROVE  \A u \in Threads : /\ ~Within(stack[u], Critical) /\ ~Within(stack[u], Closing)
                            /\ ~Within(stack[u], {Frame("shutdown", "flusher")})
<1>1. ASSUME NEW u \in Threads PROVE ~Within(stack[u], Critical)
  BY <1>1, SingletonAssumption DEF LockHeld
<1> QED
  BY <1>1, FlusherPlace DEF Within

\* A step that leaves the emitters alone and nobody in or out of the blocks.
LEMMA QuietStep ==
  ASSUME EmitterInv, UNCHANGED <<current, lock, emitterVars, gaveUp>>,
         \A u \in Threads : /\ Within(stack'[u], Critical) <=> Within(stack[u], Critical)
                            /\ Within(stack'[u], Closing) <=> Within(stack[u], Closing)
                            /\ Within(stack'[u], {Frame("shutdown", "flusher")}) <=>
                                 Within(stack[u], {Frame("shutdown", "flusher")})
  PROVE  (LockHeld /\ Stopping /\ InTurn)'
<1>1. LockHeld'
  BY DEF EmitterInv, LockHeld
<1>2. Stopping'
  BY DEF EmitterInv, Stopping, emitterVars
<1>3. InTurn'
  BY DEF EmitterInv, InTurn, emitterVars
<1> QED
  BY <1>1, <1>2, <1>3

LEMMA OutQuiet ==
  ASSUME NEW t \in Threads, Stages(t, "out", "out"), NEW u \in Threads
  PROVE  /\ Within(stack'[u], Critical) <=> Within(stack[u], Critical)
         /\ Within(stack'[u], Closing) <=> Within(stack[u], Closing)
         /\ Within(stack'[u], {Frame("shutdown", "flusher")}) <=>
              Within(stack[u], {Frame("shutdown", "flusher")})
<1>1. CASE u = t
  BY <1>1 DEF Stages, Stage
<1>2. CASE u # t
  BY <1>2 DEF Stages
<1> QED
  BY <1>1, <1>2

LEMMA OutStep ==
  ASSUME EmitterInv, NEW t \in Threads, Stages(t, "out", "out"), UNCHANGED <<current, lock, emitterVars, gaveUp>>
  PROVE  (LockHeld /\ Stopping /\ InTurn)'
  BY OutQuiet, QuietStep

\* The blocks of the others, at a step of t.
LEMMA OthersQuiet ==
  ASSUME NEW t \in Threads, NEW x, NEW y, Stages(t, x, y), NEW u \in Threads, u # t
  PROVE  \A F : Within(stack'[u], F) <=> Within(stack[u], F)
  BY DEF Stages

LEMMA CreateKeeps ==
  ASSUME EmitterInv, NEW t \in Threads, GetCreate(t), Stages(t, "out", "manifest")
  PROVE  (LockHeld /\ Stopping /\ InTurn)'
<1>1. /\ lock = Nobody /\ current = 0 /\ made < MaxEmitters /\ lock' = t
      /\ made' = made + 1 /\ current' = made + 1
      /\ flusher' = [flusher EXCEPT ![made + 1] = "running"]
      /\ collector' = [collector EXCEPT ![made + 1] = "running"]
      /\ stops' = stops /\ late' = late /\ gaveUp' = gaveUp
  BY DEF GetCreate, Found, ManifestHolds
<1>2. /\ made \in 0 .. MaxEmitters /\ MaxEmitters \in Nat
      /\ flusher \in [Emitters -> {"none", "running", "done", "dead"}]
      /\ collector \in [Emitters -> {"none", "running", "sampling", "done"}]
  BY SingletonAssumption DEF EmitterInv, Scalars
<1>3. made \in Nat /\ made + 1 \in Emitters
  BY <1>1, <1>2 DEF Emitters
<1>4. \A u \in Threads : /\ ~Within(stack[u], Critical) /\ ~Within(stack[u], Closing)
                         /\ ~Within(stack[u], {Frame("shutdown", "flusher")})
  BY <1>1, NobodyInside DEF EmitterInv
<1>5. /\ Within(stack'[t], Critical) /\ ~Within(stack'[t], Closing)
      /\ ~Within(stack'[t], {Frame("shutdown", "flusher")})
  BY DEF Stages, Stage
<1>6. \A u \in Threads : /\ Within(stack'[u], Critical) <=> u = t
                         /\ ~Within(stack'[u], Closing)
                         /\ ~Within(stack'[u], {Frame("shutdown", "flusher")})
  BY <1>4, <1>5, OthersQuiet
<1>7. LockHeld'
  BY <1>1, <1>6 DEF LockHeld
<1>8. Stopping'
  <2>1. current' # 0
    BY <1>1, <1>3
  <2>2. stops[made + 1] = {}
    BY <1>3 DEF EmitterInv, Stopping
  <2>3. ASSUME NEW e \in Emitters
        PROVE  /\ e > made' => flusher'[e] = "none" /\ collector'[e] = "none" /\ stops'[e] = {} /\ late'[e] = {}
               /\ e <= made' => flusher'[e] # "none"
               /\ flusher'[e] = "done" => "flusher" \in stops'[e]
    <3>0. e \in Nat
      BY DEF Emitters
    <3>1. CASE e = made + 1
      BY <1>1, <1>2, <1>3, <3>1
    <3>2. CASE e # made + 1
      <4>1. flusher'[e] = flusher[e] /\ collector'[e] = collector[e]
        BY <1>1, <1>2, <3>2
      <4>2. (e > made' => e > made) /\ (e <= made' => e <= made)
        BY <1>1, <1>3, <3>0, <3>2
      <4> QED
        BY <1>1, <4>1, <4>2 DEF EmitterInv, Stopping
    <3> QED
      BY <3>1, <3>2
  <2> QED
    BY <1>1, <1>6, <2>1, <2>2, <2>3 DEF Stopping
<1>9. InTurn'
  <2> SUFFICES ASSUME ~gaveUp, NEW e \in Emitters
      PROVE  /\ flusher'[e] = "running" => e = current'
             /\ "flusher" \in stops'[e] => collector'[e] = "done"
             /\ late'[e] \subseteq {"engine"}
    BY <1>1, <1>6 DEF InTurn
  <2>1. /\ flusher[e] = "running" => e = current
        /\ "flusher" \in stops[e] => collector[e] = "done"
        /\ late[e] \subseteq {"engine"}
    BY DEF EmitterInv, InTurn
  <2>2. e # 0
    BY DEF Emitters
  <2>3. CASE e = made + 1
    <3>1. stops[e] = {}
      BY <1>3, <2>3 DEF EmitterInv, Stopping
    <3> QED
      BY <1>1, <2>1, <2>3, <3>1
  <2>4. CASE e # made + 1
    <3>1. flusher'[e] = flusher[e] /\ collector'[e] = collector[e]
      BY <1>1, <1>2, <2>4
    <3> QED
      BY <1>1, <2>1, <2>2, <3>1
  <2> QED
    BY <2>3, <2>4
<1> QED
  BY <1>7, <1>8, <1>9

\* A record put into an emitter whose flusher has not ended is not late.
LEMMA PutKeeps ==
  ASSUME EmitterInv, NEW e, NEW k \in RecordKinds, Put(e, k)
  PROVE  /\ late' \in [Emitters -> SUBSET RecordKinds]
         /\ \A d \in Emitters : d > made => late'[d] = {}
         /\ ~gaveUp /\ (e \in Emitters => flusher[e] # "done" \/ k = "engine") =>
              \A d \in Emitters : late'[d] \subseteq {"engine"}
<1>0. /\ late \in [Emitters -> SUBSET RecordKinds]
      /\ \A d \in Emitters : d > made => late[d] = {} /\ flusher[d] = "none"
      /\ ~gaveUp => \A d \in Emitters : late[d] \subseteq {"engine"}
  BY DEF EmitterInv, Scalars, Stopping, InTurn
<1>1. CASE late' = late
  BY <1>0, <1>1
<1>2. CASE e \in Emitters /\ flusher[e] = "done" /\ late' = [late EXCEPT ![e] = @ \cup {k}]
  <2>1. /\ late' \in [Emitters -> SUBSET RecordKinds] /\ late'[e] = late[e] \cup {k}
        /\ \A d \in Emitters : d # e => late'[d] = late[d]
    BY <1>0, <1>2
  <2> QED
    BY <1>0, <1>2, <2>1
<1>3. late' = late \/ (e \in Emitters /\ flusher[e] = "done" /\ late' = [late EXCEPT ![e] = @ \cup {k}])
  <2>1. e \notin Emitters => [late EXCEPT ![e] = @ \cup {k}] = late
    BY <1>0
  <2> QED
    BY <2>1 DEF Put
<1> QED
  BY <1>1, <1>2, <1>3

\* Only late, of the emitters, changes.
LEMMA LateKeeps ==
  ASSUME EmitterInv, \A d \in Emitters : d > made => late'[d] = {},
         ~gaveUp => \A d \in Emitters : late'[d] \subseteq {"engine"},
         UNCHANGED <<current, made, flusher, collector, stops, gaveUp>>,
         \A u \in Threads : /\ Within(stack'[u], Critical) => Within(stack[u], Critical)
                            /\ Within(stack'[u], Closing) <=> Within(stack[u], Closing)
                            /\ Within(stack'[u], {Frame("shutdown", "flusher")}) <=>
                                 Within(stack[u], {Frame("shutdown", "flusher")})
  PROVE  (Stopping /\ InTurn)'
<1>1. Stopping'
  BY DEF EmitterInv, Stopping
<1>2. InTurn'
  BY DEF EmitterInv, InTurn
<1> QED
  BY <1>1, <1>2

LEMMA ManifestKeeps ==
  ASSUME EmitterInv, NEW t \in Threads, GetManifest(t), Stages(t, "manifest", "out")
  PROVE  (LockHeld /\ Stopping /\ InTurn)'
<1>0. Within(stack[t], Critical) /\ ~Within(stack[t], Closing)
  BY DEF Stages, Stage
<1>1. lock = t
  BY <1>0 DEF EmitterInv, LockHeld
<1>2. \A u \in Threads : u # t => /\ ~Within(stack[u], Critical) /\ ~Within(stack[u], Closing)
                                  /\ ~Within(stack[u], {Frame("shutdown", "flusher")})
  BY <1>1, OneInside DEF EmitterInv
<1>3. /\ ~Within(stack'[t], Critical) /\ ~Within(stack'[t], Closing)
      /\ ~Within(stack'[t], {Frame("shutdown", "flusher")}) /\ ~Within(stack[t], {Frame("shutdown", "flusher")})
  BY DEF Stages, Stage
<1>4. current # 0 /\ stops[current] = {}
  BY <1>0, <1>2 DEF EmitterInv, Stopping
<1>5. current \in Emitters => flusher[current] # "done"
  BY <1>4 DEF EmitterInv, Stopping
<1>6. lock' = Nobody /\ UNCHANGED <<current, made, flusher, collector, stops, gaveUp>>
  BY DEF GetManifest
<1>7. LockHeld'
  BY <1>2, <1>3, <1>6, OthersQuiet, SingletonAssumption DEF LockHeld
<1>8. /\ \A d \in Emitters : d > made => late'[d] = {}
      /\ ~gaveUp => \A d \in Emitters : late'[d] \subseteq {"engine"}
  <2>1. CASE Put(current, "anchor")
    BY <1>5, <2>1, PutKeeps DEF RecordKinds
  <2>2. CASE UNCHANGED late
    BY <2>2 DEF EmitterInv, Stopping, InTurn
  <2> QED
    BY <2>1, <2>2 DEF GetManifest
<1>9. \A u \in Threads : /\ Within(stack'[u], Critical) => Within(stack[u], Critical)
                         /\ Within(stack'[u], Closing) <=> Within(stack[u], Closing)
                         /\ Within(stack'[u], {Frame("shutdown", "flusher")}) <=>
                              Within(stack[u], {Frame("shutdown", "flusher")})
  BY <1>0, <1>3, OthersQuiet
<1> QED
  BY <1>6, <1>7, <1>8, <1>9, LateKeeps

LEMMA ProbeKeeps ==
  ASSUME EmitterInv, NEW t \in Threads, ProbePut(t), Stages(t, "out", "out")
  PROVE  (LockHeld /\ Stopping /\ InTurn)'
<1>1. UNCHANGED <<current, lock, made, flusher, collector, stops, gaveUp>>
  BY DEF ProbePut
<1>2. \A u \in Threads : /\ Within(stack'[u], Critical) <=> Within(stack[u], Critical)
                         /\ Within(stack'[u], Closing) <=> Within(stack[u], Closing)
                         /\ Within(stack'[u], {Frame("shutdown", "flusher")}) <=>
                              Within(stack[u], {Frame("shutdown", "flusher")})
  BY OutQuiet
<1>3. LockHeld'
  BY <1>1, <1>2 DEF EmitterInv, LockHeld
<1>4. /\ \A d \in Emitters : d > made => late'[d] = {}
      /\ ~gaveUp => \A d \in Emitters : late'[d] \subseteq {"engine"}
  <2>1. CASE Put(ret[t], "engine")
    <3>1. "engine" \in RecordKinds
      BY DEF RecordKinds
    <3> QED
      BY <2>1, <3>1, PutKeeps
  <2>2. CASE UNCHANGED late
    BY <2>2 DEF EmitterInv, Stopping, InTurn
  <2> QED
    BY <2>1, <2>2 DEF ProbePut
<1> QED
  BY <1>1, <1>2, <1>3, <1>4, LateKeeps

LEMMA LockKeeps ==
  ASSUME EmitterInv, NEW t \in Threads, ShutdownLock(t), Stages(t, "out", "collector")
  PROVE  (LockHeld /\ Stopping /\ InTurn)'
<1>1. /\ lock = Nobody /\ current # 0 /\ lock' = t
      /\ stops' = [stops EXCEPT ![current] = @ \cup {"collector"}]
      /\ UNCHANGED <<current, made, flusher, collector, late, gaveUp>>
  BY DEF ShutdownLock
<1>2. \A u \in Threads : /\ ~Within(stack[u], Critical) /\ ~Within(stack[u], Closing)
                         /\ ~Within(stack[u], {Frame("shutdown", "flusher")})
  BY <1>1, NobodyInside DEF EmitterInv
<1>3. /\ Within(stack'[t], Critical) /\ Within(stack'[t], Closing)
      /\ ~Within(stack'[t], {Frame("shutdown", "flusher")})
  BY DEF Stages, Stage
<1>4. \A u \in Threads : /\ Within(stack'[u], Critical) <=> u = t
                         /\ ~Within(stack'[u], {Frame("shutdown", "flusher")})
  BY <1>2, <1>3, OthersQuiet
<1>5. /\ stops \in [Emitters -> SUBSET {"collector", "flusher"}]
      /\ current \in 0 .. made /\ made \in 0 .. MaxEmitters /\ MaxEmitters \in Nat
  BY SingletonAssumption DEF EmitterInv, Scalars
<1>6. current \in Emitters /\ current <= made
  BY <1>1, <1>5 DEF Emitters
<1>7. ASSUME NEW e \in Emitters
      PROVE  /\ e > made => stops'[e] = stops[e]
             /\ "flusher" \in stops'[e] <=> "flusher" \in stops[e]
  <2>1. CASE e = current
    <3>1. stops'[e] = stops[e] \cup {"collector"}
      BY <1>1, <1>5, <2>1
    <3> QED
      BY <1>5, <1>6, <2>1, <3>1
  <2>2. CASE e # current
    BY <1>1, <1>5, <2>2
  <2> QED
    BY <2>1, <2>2
<1>8. LockHeld'
  BY <1>1, <1>4 DEF LockHeld
<1>9. Stopping'
  BY <1>1, <1>3, <1>7 DEF EmitterInv, Stopping
<1>10. InTurn'
  BY <1>1, <1>4, <1>7 DEF EmitterInv, InTurn
<1> QED
  BY <1>8, <1>9, <1>10

LEMMA JoinCollectorKeeps ==
  ASSUME EmitterInv, NEW t \in Threads, JoinCollector(t), Stages(t, "collector", "flusher")
  PROVE  (LockHeld /\ Stopping /\ InTurn)'
<1>1. /\ gaveUp' = (gaveUp \/ collector[current] \notin {"done", "dead"})
      /\ stops' = [stops EXCEPT ![current] = @ \cup {"flusher"}]
      /\ UNCHANGED <<current, lock, made, flusher, collector, late>>
  BY DEF JoinCollector, Joined
<1>2. Within(stack[t], Critical)
  BY DEF Stages, Stage
<1>3. lock = t /\ current # 0
  BY <1>2 DEF EmitterInv, LockHeld, Stopping
<1>4. \A u \in Threads : u # t => /\ ~Within(stack[u], Critical)
                                  /\ ~Within(stack[u], {Frame("shutdown", "flusher")})
  BY <1>3, OneInside DEF EmitterInv
<1>5. Within(stack'[t], Critical) /\ Within(stack'[t], Closing)
  BY DEF Stages, Stage
<1>6. \A u \in Threads : /\ Within(stack'[u], Critical) <=> u = t
                         /\ Within(stack'[u], {Frame("shutdown", "flusher")}) => u = t
  BY <1>4, <1>5, OthersQuiet
<1>7. /\ stops \in [Emitters -> SUBSET {"collector", "flusher"}]
      /\ current \in 0 .. made /\ made \in 0 .. MaxEmitters /\ MaxEmitters \in Nat
  BY SingletonAssumption DEF EmitterInv, Scalars
<1>8. current \in Emitters /\ current <= made
  BY <1>3, <1>7 DEF Emitters
<1>9. ASSUME NEW e \in Emitters
      PROVE  /\ e > made => stops'[e] = stops[e]
             /\ "flusher" \in stops[e] => "flusher" \in stops'[e]
             /\ "flusher" \in stops'[e] => "flusher" \in stops[e] \/ e = current
  <2>1. CASE e = current
    <3>1. stops'[e] = stops[e] \cup {"flusher"}
      BY <1>1, <1>7, <2>1
    <3> QED
      BY <1>7, <1>8, <2>1, <3>1
  <2>2. CASE e # current
    BY <1>1, <1>7, <2>2
  <2> QED
    BY <2>1, <2>2
<1>10. LockHeld'
  BY <1>1, <1>3, <1>6 DEF LockHeld
<1>11. Stopping'
  BY <1>1, <1>3, <1>5, <1>9 DEF EmitterInv, Stopping
<1>12. InTurn'
  <2> SUFFICES ASSUME ~gaveUp' PROVE InTurn'
    BY DEF InTurn
  <2>1. ~gaveUp /\ collector[current] = "done"
    <3>1. gaveUp \in BOOLEAN
      BY DEF EmitterInv, Scalars
    <3>2. ~(gaveUp \/ collector[current] \notin {"done", "dead"})
      BY <1>1
    <3>3. collector[current] \in {"none", "running", "sampling", "done"}
      BY <1>8 DEF EmitterInv, Scalars
    <3> QED
      BY <3>2, <3>3
  <2>2. \A e \in Emitters : /\ flusher[e] = "running" => e = current
                            /\ "flusher" \in stops[e] => collector[e] = "done"
                            /\ late[e] \subseteq {"engine"}
    BY <2>1 DEF EmitterInv, InTurn
  <2> QED
    BY <1>1, <1>9, <2>1, <2>2 DEF InTurn
<1> QED
  BY <1>10, <1>11, <1>12

LEMMA JoinFlusherKeeps ==
  ASSUME EmitterInv, NEW t \in Threads, JoinFlusher(t), Stages(t, "flusher", "out")
  PROVE  (LockHeld /\ Stopping /\ InTurn)'
<1>1. /\ gaveUp' = (gaveUp \/ flusher[current] \notin {"done", "dead"})
      /\ current' = 0 /\ lock' = Nobody /\ UNCHANGED emitterVars
  BY DEF JoinFlusher, Joined, AfterShutdown
<1>2. Within(stack[t], Critical)
  BY DEF Stages, Stage
<1>3. lock = t
  BY <1>2 DEF EmitterInv, LockHeld
<1>4. \A u \in Threads : u # t => /\ ~Within(stack[u], Critical)
                                  /\ ~Within(stack[u], {Frame("shutdown", "flusher")})
  BY <1>3, OneInside DEF EmitterInv
<1>5. ~Within(stack'[t], Critical) /\ ~Within(stack'[t], {Frame("shutdown", "flusher")})
  BY DEF Stages, Stage
<1>6. \A u \in Threads : /\ ~Within(stack'[u], Critical)
                         /\ ~Within(stack'[u], {Frame("shutdown", "flusher")})
  BY <1>4, <1>5, OthersQuiet
<1>7. LockHeld'
  BY <1>1, <1>6, SingletonAssumption DEF LockHeld
<1>8. Stopping'
  BY <1>1, <1>6 DEF EmitterInv, Stopping, emitterVars
<1>9. InTurn'
  <2> SUFFICES ASSUME ~gaveUp' PROVE InTurn'
    BY DEF InTurn
  <2>1. ~gaveUp /\ flusher[current] \in {"done", "dead"}
    <3>1. ~(gaveUp \/ flusher[current] \notin {"done", "dead"})
      BY <1>1
    <3> QED
      BY <3>1
  <2>2. \A e \in Emitters : /\ flusher[e] = "running" => e = current
                            /\ "flusher" \in stops[e] => collector[e] = "done"
                            /\ late[e] \subseteq {"engine"}
    BY <2>1 DEF EmitterInv, InTurn
  <2>3. \A e \in Emitters : flusher[e] # "running"
    BY <2>1, <2>2
  <2> QED
    BY <1>1, <1>6, <2>2, <2>3 DEF InTurn, emitterVars
<1> QED
  BY <1>7, <1>8, <1>9

LEMMA BackgroundKeeps ==
  ASSUME EmitterInv, NEW e \in Emitters, Background(e)
  PROVE  (LockHeld /\ Stopping /\ InTurn)'
<1>1. UNCHANGED <<stack, current, lock, made, stops, gaveUp>>
  BY DEF Background, FlusherEnds, FlusherDies, CollectorSample, CollectorPut, CollectorEnds, frameVars
<1>2. LockHeld'
  BY <1>1 DEF EmitterInv, LockHeld
<1>3. /\ flusher \in [Emitters -> {"none", "running", "done", "dead"}]
      /\ collector \in [Emitters -> {"none", "running", "sampling", "done"}]
  BY DEF EmitterInv, Scalars
<1>4. \A d \in Emitters :
        /\ d > made => flusher[d] = "none" /\ collector[d] = "none" /\ stops[d] = {} /\ late[d] = {}
        /\ d <= made => flusher[d] # "none"
        /\ flusher[d] = "done" => "flusher" \in stops[d]
  BY DEF EmitterInv, Stopping
<1>5. ~gaveUp => \A d \in Emitters :
        /\ flusher[d] = "running" => d = current
        /\ "flusher" \in stops[d] => collector[d] = "done"
        /\ late[d] \subseteq {"engine"}
  BY DEF EmitterInv, InTurn
<1>6. /\ flusher[e] = "running" \/ collector[e] \in {"running", "sampling"}
      /\ ~(e > made)
  BY <1>4 DEF Background, FlusherEnds, FlusherDies, CollectorSample, CollectorPut, CollectorEnds
<1>7. \A d \in Emitters : d # e => flusher'[d] = flusher[d] /\ collector'[d] = collector[d]
  BY <1>3 DEF Background, FlusherEnds, FlusherDies, CollectorSample, CollectorPut, CollectorEnds
<1>8. /\ \/ flusher'[e] = flusher[e] \/ flusher'[e] = "dead"
         \/ flusher'[e] = "done" /\ "flusher" \in stops[e]
      /\ collector[e] = "done" => collector'[e] = "done"
  BY <1>3 DEF Background, FlusherEnds, FlusherDies, CollectorSample, CollectorPut, CollectorEnds
<1>9. /\ \A d \in Emitters : d > made => late'[d] = {}
      /\ ~gaveUp => \A d \in Emitters : late'[d] \subseteq {"engine"}
  <2>1. CASE late' = late
    BY <2>1, <1>4, <1>5
  <2>2. CASE collector[e] = "sampling" /\ Put(e, "counters")
    <3>1. "counters" \in RecordKinds
      BY DEF RecordKinds
    <3>2. ~gaveUp => flusher[e] # "done"
      BY <1>4, <1>5, <2>2
    <3> QED
      BY <2>2, <3>1, <3>2, PutKeeps
  <2> QED
    BY <2>1, <2>2 DEF Background, FlusherEnds, FlusherDies, CollectorSample, CollectorPut, CollectorEnds
<1>10. Stopping'
  BY <1>1, <1>4, <1>6, <1>7, <1>8, <1>9 DEF EmitterInv, Stopping
<1>11. InTurn'
  <2> SUFFICES ASSUME ~gaveUp PROVE InTurn'
    BY <1>1 DEF InTurn
  <2>1. ASSUME NEW t \in Threads, Within(stack[t], {Frame("shutdown", "flusher")})
        PROVE  collector'[current] = "done"
    <3>1. Within(stack[t], Critical)
      BY <2>1, FlusherPlace DEF Within
    <3>2. current # 0 /\ collector[current] = "done"
      BY <2>1, <3>1 DEF EmitterInv, Stopping, InTurn
    <3>3. current \in Emitters
      BY <3>2, SingletonAssumption DEF EmitterInv, Scalars, Emitters
    <3> QED
      BY <1>7, <1>8, <3>2, <3>3
  <2>2. ASSUME NEW d \in Emitters
        PROVE  /\ flusher'[d] = "running" => d = current
               /\ "flusher" \in stops[d] => collector'[d] = "done"
               /\ late'[d] \subseteq {"engine"}
    <3>1. CASE d = e
      BY <1>5, <1>8, <1>9, <3>1
    <3>2. CASE d # e
      BY <1>5, <1>7, <1>9, <3>2
    <3> QED
      BY <3>1, <3>2
  <2> QED
    BY <1>1, <2>1, <2>2 DEF InTurn
<1> QED
  BY <1>2, <1>10, <1>11

\* The emitter through every step.
LEMMA EmitterStep ==
  ASSUME Shapes, EmitterInv, [Next]_vars
  PROVE  (LockHeld /\ Stopping /\ InTurn)'
<1> DEFINE Same == UNCHANGED <<current, lock, emitterVars, gaveUp>>
<1>0. Scalars
  BY DEF EmitterInv
<1>1. ASSUME NEW t \in Threads, SingletonStep(t) PROVE (LockHeld /\ Stopping /\ InTurn)'
  <2>1. CASE GetCheck(t) \/ GetFound(t) \/ GetFails(t) \/ GetReturn(t) \/ ShutdownNothing(t)
    <3>1. Same
      BY <2>1 DEF GetCheck, GetFound, GetFails, GetReturn, ShutdownNothing
    <3>2. Stages(t, "out", "out")
      BY <2>1, GetStages, ProbeStages
    <3> QED
      BY <3>1, <3>2, OutStep
  <2>2. CASE GetCreate(t)
    BY <2>2, GetStages, CreateKeeps
  <2>3. CASE GetManifest(t)
    BY <2>3, GetStages, ManifestKeeps
  <2>4. CASE ProbePut(t)
    BY <2>4, ProbeStages, ProbeKeeps
  <2>5. CASE ShutdownLock(t)
    BY <2>5, ProbeStages, LockKeeps
  <2>6. CASE JoinCollector(t)
    BY <2>6, ProbeStages, JoinCollectorKeeps
  <2>7. CASE JoinFlusher(t)
    BY <2>7, ProbeStages, JoinFlusherKeeps
  <2> QED
    BY <1>1, <2>1, <2>2, <2>3, <2>4, <2>5, <2>6, <2>7 DEF SingletonStep, Get, Shutdown
<1>2. ASSUME NEW t \in Threads, PatchStep(t) PROVE (LockHeld /\ Stopping /\ InTurn)'
  <2>1. Same
    BY <1>2 DEF PatchStep, ApplyCached, ApplyStart, ApplyEmitter, ApplyModule, ApplyFails, FactoryLeaves,
       FactoryDecide, FactoryLook, FactoryPop, FactoryGuard,
       FactoryOriginal, FactoryDirect, FactoryUnguard, FactoryRestore, onlyFrames
  <2>2. Stages(t, "out", "out")
    BY <1>0, <1>2, PatchStages
  <2> QED
    BY <2>1, <2>2, OutStep
<1>3. ASSUME NEW t \in Threads, SingletonBegin(t) \/ PatchBegin(t) PROVE (LockHeld /\ Stopping /\ InTurn)'
  <2>1. BeginTurns(t)
    BY <1>3, BeginActions
  <2>2. Same /\ Stages(t, "out", "out")
    BY <2>1, BeginStages DEF BeginTurns
  <2> QED
    BY <2>2, OutStep
<1>4. ASSUME Reset \/ UNCHANGED vars PROVE (LockHeld /\ Stopping /\ InTurn)'
  <2>1. Same /\ stack' = stack
    BY <1>4 DEF Reset, vars, singletonVars, frameVars
  <2> QED
    BY <2>1, QuietStep
<1>5. ASSUME NEW e \in Emitters, Background(e) PROVE (LockHeld /\ Stopping /\ InTurn)'
  BY <1>5, BackgroundKeeps
<1> QED
  BY <1>1, <1>2, <1>3, <1>4, <1>5 DEF Next, ThreadStep

-----------------------------------------------------------------------------
(* What a call that nobody disturbs finds.                                 *)

LEMMA TurnAt ==
  ASSUME NEW t \in Threads, NEW old, NEW new, NEW tops, Turn(t, old, new, tops), NEW op, NEW at
  PROVE  /\ At(t, op, at)' => Frame(op, at) \in tops
         /\ \A u \in Threads : u # t => (At(u, op, at)' <=> At(u, op, at)) /\ (Busy(u)' <=> Busy(u))
<1>1. ASSUME At(t, op, at)' PROVE Frame(op, at) \in tops
  <2>1. /\ Len(stack'[t]) > 0 /\ stack'[t][Len(stack'[t])].op = op /\ stack'[t][Len(stack'[t])].at = at
    BY <1>1 DEF At
  <2>2. stack'[t] \in Seq(Frames)
    BY DEF Turn, Shapes
  <2> PICK f : f = stack'[t][Len(stack'[t])]
    OBVIOUS
  <2>3. f \in Frames /\ stack'[t] # <<>>
    BY <2>1, <2>2
  <2>4. f = Frame(op, at)
    BY <2>1, <2>3, FrameFields
  <2>5. f \in tops
    BY <2>3 DEF Turn
  <2> QED
    BY <2>4, <2>5
<1>2. ASSUME NEW u \in Threads, u # t PROVE (At(u, op, at)' <=> At(u, op, at)) /\ (Busy(u)' <=> Busy(u))
  <2>1. stack'[u] = stack[u]
    BY <1>2 DEF Turn
  <2> QED
    BY <2>1 DEF At, Busy
<1> QED
  BY <1>1, <1>2

\* A thread that is stopping an emitter is at one of the two joins.
LEMMA ClosingTop ==
  ASSUME Shapes, NEW u \in Threads, Within(stack[u], Closing)
  PROVE  At(u, "shutdown", "collector") \/ At(u, "shutdown", "flusher")
<1>1. stack[u] # <<>>
  BY DEF Within
<1>2. Shape(stack[u]) /\ stack[u] \in Seq(Frames)
  BY DEF Shapes
<1>3. ~Below(stack[u], Closing)
  BY <1>1, <1>2, BelowFacts
<1> PICK f : f = Top(u)
  OBVIOUS
<1>4. f \in Closing
  BY <1>1, <1>2, <1>3, WithinTop DEF Top
<1>5. f = Frame("shutdown", "collector") \/ f = Frame("shutdown", "flusher")
  BY <1>4 DEF Closing, FrameOf, Frame
<1> QED
  BY <1>1, <1>5, AtTop DEF Busy

\* The tops a step can leave.
LEMMA OverWhat ==
  ASSUME NEW f, NEW op, NEW at, Over(f, Frame(op, at))
  PROVE  /\ op \in {"get", "apply", "factory"}
         /\ f = Frame("probe", "put") => op = "get"
         /\ f # Frame("get", "return")
<1>1. Frame(op, at).op = op
  BY DEF Frame
<1>2. f # Frame("get", "return")
  <2>1. f.op # "get"
    BY OverFacts
  <2> QED
    BY <2>1 DEF Frame
<1>3. f = Frame("probe", "put") => op = "get"
  <2>1. Frame("probe", "put") # Frame("factory", "decide")
    BY SameFrame
  <2>2. \A p : Frame("probe", "put") \notin FrameOf("factory", p)
    BY DEF Frame, FrameOf
  <2> QED
    BY <1>1, <2>1, <2>2 DEF Over
<1>4. op \in {"get", "apply", "factory"}
  BY <1>1 DEF Over
<1> QED
  BY <1>2, <1>3, <1>4

\* A turn of t that does not lose what t has found leaves everybody undisturbed.
LEMMA Unmoved ==
  ASSUME Scalars, Undisturbed, NEW t \in Threads, NEW old, NEW new, NEW tops, Turn(t, old, new, tops),
         NEW v, NEW x, Given(t, v, x), overlapped' = overlapped, current' = current,
         Busy(t), \A u \in Threads : Within(stack'[u], Closing) <=> Within(stack[u], Closing),
         At(t, "get", "return")' => current # 0,
         At(t, "probe", "put")' /\ ~raised'[t] => (t \notin overlapped => current # 0 /\ ret'[t] = current)
  PROVE  Undisturbed'
<1> SUFFICES ASSUME NEW u \in Threads, u \notin overlapped
    PROVE /\ Busy(u)' => \A w \in Threads : ~Within(stack'[w], Closing)
          /\ At(u, "get", "return")' => current' # 0
          /\ At(u, "probe", "put")' /\ ~raised'[u] => current' # 0 /\ ret'[u] = current'
  BY DEF Undisturbed
<1>1. CASE u = t
  BY <1>1 DEF Undisturbed
<1>2. CASE u # t
  <2>1. /\ At(u, "get", "return")' <=> At(u, "get", "return")
        /\ At(u, "probe", "put")' <=> At(u, "probe", "put")
        /\ Busy(u)' <=> Busy(u)
    BY <1>2, TurnAt
  <2>2. ret \in [Threads -> Nat] /\ raised \in [Threads -> BOOLEAN]
    BY DEF Scalars
  <2>3. ret'[u] = ret[u] /\ raised'[u] = raised[u]
    BY <1>2, <2>2 DEF Given
  <2> QED
    BY <2>1, <2>3 DEF Undisturbed
<1> QED
  BY <1>1, <1>2

LEMMA AimlessStep ==
  ASSUME Scalars, Undisturbed, NEW t \in Threads, NEW old, NEW new, NEW tops, Turn(t, old, new, tops),
         NEW v, NEW x, Given(t, v, x), overlapped' = overlapped, current' = current,
         Busy(t), \A u \in Threads : Within(stack'[u], Closing) <=> Within(stack[u], Closing),
         Frame("get", "return") \notin tops, Frame("probe", "put") \notin tops \/ x = TRUE
  PROVE  Undisturbed'
<1>1. ~At(t, "get", "return")'
  BY TurnAt
<1>2. raised'[t] = x
  BY DEF Scalars, Given
<1>3. ~(At(t, "probe", "put")' /\ ~raised'[t])
  BY <1>2, TurnAt
<1> QED
  BY <1>1, <1>3, Unmoved

LEMMA PopUnmoved ==
  ASSUME Scalars, Undisturbed, NEW t \in Threads, NEW op, NEW a, NEW v, NEW x, PopTurn(t, op, a, v, x),
         overlapped' = overlapped, current' = current,
         Busy(t), \A u \in Threads : Within(stack'[u], Closing) <=> Within(stack[u], Closing),
         op = "get" => x = TRUE \/ (v = current /\ (t \notin overlapped => current # 0))
  PROVE  Undisturbed'
<1> PICK tops : tops = {f \in Frames : Over(f, Frame(op, a))}
  OBVIOUS
<1>1. Turn(t, {Frame(op, a)}, {}, tops)
  BY DEF PopTurn
<1>2. \E w, y : Given(t, w, y)
  BY DEF PopTurn
<1>3. ~At(t, "get", "return")'
  <2>1. Frame("get", "return") \notin tops
    BY OverWhat
  <2> QED
    BY <1>1, <2>1, TurnAt
<1>4. ASSUME At(t, "probe", "put")', ~raised'[t], t \notin overlapped PROVE current # 0 /\ ret'[t] = current
  <2>1. op = "get"
    <3>1. Frame("probe", "put") \in tops
      BY <1>1, <1>4, TurnAt
    <3> QED
      BY <3>1, OverWhat
  <2>2. Given(t, v, x)
    <3>1. Busy(t)'
      BY <1>4 DEF At, Busy, PopTurn, Turn, Shapes
    <3> QED
      BY <3>1 DEF PopTurn
  <2>3. ret'[t] = v /\ raised'[t] = x
    BY <2>2 DEF Given, Scalars
  <2> QED
    BY <1>4, <2>1, <2>3
<1> QED
  BY <1>1, <1>2, <1>3, <1>4, Unmoved

LEMMA UndisturbedGet ==
  ASSUME Shapes, EmitterInv, Undisturbed, NEW t \in Threads, Get(t)
  PROVE  Undisturbed'
<1>0. Scalars
  BY DEF EmitterInv
<1>a. overlapped' = overlapped
  BY DEF Get, GetCheck, GetFound, GetCreate, GetFails, GetManifest, GetReturn
<1>b. Busy(t)
  <2>1. \E a : At(t, "get", a)
    BY DEF Get, GetCheck, GetFound, GetCreate, GetFails, GetManifest, GetReturn
  <2> QED
    BY <2>1, AtTop
<1>c. \A u \in Threads : Within(stack'[u], Closing) <=> Within(stack[u], Closing)
  <2>1. \E x, y \in {"out", "manifest"} : Stages(t, x, y)
    BY GetStages DEF Get
  <2> PICK x \in {"out", "manifest"}, y \in {"out", "manifest"} : Stages(t, x, y)
    BY <2>1
  <2>2. ~Within(stack[t], Closing) /\ ~Within(stack'[t], Closing)
    BY DEF Stages, Stage
  <2> QED
    BY <2>2 DEF Stages
<1>d. ASSUME NEW a, NEW b, GoTurn(t, "get", a, b), current' = current, b = "return" => current # 0
      PROVE  Undisturbed'
  <2>1. Turn(t, {Frame("get", a)}, {Frame("get", b)}, {Frame("get", b)}) /\ Given(t, 0, FALSE)
    BY <1>d DEF GoTurn
  <2>2. At(t, "get", "return")' => current # 0
    <3>1. At(t, "get", "return")' => Frame("get", "return") = Frame("get", b)
      BY <2>1, TurnAt
    <3> QED
      BY <1>d, <3>1, SameFrame
  <2>3. ~At(t, "probe", "put")'
    <3>1. At(t, "probe", "put")' => Frame("probe", "put") = Frame("get", b)
      BY <2>1, TurnAt
    <3> QED
      BY <3>1, SameFrame
  <2> QED
    BY <1>0, <1>a, <1>b, <1>c, <1>d, <2>1, <2>2, <2>3, Unmoved
<1>1. CASE GetCheck(t)
  <2>1. current' = current
    BY <1>1 DEF GetCheck
  <2> QED
    BY <1>1, <1>d, <2>1, GetActions
<1>2. CASE GetFound(t)
  <2>1. current' = current /\ current # 0
    BY <1>2 DEF GetFound, Found
  <2> QED
    BY <1>2, <1>d, <2>1, GetActions
<1>3. CASE GetCreate(t)
  <2>1. /\ lock = Nobody /\ current = 0 /\ current' = made + 1 /\ made \in Nat
    BY <1>0, <1>3, SingletonAssumption DEF GetCreate, Found, Scalars
  <2>2. \A u \in Threads : ~Within(stack'[u], Closing)
    BY <1>c, <2>1, NobodyInside DEF EmitterInv
  <2>3. GoTurn(t, "get", "wait", "manifest")
    BY <1>3, GetActions
  <2>4. Turn(t, {Frame("get", "wait")}, {Frame("get", "manifest")}, {Frame("get", "manifest")}) /\ Given(t, 0, FALSE)
    BY <2>3 DEF GoTurn
  <2>5. ~At(t, "probe", "put")'
    <3>1. At(t, "probe", "put")' => Frame("probe", "put") = Frame("get", "manifest")
      BY <2>4, TurnAt
    <3> QED
      BY <3>1, SameFrame
  <2>6. current' # 0
    BY <2>1
  <2>7. ASSUME NEW u \in Threads, u \notin overlapped, u # t PROVE ~(At(u, "probe", "put")' /\ ~raised'[u])
    <3>1. At(u, "probe", "put")' <=> At(u, "probe", "put")
      BY <2>4, <2>7, TurnAt
    <3>2. raised'[u] = raised[u]
      BY <1>0, <2>4, <2>7 DEF Given, Scalars
    <3>3. ~(At(u, "probe", "put") /\ ~raised[u])
      BY <2>1, <2>7 DEF Undisturbed
    <3> QED
      BY <3>1, <3>2, <3>3
  <2> QED
    BY <1>a, <2>2, <2>5, <2>6, <2>7 DEF Undisturbed
<1>4. CASE GetFails(t)
  <2>1. PopTurn(t, "get", "wait", 0, TRUE) /\ current' = current
    BY <1>4, GetActions DEF GetFails
  <2> QED
    BY <1>0, <1>a, <1>b, <1>c, <2>1, PopUnmoved
<1>5. CASE GetManifest(t)
  <2>1. current' = current
    BY <1>5 DEF GetManifest
  <2>2. current # 0
    <3>1. Stages(t, "manifest", "out")
      BY <1>5, GetStages
    <3>2. Within(stack[t], Critical)
      BY <3>1 DEF Stages, Stage
    <3> QED
      BY <3>2 DEF EmitterInv, Stopping
  <2>3. CASE GoTurn(t, "get", "manifest", "return")
    BY <1>d, <2>1, <2>2, <2>3
  <2>4. CASE PopTurn(t, "get", "manifest", 0, TRUE)
    BY <1>0, <1>a, <1>b, <1>c, <2>1, <2>4, PopUnmoved
  <2> QED
    BY <1>5, <2>3, <2>4, GetActions
<1>6. CASE GetReturn(t)
  <2>1. current' = current /\ At(t, "get", "return")
    BY <1>6 DEF GetReturn
  <2>2. PICK v : v = current /\ PopTurn(t, "get", "return", v, FALSE)
    BY <1>6, GetActions
  <2>3. t \notin overlapped => current # 0
    BY <2>1 DEF Undisturbed
  <2> QED
    BY <1>0, <1>a, <1>b, <1>c, <2>1, <2>2, <2>3, PopUnmoved
<1> QED
  BY <1>1, <1>2, <1>3, <1>4, <1>5, <1>6 DEF Get

LEMMA UndisturbedOther ==
  ASSUME Shapes, EmitterInv, Undisturbed, NEW t \in Threads, ProbePut(t) \/ Shutdown(t)
  PROVE  Undisturbed'
<1>0. Scalars
  BY DEF EmitterInv
<1>b. Busy(t)
  <2>1. \E op, a : At(t, op, a)
    BY DEF ProbePut, Shutdown, ShutdownLock, ShutdownNothing, JoinCollector, JoinFlusher
  <2> QED
    BY <2>1, AtTop
<1>1. CASE ProbePut(t) \/ ShutdownNothing(t)
  <2>1. overlapped' = overlapped /\ current' = current
    BY <1>1 DEF ProbePut, ShutdownNothing
  <2>2. \A u \in Threads : Within(stack'[u], Closing) <=> Within(stack[u], Closing)
    BY <1>1, ProbeStages, OutQuiet
  <2>0. \E op \in {"probe", "shutdown"} : \E a, v, x : PopTurn(t, op, a, v, x)
    BY <1>1, ProbeActions
  <2> PICK op \in {"probe", "shutdown"} : \E a, v, x : PopTurn(t, op, a, v, x)
    BY <2>0
  <2>3. PICK a, v, x : PopTurn(t, op, a, v, x)
    OBVIOUS
  <2> QED
    BY <1>0, <1>b, <2>1, <2>2, <2>3, PopUnmoved
<1>2. CASE ShutdownLock(t)
  <2>1. overlapped' = overlapped \cup {u \in Threads : Busy(u)}
    BY <1>2 DEF ShutdownLock
  <2>2. GoTurn(t, "shutdown", "wait", "collector")
    BY <1>2, ProbeActions
  <2>3. \A u \in Threads : u # t => stack'[u] = stack[u]
    BY <2>2 DEF GoTurn, Turn
  <2>4. \A u \in Threads : u \notin overlapped' => stack'[u] = <<>>
    BY <1>b, <2>1, <2>3 DEF Busy
  <2> QED
    BY <2>4 DEF Undisturbed, Busy, At
<1>3. CASE JoinCollector(t) \/ JoinFlusher(t)
  <2>1. overlapped' = overlapped
    BY <1>3 DEF JoinCollector, JoinFlusher
  <2>2. \E x \in {"collector", "flusher"} : \E y : Stages(t, x, y)
    BY <1>3, ProbeStages
  <2>3. Within(stack[t], Closing) /\ \A u \in Threads : u # t => stack'[u] = stack[u]
    BY <2>2 DEF Stages, Stage
  <2>4. \A u \in Threads : u \notin overlapped => stack'[u] = <<>>
    BY <1>b, <2>3 DEF Undisturbed, Busy
  <2> QED
    BY <2>1, <2>4 DEF Undisturbed, Busy, At
<1> QED
  BY <1>1, <1>2, <1>3 DEF Shutdown

LEMMA UndisturbedPatch ==
  ASSUME Shapes, Scalars, Undisturbed, NEW t \in Threads, PatchStep(t)
  PROVE  Undisturbed'
<1>a. overlapped' = overlapped /\ current' = current
  BY DEF PatchStep, ApplyCached, ApplyStart, ApplyEmitter, ApplyModule, ApplyFails, FactoryLeaves,
     FactoryDecide, FactoryLook, FactoryPop, FactoryGuard,
       FactoryOriginal, FactoryDirect, FactoryUnguard, FactoryRestore, onlyFrames
<1>b. Busy(t)
  BY DEF PatchStep, In, Busy, Shapes
<1>c. \A u \in Threads : Within(stack'[u], Closing) <=> Within(stack[u], Closing)
  BY PatchStages, OutQuiet
<1>d. ASSUME NEW op \in {"apply", "factory"}, NEW a, NEW v, NEW x, PopTurn(t, op, a, v, x) PROVE Undisturbed'
  BY <1>a, <1>b, <1>c, <1>d, PopUnmoved
<1>e. ASSUME NEW old, NEW new, NEW g, NEW at, Turn(t, old, new, {Frame(g, at)}), NEW v, NEW x, Given(t, v, x),
             g \in {"apply", "factory"} \/ (g = "get" /\ at = "check")
      PROVE  Undisturbed'
  <2>1. Frame("get", "return") # Frame(g, at) /\ Frame("probe", "put") # Frame(g, at)
    BY <1>e, SameFrame
  <2> PICK tops : tops = {Frame(g, at)}
    OBVIOUS
  <2>2. Turn(t, old, new, tops) /\ Frame("get", "return") \notin tops /\ Frame("probe", "put") \notin tops
    BY <1>e, <2>1
  <2>3. Given(t, v, x)
    BY <1>e
  <2> QED
    BY <1>a, <1>b, <1>c, <2>2, <2>3, AimlessStep
<1>f. ASSUME NEW a, NEW m, Onward(t, a, m) \/ GetTurn(t, "apply", a, m) PROVE Undisturbed'
  <2>1. CASE GoTurn(t, "apply", a, m)
    <3>1. Turn(t, {Frame("apply", a)}, {Frame("apply", m)}, {Frame("apply", m)}) /\ Given(t, 0, FALSE)
      BY <2>1 DEF GoTurn
    <3> QED
      BY <3>1, <1>e
  <2>2. CASE GetTurn(t, "apply", a, m)
    <3>1. /\ Turn(t, {Frame("apply", a)}, {Frame("apply", m), Frame("get", "check")}, {Frame("get", "check")})
          /\ Given(t, 0, FALSE)
      BY <2>2 DEF GetTurn
    <3> QED
      BY <3>1, <1>e
  <2> QED
    BY <1>f, <2>1, <2>2 DEF Onward
<1>1. CASE ApplyCached(t)
  BY <1>1, <1>d, ApplyActions
<1>2. CASE ApplyStart(t)
  BY <1>2, <1>f, ApplyActions
<1>3. CASE ApplyEmitter(t)
  BY <1>3, <1>d, <1>f, ApplyActions
<1>4. CASE ApplyModule(t)
  <2>1. PICK i, m : i \in 1 .. 5 /\ ModuleStep(t, i, m)
    BY <1>4, ApplyModuleTurn
  <2>2. \/ \E v, x : PopTurn(t, "apply", m, v, x)
        \/ \E n : Onward(t, m, n)
    BY <2>1 DEF ModuleStep
  <2> QED
    BY <1>d, <1>f, <2>2
<1>5. ASSUME NEW a, NEW b, MoveTurn(t, a, b) PROVE Undisturbed'
  <2>1. PICK v, x : Given(t, v, x)
    BY <1>5 DEF MoveTurn
  <2>2. Turn(t, {Frame("factory", a)}, {Frame("factory", b)}, {Frame("factory", b)})
    BY <1>5 DEF MoveTurn
  <2> QED
    BY <1>e, <2>1, <2>2
<1>6. CASE FactoryPlain(t)
  BY <1>d, <1>5, <1>6, FactoryTurns
<1>7. CASE FactoryOriginal(t)
  <2>1. PICK a, b : OriginalStep(t, a, b)
    BY <1>7, FactoryOriginalTurn
  <2>2. NestTurn(t, a, b) \/ MoveTurn(t, a, b)
    BY <2>1 DEF OriginalStep
  <2>3. CASE NestTurn(t, a, b)
    <3>1. /\ Turn(t, {Frame("factory", a)}, {Frame("factory", b), Frame("factory", "decide"), Frame("apply", "wait")},
                  {Frame("apply", "wait")})
          /\ Given(t, 0, FALSE)
      BY <2>3 DEF NestTurn
    <3> QED
      BY <3>1, <1>e
  <2> QED
    BY <1>5, <2>2, <2>3
<1> QED
  BY <1>1, <1>2, <1>3, <1>4, <1>6, <1>7 DEF PatchStep, FactoryPlain

LEMMA UndisturbedBegin ==
  ASSUME Shapes, Scalars, Undisturbed, NEW t \in Threads, BeginTurns(t)
  PROVE  Undisturbed'
<1>1. PICK new, g, at : /\ Turn(t, {}, new, {Frame(g, at)})
                        /\ g = "get" => at = "check"
                        /\ g # "probe"
  <2>0. /\ "shutdown" # "get" /\ "apply" # "get" /\ "get" # "probe" /\ "shutdown" # "probe" /\ "apply" # "probe"
    OBVIOUS
  <2>1. CASE Turn(t, {}, {Frame("probe", "put"), Frame("get", "check")}, {Frame("get", "check")})
    BY <2>1
  <2>2. CASE Turn(t, {}, {Frame("shutdown", "wait")}, {Frame("shutdown", "wait")})
    BY <2>0, <2>2
  <2>3. CASE Turn(t, {}, {Frame("apply", "wait")}, {Frame("apply", "wait")})
    BY <2>0, <2>3
  <2>4. CASE Turn(t, {}, {Frame("factory", "decide"), Frame("apply", "wait")}, {Frame("apply", "wait")})
    BY <2>0, <2>4
  <2> QED
    BY <2>1, <2>2, <2>3, <2>4 DEF BeginTurns
<1>2. /\ UNCHANGED <<ret, raised, current>>
      /\ overlapped' = IF ShuttingDown THEN overlapped \cup {t} ELSE overlapped \ {t}
  BY DEF BeginTurns
<1>3. ~At(t, "get", "return")' /\ ~At(t, "probe", "put")'
  <2>1. Frame("get", "return") # Frame(g, at) /\ Frame("probe", "put") # Frame(g, at)
    BY <1>1, SameFrame
  <2> QED
    BY <1>1, <2>1, TurnAt
<1>4. \A u \in Threads : Within(stack'[u], Closing) <=> Within(stack[u], Closing)
  BY BeginStages, OutQuiet
<1>5. ~ShuttingDown => \A u \in Threads : ~Within(stack[u], Closing)
  BY ClosingTop DEF ShuttingDown
<1> SUFFICES ASSUME NEW u \in Threads, u \notin overlapped'
    PROVE /\ Busy(u)' => \A w \in Threads : ~Within(stack'[w], Closing)
          /\ At(u, "get", "return")' => current' # 0
          /\ At(u, "probe", "put")' /\ ~raised'[u] => current' # 0 /\ ret'[u] = current'
  BY DEF Undisturbed
<1>6. CASE u = t
  <2>1. ~ShuttingDown
    BY <1>2, <1>6
  <2> QED
    BY <1>3, <1>4, <1>5, <1>6, <2>1
<1>7. CASE u # t
  <2>1. /\ At(u, "get", "return")' <=> At(u, "get", "return")
        /\ At(u, "probe", "put")' <=> At(u, "probe", "put")
        /\ Busy(u)' <=> Busy(u)
    BY <1>1, <1>7, TurnAt
  <2>2. u \notin overlapped
    BY <1>2, <1>7
  <2> QED
    BY <1>2, <1>4, <2>1, <2>2 DEF Undisturbed
<1> QED
  BY <1>6, <1>7

LEMMA UndisturbedStep ==
  ASSUME Shapes, EmitterInv, Undisturbed, [Next]_vars
  PROVE  Undisturbed'
<1>0. Scalars
  BY DEF EmitterInv
<1>1. ASSUME NEW t \in Threads, SingletonStep(t) PROVE Undisturbed'
  BY <1>1, UndisturbedGet, UndisturbedOther DEF SingletonStep
<1>2. ASSUME NEW t \in Threads, PatchStep(t) PROVE Undisturbed'
  BY <1>0, <1>2, UndisturbedPatch
<1>3. ASSUME NEW t \in Threads, SingletonBegin(t) \/ PatchBegin(t) PROVE Undisturbed'
  BY <1>0, <1>3, BeginActions, UndisturbedBegin
<1>4. ASSUME UNCHANGED <<stack, ret, raised, current, overlapped>> PROVE Undisturbed'
  BY <1>4 DEF Undisturbed, Busy, At
<1>5. Reset \/ UNCHANGED vars => UNCHANGED <<stack, ret, raised, current, overlapped>>
  BY DEF Reset, vars, singletonVars, frameVars
<1>6. ASSUME NEW e \in Emitters, Background(e) PROVE UNCHANGED <<stack, ret, raised, current, overlapped>>
  BY <1>6 DEF Background, FlusherEnds, FlusherDies, CollectorSample, CollectorPut, CollectorEnds, frameVars
<1> QED
  BY <1>1, <1>2, <1>3, <1>4, <1>5, <1>6 DEF Next, ThreadStep

-----------------------------------------------------------------------------
(* Installing the probes.                                                  *)

\* The turns of the emitter's calls leave those of apply() and the factory alone.
LEMMA SingletonTurns ==
  ASSUME Shapes, NEW t \in Threads, SingletonStep(t)
  PROVE  \E old, new, tops :
           /\ Turn(t, old, new, tops)
           /\ \A f \in old \cup new : f.op \notin {"apply", "factory"}
           /\ Frame("factory", "decide") \notin tops
           /\ Busy(t)
<1>1. ASSUME NEW op \in {"get", "probe", "shutdown"}, NEW a, NEW b, GoTurn(t, op, a, b), Busy(t)
      PROVE  \E old, new, tops :
           /\ Turn(t, old, new, tops)
           /\ \A f \in old \cup new : f.op \notin {"apply", "factory"}
           /\ Frame("factory", "decide") \notin tops /\ Busy(t)
  <2> PICK old : old = {Frame(op, a)}
    OBVIOUS
  <2> PICK new : new = {Frame(op, b)}
    OBVIOUS
  <2>1. Turn(t, old, new, new)
    BY <1>1 DEF GoTurn
  <2>2. \A f \in old \cup new : f.op = op
    BY DEF Frame
  <2>3. Frame("factory", "decide") \notin new
    BY SameFrame
  <2> QED
    BY <1>1, <2>1, <2>2, <2>3
<1>2. ASSUME NEW op \in {"get", "probe", "shutdown"}, NEW a, NEW v, NEW x, PopTurn(t, op, a, v, x), Busy(t)
      PROVE  \E old, new, tops :
           /\ Turn(t, old, new, tops)
           /\ \A f \in old \cup new : f.op \notin {"apply", "factory"}
           /\ Frame("factory", "decide") \notin tops /\ Busy(t)
  <2> PICK old : old = {Frame(op, a)}
    OBVIOUS
  <2> PICK tops : tops = {f \in Frames : Over(f, Frame(op, a))}
    OBVIOUS
  <2>1. Turn(t, old, {}, tops)
    BY <1>2 DEF PopTurn
  <2>2. \A f \in old \cup {} : f.op = op
    BY DEF Frame
  <2>3. ~Over(Frame("factory", "decide"), Frame(op, a))
    BY DEF Over, Frame, FrameOf, Body
  <2> QED
    BY <1>2, <2>1, <2>2, <2>3
<1>3. Busy(t)
  <2>1. \E op, a : At(t, op, a)
    BY DEF SingletonStep, Get, GetCheck, GetFound, GetCreate, GetFails, GetManifest, GetReturn,
       ProbePut, Shutdown, ShutdownLock, ShutdownNothing, JoinCollector, JoinFlusher
  <2> QED
    BY <2>1, AtTop
<1>4. CASE Get(t)
  <2>1. (\E a, b : GoTurn(t, "get", a, b)) \/ (\E a, v, x : PopTurn(t, "get", a, v, x))
    BY <1>4, GetActions DEF Get
  <2> QED
    BY <1>1, <1>2, <1>3, <2>1
<1>5. CASE ProbePut(t)
  <2>1. \E a, v, x : PopTurn(t, "probe", a, v, x)
    BY <1>5, ProbeActions
  <2> QED
    BY <1>2, <1>3, <2>1
<1>6. CASE Shutdown(t)
  <2>1. (\E a, b : GoTurn(t, "shutdown", a, b)) \/ (\E a, v, x : PopTurn(t, "shutdown", a, v, x))
    BY <1>6, ProbeActions DEF Shutdown
  <2> QED
    BY <1>1, <1>2, <1>3, <2>1
<1> QED
  BY <1>4, <1>5, <1>6 DEF SingletonStep

LEMMA SingletonKeeps ==
  ASSUME Shapes, NEW t \in Threads, SingletonStep(t), NEW F, \A f \in F : f.op \in {"apply", "factory"}
  PROVE  \A u \in Threads : Within(stack'[u], F) <=> Within(stack[u], F)
<1>1. PICK old, new, tops : /\ Turn(t, old, new, tops)
                            /\ \A f \in old \cup new : f.op \notin {"apply", "factory"}
  BY SingletonTurns
<1>2. \A f \in old \cup new : f \notin F
  BY <1>1
<1> QED
  BY <1>1, <1>2, TurnKeeps

LEMMA PatchSets ==
  /\ \A f \in Body : f.op = "apply"
  /\ \A f \in Factories : f.op = "factory"
  /\ Past \subseteq Factories /\ Popped \subseteq Factories /\ Guarded \subseteq Factories
  /\ \A f \in PastOrWeight : f.op \in {"apply", "factory"}
<1>1. \A f \in Body : f.op = "apply"
  BY DEF Body, FrameOf
<1>2. \A f \in Factories : f.op = "factory"
  BY DEF Factories, FrameOf
<1>3. Past \subseteq Factories
  BY DEF Past
<1>4. \A p, q : p \subseteq q => FrameOf("factory", p) \subseteq FrameOf("factory", q)
  BY DEF FrameOf
<1>5. Popped \subseteq Factories
  BY <1>4 DEF Popped, Factories
<1>6. Guarded \subseteq Factories
  BY <1>4 DEF Guarded, Factories
<1>7. Frame("apply", "weight").op = "apply"
  BY DEF Frame
<1> QED
  BY <1>1, <1>2, <1>3, <1>5, <1>6, <1>7 DEF PastOrWeight

LEMMA ShapesStep ==
  ASSUME Scalars, Shapes, [Next]_vars
  PROVE  Shapes'
<1>1. ASSUME NEW t \in Threads, \E old, new, tops : Turn(t, old, new, tops) PROVE Shapes'
  BY <1>1 DEF Turn
<1>2. ASSUME NEW t \in Threads, SingletonStep(t) PROVE Shapes'
  BY <1>1, <1>2, SingletonTurns
<1>3. ASSUME NEW t \in Threads, SingletonBegin(t) \/ PatchBegin(t) PROVE Shapes'
  <2>1. BeginTurns(t)
    BY <1>3, BeginActions
  <2>2. \E old, new, tops : Turn(t, old, new, tops)
    BY <2>1 DEF BeginTurns
  <2> QED
    BY <1>1, <2>2
<1>4. ASSUME NEW t \in Threads, PatchStep(t) PROVE Shapes'
  <2>a. ASSUME NEW op, NEW a, NEW v, NEW x, PopTurn(t, op, a, v, x) PROVE Shapes'
    BY <2>a, <1>1 DEF PopTurn
  <2>b. ASSUME NEW op, NEW a, NEW b, GoTurn(t, op, a, b) PROVE Shapes'
    BY <2>b, <1>1 DEF GoTurn
  <2>c. ASSUME NEW a, NEW m, Onward(t, a, m) \/ GetTurn(t, "apply", a, m) PROVE Shapes'
    BY <2>b, <2>c, <1>1 DEF Onward, GetTurn
  <2>1. CASE ApplyCached(t) \/ ApplyStart(t) \/ ApplyEmitter(t)
    BY <2>1, <2>a, <2>c, ApplyActions
  <2>2. CASE ApplyModule(t)
    <3>1. PICK i, m : i \in 1 .. 5 /\ ModuleStep(t, i, m)
      BY <2>2, ApplyModuleTurn
    <3>2. \/ \E v, x : PopTurn(t, "apply", m, v, x)
          \/ \E n : Onward(t, m, n)
      BY <3>1 DEF ModuleStep
    <3> QED
      BY <2>a, <2>c, <3>2
  <2>3. CASE FactoryPlain(t)
    <3>1. \/ \E a, v, x : PopTurn(t, "factory", a, v, x)
          \/ \E a, b : MoveTurn(t, a, b)
      BY <2>3, FactoryTurns
    <3> QED
      BY <2>a, <3>1, <1>1 DEF MoveTurn
  <2>5. CASE FactoryOriginal(t)
    <3>1. PICK a, b : OriginalStep(t, a, b)
      BY <2>5, FactoryOriginalTurn
    <3>2. \E old, new, tops : Turn(t, old, new, tops)
      BY <3>1 DEF OriginalStep, NestTurn, MoveTurn
    <3> QED
      BY <1>1, <3>2
  <2> QED
    BY <1>4, <2>1, <2>2, <2>3, <2>5 DEF PatchStep, FactoryPlain
<1>5. ASSUME stack' = stack PROVE Shapes'
  BY <1>5 DEF Shapes
<1>6. Reset \/ UNCHANGED vars => stack' = stack
  BY DEF Reset, vars, singletonVars, frameVars
<1>7. ASSUME NEW e \in Emitters, Background(e) PROVE stack' = stack
  BY <1>7 DEF Background, FlusherEnds, FlusherDies, CollectorSample, CollectorPut, CollectorEnds, frameVars
<1> QED
  BY <1>2, <1>3, <1>4, <1>5, <1>6, <1>7 DEF Next, ThreadStep

\* The wrappers.
LEMMA LayersStep ==
  ASSUME Scalars, Shapes, Layers, [Next]_vars
  PROVE  Layers'
<1>0. /\ done \in SUBSET Modules /\ layers \in [Modules -> Nat] /\ resets \in Nat
      /\ "connector" \in Modules
  BY PatchingAssumption DEF Scalars, Modules
<1>a. \A m \in Modules :
       /\ layers[m] <= IF Marked(m) THEN 1 ELSE resets + (IF m \in done THEN 1 ELSE 0)
       /\ m \in done => layers[m] > 0
  BY DEF Layers
<1>1. ASSUME UNCHANGED <<build, result, done, layers, resets>> PROVE Layers'
  BY <1>1 DEF Layers, Marked, IsVllm
<1>2. ASSUME NEW t \in Threads, ApplyModule(t) PROVE Layers'
  <2>1. PICK i, m : i \in 1 .. 5 /\ ModuleStep(t, i, m)
    BY <1>2, ApplyModuleTurn
  <2>2. CASE ApplyFails(t)
    BY <1>1, <2>2 DEF ApplyFails
  <2>3. CASE /\ done' = IF m \in done \/ FlagAfter(m) THEN done \cup {m} ELSE done
             /\ layers' = IF m \in build.present \ done THEN [layers EXCEPT ![m] = Layered(m)] ELSE layers
             /\ \/ UNCHANGED <<applyLock, result>>
                \/ result' = IF done' # {} THEN "applied" ELSE "nothing"
             /\ UNCHANGED <<onlyFrames, build, inFactory, env, resets, untraced>>
    <3>1. m \in Modules /\ UNCHANGED <<build, resets>>
      BY <2>1, <2>3 DEF ModuleStep
    <3>2. \A k \in Modules : Marked(k)' <=> Marked(k)
      BY <3>1 DEF Marked, IsVllm
    <3>3. ASSUME NEW k \in Modules, k # m PROVE layers'[k] = layers[k] /\ (k \in done' <=> k \in done)
      BY <1>0, <2>3, <3>3
    <3>4. done \subseteq done'
      BY <2>3
    <3>5. /\ layers'[m] <= IF Marked(m) THEN 1 ELSE resets + (IF m \in done' THEN 1 ELSE 0)
          /\ m \in done' => layers'[m] > 0
      <4>1. CASE m \in done
        <5>1. done' = done /\ layers' = layers
          BY <2>3, <4>1
        <5> QED
          BY <1>a, <3>1, <5>1
      <4>2. CASE m \notin done /\ m \notin build.present
        <5>1. done' = done /\ layers' = layers
          BY <2>3, <4>2 DEF FlagAfter
        <5> QED
          BY <1>a, <3>1, <5>1
      <4>3. CASE m \notin done /\ m \in build.present
        <5>1. layers'[m] = Layered(m)
          BY <1>0, <2>3, <3>1, <4>3
        <5>2. CASE Marked(m)
          <6>1. layers[m] \in Nat /\ layers[m] <= 1
            BY <1>0, <1>a, <3>1, <5>2
          <6>2. layers'[m] = 1
            BY <5>1, <5>2, <6>1 DEF Layered, MarkSeen
          <6> QED
            BY <5>2, <6>2
        <5>3. CASE ~Marked(m)
          <6>1. layers[m] \in Nat /\ layers[m] <= resets
            BY <1>0, <1>a, <3>1, <4>3, <5>3
          <6>2. layers'[m] = layers[m] + 1
            BY <5>1, <5>3 DEF Layered, MarkSeen
          <6>3. m # "weight"
            BY <5>3 DEF Marked
          <6>4. m \in done'
            BY <2>3, <4>3, <6>3 DEF FlagAfter
          <6> QED
            BY <1>0, <5>3, <6>1, <6>2, <6>4
        <5> QED
          BY <5>2, <5>3
      <4> QED
        BY <4>1, <4>2, <4>3
    <3>6. result' = "applied" => done' # {}
      BY <2>3, <3>4 DEF Layers
    <3>7. ASSUME NEW k \in Modules
          PROVE  /\ layers'[k] <= IF Marked(k) THEN 1 ELSE resets + (IF k \in done' THEN 1 ELSE 0)
                 /\ k \in done' => layers'[k] > 0
      BY <1>a, <3>3, <3>5
    <3> QED
      BY <3>1, <3>2, <3>6, <3>7 DEF Layers
  <2> QED
    BY <2>1, <2>2, <2>3 DEF ModuleStep
<1>3. ASSUME Reset PROVE Layers'
  <2>1. /\ resets' = resets + 1 /\ result' = "none" /\ done' = {} /\ build' = build
        /\ layers' = IF "connector" \in done THEN [layers EXCEPT !["connector"] = 0] ELSE layers
    BY <1>3 DEF Reset
  <2>2. \A k \in Modules : Marked(k)' <=> Marked(k)
    BY <2>1 DEF Marked, IsVllm
  <2>3. ASSUME NEW k \in Modules PROVE layers'[k] <= IF Marked(k) THEN 1 ELSE resets + 1
    <3>1. layers[k] \in Nat /\ (layers'[k] = layers[k] \/ layers'[k] = 0)
      BY <1>0, <2>1
    <3>2. CASE Marked(k)
      BY <1>a, <3>1, <3>2
    <3>3. CASE ~Marked(k)
      BY <1>0, <1>a, <3>1, <3>3
    <3> QED
      BY <3>2, <3>3
  <2>4. ASSUME NEW k \in Modules PROVE layers'[k] <= IF Marked(k)' THEN 1 ELSE resets' + (IF k \in done' THEN 1 ELSE 0)
    <3>1. resets' + 0 = resets + 1
      BY <1>0, <2>1
    <3>2. CASE Marked(k)
      BY <2>2, <2>3, <3>2
    <3>3. CASE ~Marked(k)
      BY <2>1, <2>2, <2>3, <3>1, <3>3
    <3> QED
      BY <3>2, <3>3
  <2> QED
    BY <2>1, <2>4 DEF Layers
<1>4. UNCHANGED patchVars \/ UNCHANGED vars => UNCHANGED <<build, result, done, layers, resets>>
  BY DEF vars, patchVars
<1>5. ASSUME NEW t \in Threads, PatchStep(t) PROVE ApplyModule(t) \/ UNCHANGED <<build, result, done, layers, resets>>
  BY <1>5 DEF PatchStep, ApplyCached, ApplyStart, ApplyEmitter, ApplyFails, FactoryLeaves, patchVars,
     FactoryDecide, FactoryLook, FactoryPop, FactoryGuard,
       FactoryOriginal, FactoryDirect, FactoryUnguard, FactoryRestore
<1> QED
  BY <1>1, <1>2, <1>3, <1>4, <1>5 DEF Next, ThreadStep

ApplyHeld == \A t \in Threads : applyLock = t <=> Within(stack[t], Body)

\* Steps that nobody goes into or out of apply()'s block with.
LEMMA ApplyQuiet ==
  ASSUME ApplyHeld, applyLock' = applyLock, \A u \in Threads : Within(stack'[u], Body) <=> Within(stack[u], Body)
  PROVE  ApplyHeld'
  BY DEF ApplyHeld

LEMMA ApplyOut ==
  ASSUME ApplyHeld, NEW t \in Threads, NEW m \in {"emitter"} \cup Modules, NEW v, NEW x,
         PopTurn(t, "apply", m, v, x), applyLock' = Nobody
  PROVE  ApplyHeld'
<1>1. /\ \A F : Within(stack[t], F) <=> Below(stack[t], F) \/ Frame("apply", m) \in F
      /\ \A F : Within(stack'[t], F) <=> Below(stack[t], F)
      /\ Below(stack[t], Body) => Frame("apply", m).op = "get"
      /\ \A u \in Threads : u # t => stack'[u] = stack[u]
  BY DEF PopTurn, Turn
<1>2. Frame("apply", m) \in Body /\ Frame("apply", m).op = "apply"
  BY DEF Body, FrameOf, Frame
<1>3. applyLock = t /\ ~Within(stack'[t], Body)
  BY <1>1, <1>2 DEF ApplyHeld
<1>4. \A u \in Threads : ~Within(stack'[u], Body)
  BY <1>1, <1>3 DEF ApplyHeld
<1> QED
  BY <1>4, SingletonAssumption DEF ApplyHeld

LEMMA ApplyIn ==
  ASSUME ApplyHeld, NEW t \in Threads, GetTurn(t, "apply", "wait", "emitter"),
         applyLock = Nobody, applyLock' = t
  PROVE  ApplyHeld'
<1>1. /\ \A F : Within(stack'[t], F) <=>
                  Below(stack[t], F) \/ \E f \in {Frame("apply", "emitter"), Frame("get", "check")} : f \in F
      /\ \A u \in Threads : u # t => stack'[u] = stack[u]
  BY DEF GetTurn, Turn
<1>2. Frame("apply", "emitter") \in Body
  BY DEF Body, FrameOf, Frame
<1>3. Within(stack'[t], Body)
  BY <1>1, <1>2
<1>4. \A u \in Threads : ~Within(stack[u], Body)
  BY SingletonAssumption DEF ApplyHeld
<1> QED
  BY <1>1, <1>3, <1>4 DEF ApplyHeld

\* A turn within apply() or within the factory.
LEMMA OnwardKeeps ==
  ASSUME NEW t \in Threads, NEW a, NEW m, Onward(t, a, m), NEW F,
         Frame("apply", a) \in F <=> Frame("apply", m) \in F, Frame("get", "check") \notin F
  PROVE  \A u \in Threads : Within(stack'[u], F) <=> Within(stack[u], F)
<1>1. CASE GoTurn(t, "apply", a, m)
  <2>1. Turn(t, {Frame("apply", a)}, {Frame("apply", m)}, {Frame("apply", m)})
    BY <1>1 DEF GoTurn
  <2> QED
    BY <2>1, TurnKeeps
<1>2. CASE GetTurn(t, "apply", a, m)
  <2>1. Turn(t, {Frame("apply", a)}, {Frame("apply", m), Frame("get", "check")}, {Frame("get", "check")})
    BY <1>2 DEF GetTurn
  <2>2. (\E f \in {Frame("apply", a)} : f \in F) <=> (\E f \in {Frame("apply", m), Frame("get", "check")} : f \in F)
    OBVIOUS
  <2> QED
    BY <2>1, <2>2, TurnKeeps
<1> QED
  BY <1>1, <1>2 DEF Onward

LEMMA GoKeeps ==
  ASSUME NEW t \in Threads, NEW op, NEW a, NEW b, GoTurn(t, op, a, b), NEW F,
         Frame(op, a) \in F <=> Frame(op, b) \in F
  PROVE  \A u \in Threads : Within(stack'[u], F) <=> Within(stack[u], F)
<1>1. Turn(t, {Frame(op, a)}, {Frame(op, b)}, {Frame(op, b)})
  BY DEF GoTurn
<1> QED
  BY <1>1, TurnKeeps

LEMMA PopKeeps ==
  ASSUME NEW t \in Threads, NEW op, NEW a, NEW v, NEW x, PopTurn(t, op, a, v, x), NEW F, Frame(op, a) \notin F
  PROVE  \A u \in Threads : Within(stack'[u], F) <=> Within(stack[u], F)
<1>1. Turn(t, {Frame(op, a)}, {}, {f \in Frames : Over(f, Frame(op, a))})
  BY DEF PopTurn
<1> QED
  BY <1>1, TurnKeeps

LEMMA MoveKeeps ==
  ASSUME NEW t \in Threads, NEW a, NEW b, MoveTurn(t, a, b), NEW F,
         Frame("factory", a) \in F <=> Frame("factory", b) \in F
  PROVE  \A u \in Threads : Within(stack'[u], F) <=> Within(stack[u], F)
<1>1. Turn(t, {Frame("factory", a)}, {Frame("factory", b)}, {Frame("factory", b)})
  BY DEF MoveTurn
<1> QED
  BY <1>1, TurnKeeps

LEMMA OriginalKeeps ==
  ASSUME NEW t \in Threads, NEW a, NEW b, OriginalStep(t, a, b), NEW F,
         Frame("factory", a) \in F <=> Frame("factory", b) \in F,
         Frame("factory", "decide") \notin F, Frame("apply", "wait") \notin F
  PROVE  \A u \in Threads : Within(stack'[u], F) <=> Within(stack[u], F)
<1>1. CASE MoveTurn(t, a, b)
  BY <1>1, MoveKeeps
<1>2. CASE NestTurn(t, a, b)
  <2>1. Turn(t, {Frame("factory", a)}, {Frame("factory", b), Frame("factory", "decide"), Frame("apply", "wait")},
             {Frame("apply", "wait")})
    BY <1>2 DEF NestTurn
  <2>2. (\E f \in {Frame("factory", a)} : f \in F) <=>
        (\E f \in {Frame("factory", b), Frame("factory", "decide"), Frame("apply", "wait")} : f \in F)
    OBVIOUS
  <2> QED
    BY <2>1, <2>2, TurnKeeps
<1> QED
  BY <1>1, <1>2 DEF OriginalStep

\* A step of the factory changes no set without its frames.
LEMMA FactoryKeeps ==
  ASSUME Shapes, Scalars, NEW t \in Threads, FactoryStep(t),
         NEW F, \A f \in F : f.op # "factory", Frame("apply", "wait") \notin F
  PROVE  \A u \in Threads : Within(stack'[u], F) <=> Within(stack[u], F)
<1>1. \A a : Frame("factory", a) \notin F
  BY DEF Frame
<1>2. CASE FactoryPlain(t)
  <2>1. \/ \E a, v, x : PopTurn(t, "factory", a, v, x)
        \/ \E a, b : MoveTurn(t, a, b)
    BY <1>2, FactoryTurns
  <2> QED
    BY <1>1, <2>1, PopKeeps, MoveKeeps
<1>4. CASE FactoryOriginal(t)
  BY <1>1, <1>4, FactoryOriginalTurn, OriginalKeeps
<1> QED
  BY <1>2, <1>4 DEF FactoryStep

LEMMA BeginKeeps ==
  ASSUME NEW t \in Threads, BeginTurns(t), NEW F,
         Frame("probe", "put") \notin F, Frame("get", "check") \notin F, Frame("shutdown", "wait") \notin F,
         Frame("apply", "wait") \notin F, Frame("factory", "decide") \notin F
  PROVE  \A u \in Threads : Within(stack'[u], F) <=> Within(stack[u], F)
<1>1. PICK new, tops : /\ Turn(t, {}, new, tops)
                       /\ new \subseteq {Frame("probe", "put"), Frame("get", "check"), Frame("shutdown", "wait"),
                                         Frame("apply", "wait"), Frame("factory", "decide")}
  BY DEF BeginTurns
<1>2. \A f \in new : f \notin F
  BY <1>1
<1> QED
  BY <1>1, <1>2, TurnKeeps

LEMMA FrameKinds ==
  /\ \A op, at : Frame(op, at) \in Body => op = "apply" /\ at # "wait"
  /\ \A op, at : Frame(op, at) \in Factories => op = "factory"
  /\ \A m \in Modules : Frame("apply", m) \in Body
  /\ Frame("apply", "emitter") \in Body
  BY DEF Frame, Body, Factories, FrameOf, Modules

LEMMA ApplyHeldStep ==
  ASSUME Shapes, Scalars, ApplyHeld, [Next]_vars
  PROVE  ApplyHeld'
<1>1. ASSUME NEW t \in Threads, SingletonStep(t), UNCHANGED patchVars PROVE ApplyHeld'
  <2>1. \A f \in Body : f.op \in {"apply", "factory"}
    BY PatchSets
  <2>2. \A u \in Threads : Within(stack'[u], Body) <=> Within(stack[u], Body)
    BY <1>1, <2>1, SingletonKeeps
  <2> QED
    BY <1>1, <2>2, ApplyQuiet DEF patchVars
<1>2. ASSUME NEW t \in Threads, SingletonBegin(t) \/ PatchBegin(t), UNCHANGED patchVars PROVE ApplyHeld'
  <2>1. BeginTurns(t)
    BY <1>2, BeginActions
  <2>2. \A u \in Threads : Within(stack'[u], Body) <=> Within(stack[u], Body)
    BY <2>1, FrameKinds, BeginKeeps
  <2> QED
    BY <1>2, <2>2, ApplyQuiet DEF patchVars
<1>3. ASSUME applyLock' = applyLock, stack' = stack PROVE ApplyHeld'
  BY <1>3 DEF ApplyHeld
<1>4. Reset \/ UNCHANGED vars => applyLock' = applyLock /\ stack' = stack
  BY DEF Reset, vars, singletonVars, frameVars, patchVars
<1>5. ASSUME NEW e \in Emitters, Background(e), UNCHANGED patchVars PROVE applyLock' = applyLock /\ stack' = stack
  BY <1>5 DEF Background, FlusherEnds, FlusherDies, CollectorSample, CollectorPut, CollectorEnds, frameVars, patchVars
<1>6. ASSUME NEW t \in Threads, PatchStep(t) PROVE ApplyHeld'
  <2>1. CASE ApplyCached(t)
    <3>1. PopTurn(t, "apply", "wait", 0, FALSE) /\ applyLock' = applyLock
      BY <2>1, ApplyActions DEF ApplyCached, patchVars
    <3> QED
      BY <3>1, FrameKinds, PopKeeps, ApplyQuiet
  <2>2. CASE ApplyStart(t)
    BY <2>2, ApplyActions, ApplyIn DEF ApplyStart
  <2>3. CASE ApplyEmitter(t)
    <3>1. CASE PopTurn(t, "apply", "emitter", 0, TRUE) /\ ApplyFails(t)
      BY <3>1, ApplyOut DEF ApplyFails, HeldAfterFailure
    <3>2. CASE \E m \in Modules : m = build.list[1] /\ Onward(t, "emitter", m) /\ UNCHANGED <<onlyFrames, patchVars>>
      <4>1. PICK m \in Modules : Onward(t, "emitter", m)
        BY <3>2
      <4>2. \A u \in Threads : Within(stack'[u], Body) <=> Within(stack[u], Body)
        BY <4>1, FrameKinds, OnwardKeeps
      <4>3. applyLock' = applyLock
        BY <3>2 DEF patchVars
      <4> QED
        BY <4>2, <4>3, ApplyQuiet
    <3> QED
      BY <2>3, <3>1, <3>2, ApplyActions
  <2>4. CASE ApplyModule(t)
    <3>1. PICK i, m : i \in 1 .. 5 /\ ModuleStep(t, i, m)
      BY <2>4, ApplyModuleTurn
    <3>2. m \in Modules
      BY <3>1 DEF ModuleStep
    <3>3. CASE \E v, x : PopTurn(t, "apply", m, v, x) /\ applyLock' = Nobody
      BY <3>2, <3>3, ApplyOut
    <3>4. CASE \E n \in Modules : Onward(t, m, n) /\ applyLock' = applyLock
      <4>1. PICK n \in Modules : Onward(t, m, n)
        BY <3>4
      <4>2. \A u \in Threads : Within(stack'[u], Body) <=> Within(stack[u], Body)
        BY <3>2, <4>1, FrameKinds, OnwardKeeps
      <4> QED
        BY <3>4, <4>2, ApplyQuiet
    <3> QED
      BY <3>1, <3>3, <3>4 DEF ModuleStep, ApplyFails, HeldAfterFailure
  <2>5. CASE FactoryStep(t)
    <3>1. applyLock' = applyLock
      BY <2>5 DEF FactoryStep, FactoryPlain, FactoryLeaves, FactoryDecide, FactoryLook, FactoryPop,
       FactoryGuard, FactoryOriginal, FactoryDirect, FactoryUnguard, FactoryRestore, patchVars
    <3>2. (\A f \in Body : f.op # "factory") /\ Frame("apply", "wait") \notin Body
      BY PatchSets, FrameKinds
    <3>3. \A u \in Threads : Within(stack'[u], Body) <=> Within(stack[u], Body)
      BY <2>5, <3>2, FactoryKeeps
    <3> QED
      BY <3>1, <3>3, ApplyQuiet
  <2> QED
    BY <1>6, <2>1, <2>2, <2>3, <2>4, <2>5 DEF PatchStep, FactoryStep, FactoryPlain
<1> QED
  BY <1>1, <1>2, <1>3, <1>4, <1>5, <1>6 DEF Next, ThreadStep

-----------------------------------------------------------------------------
(* The variable and the guard.                                             *)

\* Steps that no call goes into or out of the factory's marked places with.
LEMMA RestoredQuiet ==
  ASSUME Restored, UNCHANGED <<build, env, inFactory>>,
         \A u \in Threads : /\ Within(stack'[u], Factories) => Within(stack[u], Factories) \/ IsVllm
                            /\ Within(stack'[u], Popped) <=> Within(stack[u], Popped)
                            /\ Within(stack'[u], Guarded) <=> Within(stack[u], Guarded)
  PROVE  Restored'
  BY DEF Restored, IsVllm

LEMMA FactoryPlaces ==
  /\ \A at \in {"decide", "delegate", "pop", "guard, popped", "guard", "direct", "original, popped", "original",
                "after direct", "after, popped", "after", "restore"} : Frame("factory", at) \in Factories
  /\ \A at : Frame("factory", at) \in Popped <=>
               at \in {"guard, popped", "original, popped", "after, popped", "restore"}
  /\ \A at : Frame("factory", at) \in Guarded <=>
               at \in {"original, popped", "after, popped", "original", "after"}
  /\ \A at : Frame("factory", at) \in Past <=>
               at \in {"delegate", "pop", "guard, popped", "guard", "direct", "original, popped", "original",
                       "after direct", "after, popped", "after", "restore"}
  /\ \A op, at : op # "factory" => /\ Frame(op, at) \notin Factories /\ Frame(op, at) \notin Past
                                   /\ Frame(op, at) \notin Popped /\ Frame(op, at) \notin Guarded
<1>1. \A op, at : /\ Frame(op, at) \in Factories <=>
                       op = "factory" /\ at \in {"decide", "delegate", "pop", "guard, popped", "guard", "direct",
                                                 "original, popped", "original", "after direct",
                                                 "after, popped", "after", "restore"}
                  /\ Frame(op, at) \in Popped <=>
                       op = "factory" /\ at \in {"guard, popped", "original, popped", "after, popped", "restore"}
  BY Places
<1>2. \A op, at : /\ Frame(op, at) \in Guarded <=>
                       op = "factory" /\ at \in {"original, popped", "after, popped", "original", "after"}
                  /\ Frame(op, at) \in Past <=>
                       op = "factory" /\ at \in {"delegate", "pop", "guard, popped", "guard", "direct",
                                                 "original, popped", "original", "after direct",
                                                 "after, popped", "after", "restore"}
  BY Places
<1> QED
  BY <1>1, <1>2

\* Places of the factory where nothing is held.
LEMMA FreePlaces ==
  /\ Frame("factory", "decide") \notin Popped /\ Frame("factory", "decide") \notin Guarded
  /\ Frame("factory", "pop") \notin Popped /\ Frame("factory", "pop") \notin Guarded
  /\ Frame("factory", "after direct") \notin Popped /\ Frame("factory", "after direct") \notin Guarded
  BY DEF Frame, FrameOf, Popped, Guarded

\* Before a step of the factory, its frame is among the factory's.
LEMMA InFactory ==
  ASSUME Shapes, NEW t \in Threads, NEW a, At(t, "factory", a)
  PROVE  Within(stack[t], Factories)
<1>1. Topped(stack[t], Frame("factory", a))
  BY TopFacts
<1> PICK f : f = Frame("factory", a)
  OBVIOUS
<1>2. f \in Frames
  BY <1>1 DEF Topped, Shape
<1>3. f.op = "factory"
  BY DEF Frame
<1>4. f \in Factories
  <2>1. f \notin FrameOf("get", {"check", "wait", "manifest", "return"})
    BY <1>3 DEF FrameOf
  <2>2. f # Frame("probe", "put")
    BY <1>3 DEF Frame
  <2>3. f \notin FrameOf("shutdown", {"wait", "collector", "flusher"})
    BY <1>3 DEF FrameOf
  <2>4. f \notin FrameOf("apply", {"wait", "emitter"} \cup Modules)
    BY <1>3 DEF FrameOf
  <2> QED
    BY <1>2, <2>1, <2>2, <2>3, <2>4 DEF Frames
<1> QED
  BY <1>1, <1>4 DEF Topped

LEMMA RestoredFactory ==
  ASSUME Shapes, Scalars, Restored, NEW t \in Threads, FactoryStep(t)
  PROVE  Restored'
<1>0. IsVllm /\ build' = build
  <2>1. \E a : At(t, "factory", a)
    BY DEF FactoryStep, FactoryPlain, FactoryLeaves, FactoryDecide, FactoryLook, FactoryPop,
       FactoryGuard, FactoryOriginal, FactoryDirect, FactoryUnguard, FactoryRestore
  <2>2. Within(stack[t], Factories)
    BY <2>1, InFactory
  <2> QED
    BY <2>2 DEF Restored, FactoryStep, FactoryPlain, FactoryLeaves, FactoryDecide, FactoryLook, FactoryPop, FactoryGuard,
       FactoryOriginal, FactoryDirect, FactoryUnguard, FactoryRestore, patchVars
<1>1. CASE FactoryLeaves(t)
  <2>1. \E x : PopTurn(t, "factory", "decide", 0, x)
    BY <1>1, FactoryActions
  <2>2. \A F : Frame("factory", "decide") \notin F => \A u \in Threads : Within(stack'[u], F) <=> Within(stack[u], F)
    BY <2>1, PopKeeps
  <2>3. UNCHANGED <<build, env, inFactory>>
    BY <1>1 DEF FactoryLeaves, patchVars
  <2>4. Frame("factory", "decide") \notin Popped /\ Frame("factory", "decide") \notin Guarded
    BY FreePlaces
  <2> QED
    BY <1>0, <2>2, <2>3, <2>4, RestoredQuiet
<1>a. ASSUME NEW a, NEW b, MoveTurn(t, a, b), NEW F, Frame("factory", a) \in F <=> Frame("factory", b) \in F
      PROVE  \A u \in Threads : Within(stack'[u], F) <=> Within(stack[u], F)
  BY <1>a, MoveKeeps
<1>2. CASE FactoryDecide(t) \/ FactoryLook(t)
  <2>1. PICK a \in {"decide", "delegate"}, b \in {"direct", "delegate", "pop", "guard"} : MoveTurn(t, a, b)
    BY <1>2, FactoryActions, GoMoves
  <2>2. UNCHANGED <<build, env, inFactory>>
    BY <1>2 DEF FactoryDecide, FactoryLook, patchVars
  <2>3. /\ Frame("factory", a) \notin Popped /\ Frame("factory", a) \notin Guarded
        /\ Frame("factory", b) \notin Popped /\ Frame("factory", b) \notin Guarded
    BY FactoryPlaces
  <2>4. \A u \in Threads : /\ Within(stack'[u], Popped) <=> Within(stack[u], Popped)
                           /\ Within(stack'[u], Guarded) <=> Within(stack[u], Guarded)
    BY <1>a, <2>1, <2>3
  <2> QED
    BY <1>0, <2>2, <2>4, RestoredQuiet
<1>b. IsVllm'
  BY <1>0 DEF IsVllm
<1>7. CASE FactoryPop(t)
  <2>1. env' = FALSE /\ UNCHANGED inFactory
    BY <1>7 DEF FactoryPop
  <2>2. CASE GoTurn(t, "factory", "pop", "guard, popped")
    <3>1. Turn(t, {Frame("factory", "pop")}, {Frame("factory", "guard, popped")}, {Frame("factory", "guard, popped")})
      BY <2>2 DEF GoTurn
    <3>2. Within(stack'[t], Popped)
      <4>1. Frame("factory", "guard, popped") \in Popped
        BY FactoryPlaces
      <4> QED
        BY <3>1, <4>1 DEF Turn
    <3>3. \A u \in Threads : Within(stack'[u], Guarded) <=> Within(stack[u], Guarded)
      <4>1. Frame("factory", "pop") \notin Guarded /\ Frame("factory", "guard, popped") \notin Guarded
        BY FactoryPlaces
      <4> QED
        BY <2>2, <4>1, GoKeeps
    <3> QED
      BY <1>b, <2>1, <3>2, <3>3 DEF Restored
  <2>3. CASE ~env /\ PopTurn(t, "factory", "pop", NoConnector, FALSE)
    <3>1. Frame("factory", "pop") \notin Popped /\ Frame("factory", "pop") \notin Guarded
      BY FreePlaces
    <3>2. \A u \in Threads : /\ Within(stack'[u], Popped) <=> Within(stack[u], Popped)
                             /\ Within(stack'[u], Guarded) <=> Within(stack[u], Guarded)
      BY <2>3, <3>1, PopKeeps
    <3>3. env' = env
      BY <2>1, <2>3 DEF Scalars
    <3> QED
      BY <1>0, <2>1, <3>2, <3>3, RestoredQuiet
  <2> QED
    BY <1>7, <2>2, <2>3, FactoryActions
<1>c. ASSUME FactoryGuard(t), NEW a, NEW b, GoTurn(t, "factory", a, b), Frame("factory", b) \in Guarded,
             Frame("factory", a) \in Popped <=> Frame("factory", b) \in Popped
      PROVE  Restored'
  <2>1. Turn(t, {Frame("factory", a)}, {Frame("factory", b)}, {Frame("factory", b)})
    BY <1>c DEF GoTurn
  <2>2. env' = env /\ inFactory' = TRUE
    BY <1>c DEF FactoryGuard
  <2>3. Within(stack'[t], Guarded)
    BY <1>c, <2>1 DEF Turn
  <2>4. \A u \in Threads : Within(stack'[u], Popped) <=> Within(stack[u], Popped)
    BY <1>c, GoKeeps
  <2> QED
    BY <1>b, <1>0, <2>2, <2>3, <2>4 DEF Restored
<1>3. CASE FactoryGuard(t)
  <2>1. CASE GoTurn(t, "factory", "guard", "original")
    <3>1. /\ Frame("factory", "original") \in Guarded
          /\ Frame("factory", "guard") \notin Popped /\ Frame("factory", "original") \notin Popped
      BY DEF Frame, FrameOf, Guarded, Popped
    <3> QED
      BY <1>c, <1>3, <2>1, <3>1
  <2>2. CASE GoTurn(t, "factory", "guard, popped", "original, popped")
    <3>1. /\ Frame("factory", "original, popped") \in Guarded
          /\ Frame("factory", "guard, popped") \in Popped /\ Frame("factory", "original, popped") \in Popped
      BY DEF Frame, FrameOf, Guarded, Popped
    <3> QED
      BY <1>c, <1>3, <2>2, <3>1
  <2> QED
    BY <1>3, <2>1, <2>2, FactoryActions
<1>4. CASE FactoryOriginal(t)
  <2>1. PICK a, b : OriginalStep(t, a, b)
    BY <1>4, FactoryOriginalTurn
  <2>2. UNCHANGED <<build, env, inFactory>>
    BY <1>4 DEF FactoryOriginal, patchVars
  <2>3. <<a, b>> \in {<<"direct", "after direct">>, <<"original, popped", "after, popped">>, <<"original", "after">>}
    BY <2>1 DEF OriginalStep
  <2>4. /\ Frame("factory", a) \in Popped <=> Frame("factory", b) \in Popped
        /\ Frame("factory", a) \in Guarded <=> Frame("factory", b) \in Guarded
    BY <2>3, FactoryPlaces
  <2>5. /\ Frame("factory", "decide") \notin Popped /\ Frame("apply", "wait") \notin Popped
        /\ Frame("factory", "decide") \notin Guarded /\ Frame("apply", "wait") \notin Guarded
    BY FactoryPlaces, FreePlaces
  <2>6. \A u \in Threads : Within(stack'[u], Popped) <=> Within(stack[u], Popped)
    BY <2>1, <2>4, <2>5, OriginalKeeps
  <2>7. \A u \in Threads : Within(stack'[u], Guarded) <=> Within(stack[u], Guarded)
    BY <2>1, <2>4, <2>5, OriginalKeeps
  <2> QED
    BY <1>0, <2>2, <2>6, <2>7, RestoredQuiet
<1>5. CASE FactoryDirect(t)
  <2>1. \E v, x : PopTurn(t, "factory", "after direct", v, x)
    BY <1>5, FactoryActions
  <2>2. \A F : Frame("factory", "after direct") \notin F => \A u \in Threads : Within(stack'[u], F) <=> Within(stack[u], F)
    BY <2>1, PopKeeps
  <2>3. UNCHANGED <<build, env, inFactory>>
    BY <1>5 DEF FactoryDirect
  <2>4. Frame("factory", "after direct") \notin Popped /\ Frame("factory", "after direct") \notin Guarded
    BY FreePlaces
  <2> QED
    BY <1>0, <2>2, <2>3, <2>4, RestoredQuiet
<1>6. CASE FactoryUnguard(t)
  <2>1. inFactory' = FALSE /\ env' = env
    BY <1>6, FactoryActions DEF FactoryUnguard
  <2>2. Frame("factory", "after") \notin Popped
        /\ Frame("factory", "after, popped") \in Popped /\ Frame("factory", "restore") \in Popped
    BY FactoryPlaces
  <2>3. \A u \in Threads : Within(stack'[u], Popped) <=> Within(stack[u], Popped)
    BY <1>6, <2>2, FactoryActions, MoveKeeps, PopKeeps
  <2> QED
    BY <1>0, <1>b, <2>1, <2>3 DEF Restored
<1>8. CASE FactoryRestore(t)
  <2>1. env' = TRUE /\ UNCHANGED inFactory
    BY <1>8 DEF FactoryRestore
  <2>2. Frame("factory", "restore") \notin Guarded
    BY FactoryPlaces
  <2>3. \A u \in Threads : Within(stack'[u], Guarded) <=> Within(stack[u], Guarded)
    BY <1>8, <2>2, FactoryActions, PopKeeps
  <2> QED
    BY <1>b, <2>1, <2>3 DEF Restored
<1> QED
  BY <1>1, <1>2, <1>3, <1>4, <1>5, <1>6, <1>7, <1>8 DEF FactoryStep, FactoryPlain

\* apply() changes no set without its frames and a get()'s first.
LEMMA ApplyKeeps ==
  ASSUME Shapes, Scalars, NEW t \in Threads,
         ApplyCached(t) \/ ApplyStart(t) \/ ApplyEmitter(t) \/ ApplyModule(t),
         NEW F, \A at : Frame("apply", at) \notin F, Frame("get", "check") \notin F
  PROVE  \A u \in Threads : Within(stack'[u], F) <=> Within(stack[u], F)
<1>1. ASSUME NEW a, NEW v, NEW x, PopTurn(t, "apply", a, v, x)
      PROVE  \A u \in Threads : Within(stack'[u], F) <=> Within(stack[u], F)
  BY <1>1, PopKeeps
<1>2. ASSUME NEW a, NEW m, Onward(t, a, m) \/ GetTurn(t, "apply", a, m)
      PROVE  \A u \in Threads : Within(stack'[u], F) <=> Within(stack[u], F)
  <2>1. Onward(t, a, m)
    BY <1>2 DEF Onward
  <2> QED
    BY <2>1, OnwardKeeps
<1>3. CASE ApplyCached(t) \/ ApplyStart(t) \/ ApplyEmitter(t)
  BY <1>1, <1>2, <1>3, ApplyActions
<1>4. CASE ApplyModule(t)
  <2>1. PICK i, m : i \in 1 .. 5 /\ ModuleStep(t, i, m)
    BY <1>4, ApplyModuleTurn
  <2>2. \/ \E v, x : PopTurn(t, "apply", m, v, x)
        \/ \E n : Onward(t, m, n)
    BY <2>1 DEF ModuleStep
  <2> QED
    BY <1>1, <1>2, <2>2
<1> QED
  BY <1>3, <1>4

LEMMA RestoredBegin ==
  ASSUME Restored, NEW t \in Threads, BeginTurns(t), UNCHANGED patchVars
  PROVE  Restored'
<1>1. /\ Frame("probe", "put") \notin Popped /\ Frame("get", "check") \notin Popped
      /\ Frame("shutdown", "wait") \notin Popped /\ Frame("apply", "wait") \notin Popped
      /\ Frame("factory", "decide") \notin Popped
  BY FactoryPlaces, FreePlaces
<1>2. /\ Frame("probe", "put") \notin Guarded /\ Frame("get", "check") \notin Guarded
      /\ Frame("shutdown", "wait") \notin Guarded /\ Frame("apply", "wait") \notin Guarded
      /\ Frame("factory", "decide") \notin Guarded
  BY FactoryPlaces
<1>3. \A u \in Threads : Within(stack'[u], Popped) <=> Within(stack[u], Popped)
  BY <1>1, BeginKeeps
<1>4. \A u \in Threads : Within(stack'[u], Guarded) <=> Within(stack[u], Guarded)
  BY <1>2, BeginKeeps
<1>5. \A u \in Threads : Within(stack'[u], Factories) => Within(stack[u], Factories) \/ IsVllm
  <2> SUFFICES ASSUME ~IsVllm
      PROVE  \A u \in Threads : Within(stack'[u], Factories) <=> Within(stack[u], Factories)
    OBVIOUS
  <2>1. PICK new, tops : /\ Turn(t, {}, new, tops)
                         /\ new \subseteq {Frame("probe", "put"), Frame("get", "check"), Frame("shutdown", "wait"),
                                           Frame("apply", "wait")}
    BY DEF BeginTurns
  <2>2. /\ Frame("probe", "put") \notin Factories /\ Frame("get", "check") \notin Factories
        /\ Frame("shutdown", "wait") \notin Factories /\ Frame("apply", "wait") \notin Factories
    BY FactoryPlaces
  <2>3. \A f \in new : f \notin Factories
    BY <2>1, <2>2
  <2> QED
    BY <2>1, <2>3, TurnKeeps
<1>6. UNCHANGED <<build, env, inFactory>>
  BY DEF patchVars
<1> QED
  BY <1>3, <1>4, <1>5, <1>6, RestoredQuiet

LEMMA RestoredStep ==
  ASSUME Shapes, Scalars, Restored, [Next]_vars
  PROVE  Restored'
<1>a. /\ \A f \in Popped : f.op \in {"apply", "factory"}
      /\ \A f \in Guarded : f.op \in {"apply", "factory"}
      /\ \A f \in Factories : f.op \in {"apply", "factory"}
  BY PatchSets
<1>1. ASSUME NEW t \in Threads, SingletonStep(t), UNCHANGED patchVars PROVE Restored'
  <2>1. \A u \in Threads : /\ Within(stack'[u], Factories) <=> Within(stack[u], Factories)
                           /\ Within(stack'[u], Popped) <=> Within(stack[u], Popped)
                           /\ Within(stack'[u], Guarded) <=> Within(stack[u], Guarded)
    BY <1>a, <1>1, SingletonKeeps
  <2>2. UNCHANGED <<build, env, inFactory>>
    BY <1>1 DEF patchVars
  <2> QED
    BY <2>1, <2>2, RestoredQuiet
<1>2. ASSUME NEW t \in Threads, SingletonBegin(t) \/ PatchBegin(t), UNCHANGED patchVars PROVE Restored'
  BY <1>2, BeginActions, RestoredBegin
<1>3. ASSUME UNCHANGED <<build, env, inFactory>>, stack' = stack PROVE Restored'
  BY <1>3 DEF Restored, IsVllm
<1>4. Reset \/ UNCHANGED vars => UNCHANGED <<build, env, inFactory>> /\ stack' = stack
  BY DEF Reset, vars, singletonVars, frameVars, patchVars
<1>5. ASSUME NEW e \in Emitters, Background(e), UNCHANGED patchVars
      PROVE  UNCHANGED <<build, env, inFactory>> /\ stack' = stack
  BY <1>5 DEF Background, FlusherEnds, FlusherDies, CollectorSample, CollectorPut, CollectorEnds, frameVars, patchVars
<1>6. ASSUME NEW t \in Threads, ApplyCached(t) \/ ApplyStart(t) \/ ApplyEmitter(t) \/ ApplyModule(t) PROVE Restored'
  <2>1. /\ \A at : /\ Frame("apply", at) \notin Factories /\ Frame("apply", at) \notin Popped
                   /\ Frame("apply", at) \notin Guarded
        /\ Frame("get", "check") \notin Factories /\ Frame("get", "check") \notin Popped
        /\ Frame("get", "check") \notin Guarded
    BY FactoryPlaces
  <2>2. \A u \in Threads : /\ Within(stack'[u], Factories) <=> Within(stack[u], Factories)
                           /\ Within(stack'[u], Popped) <=> Within(stack[u], Popped)
                           /\ Within(stack'[u], Guarded) <=> Within(stack[u], Guarded)
    BY <1>6, <2>1, ApplyKeeps
  <2>3. UNCHANGED <<build, env, inFactory>>
    BY <1>6 DEF ApplyCached, ApplyStart, ApplyEmitter, ApplyModule, ApplyFails, patchVars
  <2> QED
    BY <2>2, <2>3, RestoredQuiet
<1>7. ASSUME NEW t \in Threads, PatchStep(t) PROVE Restored'
  BY <1>6, <1>7, RestoredFactory DEF PatchStep, FactoryStep, FactoryPlain
<1> QED
  BY <1>1, <1>2, <1>3, <1>4, <1>5, <1>7 DEF Next, ThreadStep

-----------------------------------------------------------------------------
(* The connector's wrapper.                                                *)

\* Nobody gets among the calls that are past the connector's site.
Shrinks(F) == \A u \in Threads : Within(stack'[u], F) => Within(stack[u], F)

\* Nobody comes back from apply() to the factory without an exception.
Undecided ==
  \A u \in Threads : At(u, "factory", "decide")' =>
    (At(u, "factory", "decide") /\ (raised'[u] <=> raised[u])) \/ raised'[u]

LEMMA WrapQuiet ==
  ASSUME Wrapping, UNCHANGED <<build, untraced, resets>>, Unwrapped' => Unwrapped /\ result' = result,
         Shrinks(Past), Shrinks(PastOrWeight), Undecided
  PROVE  Wrapping'
<1>1. \A t \in Threads : Within(stack'[t], Past) => "connector" \in build'.present
  BY DEF Wrapping, Shrinks
<1>2. resets' = 0 => ~untraced'
  BY DEF Wrapping
<1>3. ASSUME Unwrapped'
      PROVE  /\ result' = "none"
             /\ \A t \in Threads : ~Within(stack'[t], PastOrWeight)
             /\ \A t \in Threads : At(t, "factory", "decide")' => raised'[t]
  BY <1>3 DEF Wrapping, Shrinks, Undecided
<1> QED
  BY <1>1, <1>2, <1>3 DEF Wrapping

\* Once the site is wrapped, or cannot be, only the first two parts matter.
LEMMA WrapSettled ==
  ASSUME Wrapping, UNCHANGED <<build, untraced, resets>>, ~Unwrapped', Shrinks(Past)
  PROVE  Wrapping'
  BY DEF Wrapping, Shrinks

LEMMA StillUnwrapped ==
  ASSUME UNCHANGED <<build, resets, layers>>
  PROVE  Unwrapped' <=> Unwrapped
  BY DEF Unwrapped, IsVllm

LEMMA Undecides ==
  ASSUME Scalars, NEW t \in Threads, NEW old, NEW new, NEW tops, Turn(t, old, new, tops),
         NEW v, NEW x, Given(t, v, x), Frame("factory", "decide") \notin tops \/ x = TRUE
  PROVE  Undecided
<1> SUFFICES ASSUME NEW u \in Threads, At(u, "factory", "decide")'
    PROVE (At(u, "factory", "decide") /\ (raised'[u] <=> raised[u])) \/ raised'[u]
  BY DEF Undecided
<1>1. raised \in [Threads -> BOOLEAN]
  BY DEF Scalars
<1>2. CASE u = t
  <2>1. Frame("factory", "decide") \in tops
    BY <1>2, TurnAt
  <2>2. raised'[u] = TRUE
    BY <1>1, <1>2, <2>1 DEF Given
  <2> QED
    BY <2>2
<1>3. CASE u # t
  <2>1. At(u, "factory", "decide")
    BY <1>3, TurnAt
  <2>2. raised'[u] = raised[u]
    BY <1>1, <1>3 DEF Given
  <2> QED
    BY <2>1, <2>2
<1> QED
  BY <1>2, <1>3

LEMMA PopShrinks ==
  ASSUME NEW t \in Threads, NEW op, NEW a, NEW v, NEW x, PopTurn(t, op, a, v, x), NEW F
  PROVE  Shrinks(F)
<1>1. Turn(t, {Frame(op, a)}, {}, {f \in Frames : Over(f, Frame(op, a))})
  BY DEF PopTurn
<1> QED
  BY <1>1 DEF Turn, Shrinks

LEMMA PopUndecided ==
  ASSUME Scalars, NEW t \in Threads, NEW op, NEW a, NEW v, NEW x, PopTurn(t, op, a, v, x),
         op # "apply" \/ x = TRUE
  PROVE  Undecided
<1> PICK tops : tops = {f \in Frames : Over(f, Frame(op, a))}
  OBVIOUS
<1>1. Turn(t, {Frame(op, a)}, {}, tops)
  BY DEF PopTurn
<1>2. op # "apply" => Frame("factory", "decide") \notin tops
  <2>1. ASSUME op # "apply" PROVE ~Over(Frame("factory", "decide"), Frame(op, a))
    BY <2>1 DEF Over, Frame, FrameOf, Body
  <2> QED
    BY <2>1
<1>3. CASE Busy(t)'
  <2>1. Given(t, v, x)
    BY <1>3 DEF PopTurn
  <2> QED
    BY <1>1, <1>2, <2>1, Undecides
<1>4. CASE ~Busy(t)'
  <2> SUFFICES ASSUME NEW u \in Threads, At(u, "factory", "decide")'
      PROVE (At(u, "factory", "decide") /\ (raised'[u] <=> raised[u])) \/ raised'[u]
    BY DEF Undecided
  <2>1. u # t
    <3>1. stack'[t] = <<>>
      BY <1>4 DEF Busy
    <3>2. ~At(t, "factory", "decide")'
      BY <3>1 DEF At
    <3> QED
      BY <3>2
  <2>2. At(u, "factory", "decide")
    BY <1>1, <2>1, TurnAt
  <2>3. raised'[u] = raised[u]
    BY <1>4, <2>1 DEF PopTurn, Given, Scalars
  <2> QED
    BY <2>2, <2>3
<1> QED
  BY <1>3, <1>4

LEMMA GoUndecided ==
  ASSUME Scalars, NEW t \in Threads, NEW op, NEW a, NEW b, GoTurn(t, op, a, b), b # "decide"
  PROVE  Undecided
<1> PICK tops : tops = {Frame(op, b)}
  OBVIOUS
<1>1. Turn(t, {Frame(op, a)}, {Frame(op, b)}, tops) /\ Given(t, 0, FALSE)
  BY DEF GoTurn
<1>2. Frame("factory", "decide") \notin tops
  BY SameFrame
<1> QED
  BY <1>1, <1>2, Undecides

LEMMA OnwardUndecided ==
  ASSUME Scalars, NEW t \in Threads, NEW a, NEW m \in {"emitter"} \cup Modules,
         Onward(t, a, m) \/ GetTurn(t, "apply", a, m)
  PROVE  Undecided
<1>0. m # "decide"
  BY DEF Modules
<1>1. CASE GoTurn(t, "apply", a, m)
  BY <1>0, <1>1, GoUndecided
<1>2. CASE GetTurn(t, "apply", a, m)
  <2> PICK tops : tops = {Frame("get", "check")}
    OBVIOUS
  <2>1. Turn(t, {Frame("apply", a)}, {Frame("apply", m), Frame("get", "check")}, tops) /\ Given(t, 0, FALSE)
    BY <1>2 DEF GetTurn
  <2>2. Frame("factory", "decide") \notin tops
    BY SameFrame
  <2> QED
    BY <2>1, <2>2, Undecides
<1> QED
  BY <1>1, <1>2 DEF Onward

LEMMA PastPlaces ==
  /\ \A at : Frame("apply", at) \notin Past
  /\ \A at : Frame("apply", at) \in PastOrWeight <=> at = "weight"
  /\ \A at : Frame("factory", at) \in PastOrWeight <=> Frame("factory", at) \in Past
  /\ Frame("get", "check") \notin Past /\ Frame("get", "check") \notin PastOrWeight
  /\ Frame("probe", "put") \notin Past /\ Frame("probe", "put") \notin PastOrWeight
  /\ Frame("shutdown", "wait") \notin Past /\ Frame("shutdown", "wait") \notin PastOrWeight
  /\ Frame("factory", "decide") \notin Past /\ Frame("factory", "decide") \notin PastOrWeight
<1>1. \A op, at : op # "factory" => Frame(op, at) \notin Past
  BY FactoryPlaces
<1>2. \A op, at : Frame(op, at) = Frame("apply", "weight") <=> op = "apply" /\ at = "weight"
  BY SameFrame
<1>3. Frame("factory", "decide") \notin Past
  BY DEF Past
<1>4. \A op, at : Frame(op, at) \in PastOrWeight <=> Frame(op, at) \in Past \/ (op = "apply" /\ at = "weight")
  BY <1>2 DEF PastOrWeight
<1>5. /\ "get" # "factory" /\ "probe" # "factory" /\ "shutdown" # "factory" /\ "apply" # "factory"
      /\ "get" # "apply" /\ "probe" # "apply" /\ "shutdown" # "apply"
  OBVIOUS
<1> QED
  BY <1>1, <1>3, <1>4, <1>5

LEMMA KeepsShrinks ==
  ASSUME NEW F, \A u \in Threads : Within(stack'[u], F) <=> Within(stack[u], F)
  PROVE  Shrinks(F)
  BY DEF Shrinks

LEMMA OnwardShrinks ==
  ASSUME NEW t \in Threads, NEW a, NEW m, Onward(t, a, m) \/ GetTurn(t, "apply", a, m), NEW F,
         Frame("apply", m) \notin F, Frame("get", "check") \notin F
  PROVE  Shrinks(F)
<1>1. CASE GoTurn(t, "apply", a, m)
  <2>1. Turn(t, {Frame("apply", a)}, {Frame("apply", m)}, {Frame("apply", m)})
    BY <1>1 DEF GoTurn
  <2> QED
    BY <2>1 DEF Turn, Shrinks
<1>2. CASE GetTurn(t, "apply", a, m)
  <2>1. Turn(t, {Frame("apply", a)}, {Frame("apply", m), Frame("get", "check")}, {Frame("get", "check")})
    BY <1>2 DEF GetTurn
  <2> QED
    BY <2>1 DEF Turn, Shrinks
<1> QED
  BY <1>1, <1>2 DEF Onward

LEMMA MoveUndecided ==
  ASSUME Scalars, NEW t \in Threads, NEW a, NEW b, MoveTurn(t, a, b), b # "decide"
  PROVE  Undecided
<1> PICK tops : tops = {Frame("factory", b)}
  OBVIOUS
<1>1. /\ Turn(t, {Frame("factory", a)}, {Frame("factory", b)}, tops)
      /\ \E v \in Nat, x \in BOOLEAN : Given(t, v, x)
  BY DEF MoveTurn
<1>2. Frame("factory", "decide") \notin tops
  BY SameFrame
<1> QED
  BY <1>1, <1>2, Undecides

LEMMA OriginalUndecided ==
  ASSUME Scalars, NEW t \in Threads, NEW a, NEW b, OriginalStep(t, a, b)
  PROVE  Undecided
<1>1. b # "decide"
  <2>1. b \in {"after direct", "after, popped", "after"}
    BY DEF OriginalStep
  <2> QED
    BY <2>1
<1>2. CASE NestTurn(t, a, b)
  <2> PICK tops : tops = {Frame("apply", "wait")}
    OBVIOUS
  <2>1. /\ Turn(t, {Frame("factory", a)}, {Frame("factory", b), Frame("factory", "decide"), Frame("apply", "wait")}, tops)
        /\ Given(t, 0, FALSE)
    BY <1>2 DEF NestTurn
  <2>2. Frame("factory", "decide") \notin tops
    BY SameFrame
  <2> QED
    BY <2>1, <2>2, Undecides
<1>3. CASE MoveTurn(t, a, b)
  BY <1>1, <1>3, MoveUndecided
<1> QED
  BY <1>2, <1>3 DEF OriginalStep

\* apply() goes past the connector's site with a wrapper on it.
LEMMA WrappingModule ==
  ASSUME Shapes, Scalars, Layers, Wrapping, NEW t \in Threads, ApplyModule(t)
  PROVE  Wrapping'
<1> PICK i \in 1 .. 5 : \E m : ModuleStep(t, i, m)
  BY ApplyModuleTurn
<1>1. PICK m : ModuleStep(t, i, m)
  OBVIOUS
<1>2. m = build.list[i] /\ m \in Modules /\ build \in Build
  BY <1>1 DEF ModuleStep, Scalars
<1>3. i \in 1 .. Len(build.list)
  <2>1. 1 \in 1 .. Len(build.list)
    BY <1>2 DEF Build, VllmModules, SglangModules
  <2>2. Len(build.list) = 5
    BY <1>2, <2>1, Listed
  <2> QED
    BY <2>2
<1>4. /\ i = 5 <=> m = "weight"
      /\ IsVllm => (i = 4 <=> m = "connector")
  BY <1>2, <1>3, Listed
<1>5. CASE PopTurn(t, "apply", m, 0, TRUE) /\ ApplyFails(t)
  <2>1. UNCHANGED <<build, untraced, resets, layers, result>>
    BY <1>5 DEF ApplyFails
  <2>2. Shrinks(Past) /\ Shrinks(PastOrWeight) /\ Undecided
    BY <1>5, PopShrinks, PopUndecided
  <2> QED
    BY <2>1, <2>2, StillUnwrapped, WrapQuiet
<1>6. CASE /\ ~LacksEmitter(t, m)
           /\ done' = IF m \in done \/ FlagAfter(m) THEN done \cup {m} ELSE done
           /\ layers' = IF m \in build.present \ done THEN [layers EXCEPT ![m] = Layered(m)] ELSE layers
           /\ \/ /\ i < 5 /\ \E n \in Modules : n = build.list[i + 1] /\ Onward(t, m, n)
                 /\ UNCHANGED <<applyLock, result>>
              \/ /\ i = 5 /\ result' = IF done' # {} THEN "applied" ELSE "nothing"
                 /\ applyLock' = Nobody /\ PopTurn(t, "apply", m, 0, FALSE)
           /\ UNCHANGED <<onlyFrames, build, inFactory, env, resets, untraced>>
  <2>0. UNCHANGED <<build, untraced, resets>> /\ layers \in [Modules -> Nat] /\ "connector" \in Modules
    BY <1>6 DEF Scalars, Modules
  <2>1. Unwrapped' => Unwrapped
    <3> SUFFICES ASSUME Unwrapped' PROVE Unwrapped
      OBVIOUS
    <3>1. resets = 0 /\ IsVllm /\ "connector" \in build.present /\ layers'["connector"] = 0
      BY <2>0 DEF Unwrapped, IsVllm
    <3>2. layers'["connector"] = layers["connector"] \/ layers'["connector"] = layers["connector"] + 1
      BY <1>2, <1>6, <2>0 DEF Layered
    <3>3. layers["connector"] = 0
      BY <2>0, <3>1, <3>2
    <3> QED
      BY <3>1, <3>3 DEF Unwrapped
  <2>2. CASE i < 5 /\ UNCHANGED result /\ \E n \in Modules : n = build.list[i + 1] /\ Onward(t, m, n)
    <3>1. PICK n \in Modules : n = build.list[i + 1] /\ Onward(t, m, n)
      BY <2>2
    <3>2. Shrinks(Past) /\ Undecided
      BY <3>1, PastPlaces, OnwardShrinks, OnwardUndecided
    <3>3. CASE n # "weight"
      <4>1. Frame("apply", n) \notin PastOrWeight /\ Frame("get", "check") \notin PastOrWeight
        BY <3>3, PastPlaces
      <4>2. Shrinks(PastOrWeight)
        BY <3>1, <4>1, OnwardShrinks
      <4> QED
        BY <2>0, <2>1, <2>2, <3>2, <4>2, WrapQuiet
    <3>4. CASE n = "weight"
      <4>1. i = 4
        <5>1. i + 1 \in 1 .. Len(build.list)
          BY <1>2, <1>3, <2>2, Listed
        <5>2. i + 1 = 5
          BY <1>2, <3>1, <3>4, <5>1, Listed
        <5> QED
          BY <5>2
      <4>2. ~Unwrapped'
        <5> SUFFICES ASSUME Unwrapped' PROVE FALSE
          OBVIOUS
        <5>1. Unwrapped
          BY <2>1
        <5>2. m = "connector" /\ m \in build.present /\ layers[m] = 0
          BY <1>4, <4>1, <5>1 DEF Unwrapped
        <5>3. m \notin done
          <6>1. m \in done => layers[m] > 0
            BY <1>2 DEF Layers
          <6> QED
            BY <5>2, <6>1
        <5>4. layers'[m] = Layered(m)
          BY <1>2, <1>6, <2>0, <5>2, <5>3
        <5>5. layers'[m] = 1
          BY <5>2, <5>4 DEF Layered, MarkSeen
        <5> QED
          BY <5>2, <5>5 DEF Unwrapped
      <4> QED
        BY <2>0, <3>2, <4>2, WrapSettled
    <3> QED
      BY <3>3, <3>4
  <2>3. CASE i = 5 /\ PopTurn(t, "apply", m, 0, FALSE)
    <3>1. Within(stack[t], PastOrWeight)
      <4>1. Turn(t, {Frame("apply", m)}, {}, {f \in Frames : Over(f, Frame("apply", m))})
        BY <2>3 DEF PopTurn
      <4>2. Frame("apply", m) \in PastOrWeight
        BY <1>4, <2>3, PastPlaces
      <4> QED
        BY <4>1, <4>2 DEF Turn
    <3>2. ~Unwrapped'
      BY <2>1, <3>1 DEF Wrapping
    <3>3. Shrinks(Past)
      BY <2>3, PopShrinks
    <3> QED
      BY <2>0, <3>2, <3>3, WrapSettled
  <2> QED
    BY <1>6, <2>2, <2>3
<1> QED
  BY <1>1, <1>5, <1>6 DEF ModuleStep

LEMMA WrappingApply ==
  ASSUME Shapes, Scalars, Layers, Wrapping, NEW t \in Threads,
         ApplyCached(t) \/ ApplyStart(t) \/ ApplyEmitter(t) \/ ApplyModule(t)
  PROVE  Wrapping'
<1>1. CASE ApplyCached(t)
  <2>1. UNCHANGED <<build, untraced, resets, layers>> /\ result # "none"
    BY <1>1 DEF ApplyCached, patchVars
  <2>2. ~Unwrapped'
    BY <2>1, StillUnwrapped DEF Wrapping
  <2>3. Shrinks(Past)
    BY <1>1, ApplyActions, PopShrinks
  <2> QED
    BY <2>1, <2>2, <2>3, WrapSettled
<1>2. CASE ApplyStart(t)
  <2>1. UNCHANGED <<build, untraced, resets, layers, result>>
    BY <1>2 DEF ApplyStart
  <2>2. GetTurn(t, "apply", "wait", "emitter")
    BY <1>2, ApplyActions
  <2>3. Shrinks(Past) /\ Shrinks(PastOrWeight) /\ Undecided
    BY <2>2, PastPlaces, OnwardShrinks, OnwardUndecided
  <2> QED
    BY <2>1, <2>3, StillUnwrapped, WrapQuiet
<1>3. CASE ApplyEmitter(t)
  <2>1. CASE PopTurn(t, "apply", "emitter", 0, TRUE) /\ ApplyFails(t)
    <3>1. UNCHANGED <<build, untraced, resets, layers, result>>
      BY <2>1 DEF ApplyFails
    <3>2. Shrinks(Past) /\ Shrinks(PastOrWeight) /\ Undecided
      BY <2>1, PopShrinks, PopUndecided
    <3> QED
      BY <3>1, <3>2, StillUnwrapped, WrapQuiet
  <2>2. CASE \E m \in Modules : m = build.list[1] /\ Onward(t, "emitter", m) /\ UNCHANGED <<onlyFrames, patchVars>>
    <3>1. PICK m \in Modules : m = build.list[1] /\ Onward(t, "emitter", m)
      BY <2>2
    <3>2. m # "weight"
      <4>1. build.list \in {VllmModules, SglangModules}
        BY DEF Scalars, Build
      <4> QED
        BY <3>1, <4>1 DEF VllmModules, SglangModules
    <3>3. Shrinks(Past) /\ Shrinks(PastOrWeight) /\ Undecided
      BY <3>1, <3>2, PastPlaces, OnwardShrinks, OnwardUndecided
    <3>4. UNCHANGED <<build, untraced, resets, layers, result>>
      BY <2>2 DEF patchVars
    <3> QED
      BY <3>3, <3>4, StillUnwrapped, WrapQuiet
  <2> QED
    BY <1>3, <2>1, <2>2, ApplyActions
<1> QED
  BY <1>1, <1>2, <1>3, WrappingModule

LEMMA WrappingFactory ==
  ASSUME Shapes, Scalars, Restored, Wrapping, NEW t \in Threads, FactoryStep(t)
  PROVE  Wrapping'
<1>0. UNCHANGED <<build, resets, layers, result>> /\ (FactoryDirect(t) \/ FactoryUnguard(t) \/ FactoryRestore(t) \/ UNCHANGED untraced)
  BY DEF FactoryStep, FactoryPlain, FactoryLeaves, FactoryDecide, FactoryLook, FactoryPop,
       FactoryGuard, FactoryOriginal, FactoryDirect, FactoryUnguard, FactoryRestore, patchVars
<1>a. "factory" # "apply"
  OBVIOUS
<1>1. CASE FactoryLeaves(t)
  <2>1. PICK x : PopTurn(t, "factory", "decide", 0, x)
    BY <1>1, FactoryActions
  <2>2. Shrinks(Past) /\ Shrinks(PastOrWeight) /\ Undecided
    BY <1>a, <2>1, PopShrinks, PopUndecided
  <2>3. UNCHANGED untraced
    BY <1>1 DEF FactoryLeaves, patchVars
  <2> QED
    BY <1>0, <2>2, <2>3, StillUnwrapped, WrapQuiet
<1>2. CASE FactoryDecide(t)
  <2>1. At(t, "factory", "decide") /\ ~raised[t] /\ "connector" \in build.present /\ UNCHANGED untraced
    BY <1>2 DEF FactoryDecide, patchVars
  <2>2. ~Unwrapped'
    BY <1>0, <2>1, StillUnwrapped DEF Wrapping
  <2> QED
    BY <1>0, <2>1, <2>2 DEF Wrapping
<1>b. ASSUME NEW a, NEW b, MoveTurn(t, a, b), Frame("factory", a) \in Past, Frame("factory", b) \in Past,
             UNCHANGED untraced
      PROVE  Wrapping'
  <2>1. Frame("factory", a) \in PastOrWeight /\ Frame("factory", b) \in PastOrWeight
    BY <1>b, PastPlaces
  <2>2. Shrinks(Past) /\ Shrinks(PastOrWeight)
    BY <1>b, <2>1, MoveKeeps, KeepsShrinks
  <2>3. b # "decide"
    BY <1>b, PastPlaces
  <2>4. Undecided
    BY <1>b, <2>3, MoveUndecided
  <2> QED
    BY <1>0, <1>b, <2>2, <2>4, StillUnwrapped, WrapQuiet
<1>c. ASSUME NEW a, NEW v, PopTurn(t, "factory", a, v, FALSE), UNCHANGED untraced PROVE Wrapping'
  <2>1. Shrinks(Past) /\ Shrinks(PastOrWeight) /\ Undecided
    BY <1>a, <1>c, PopShrinks, PopUndecided
  <2> QED
    BY <1>0, <1>c, <2>1, StillUnwrapped, WrapQuiet
<1>d. \A a \in {"delegate", "pop", "guard", "guard, popped", "original", "original, popped"} :
        Frame("factory", a) \in Past
  BY FactoryPlaces
<1>3. CASE FactoryLook(t) \/ FactoryGuard(t)
  <2>1. UNCHANGED untraced
    BY <1>3 DEF FactoryLook, FactoryGuard, patchVars
  <2>2. CASE FactoryLook(t)
    <3>1. PICK b \in {"pop", "guard"} : GoTurn(t, "factory", "delegate", b)
      BY <2>2, FactoryActions
    <3>2. MoveTurn(t, "delegate", b)
      BY <3>1, GoMoves
    <3> QED
      BY <1>b, <1>d, <2>1, <3>2
  <2>3. CASE FactoryGuard(t)
    <3>1. MoveTurn(t, "guard", "original") \/ MoveTurn(t, "guard, popped", "original, popped")
      BY <2>3, FactoryActions, GoMoves
    <3> QED
      BY <1>b, <1>d, <2>1, <3>1
  <2> QED
    BY <1>3, <2>2, <2>3
<1>6. CASE FactoryPop(t)
  <2>1. UNCHANGED untraced
    BY <1>6 DEF FactoryPop
  <2>2. CASE GoTurn(t, "factory", "pop", "guard, popped")
    <3>1. Frame("factory", "pop") \in Past /\ Frame("factory", "guard, popped") \in Past
      BY FactoryPlaces
    <3> QED
      BY <1>b, <2>1, <2>2, <3>1, GoMoves
  <2>3. CASE PopTurn(t, "factory", "pop", NoConnector, FALSE)
    BY <1>c, <2>1, <2>3
  <2> QED
    BY <1>6, <2>2, <2>3, FactoryActions
<1>4. CASE FactoryOriginal(t)
  <2>1. PICK a, b : OriginalStep(t, a, b)
    BY <1>4, FactoryOriginalTurn
  <2>2. <<a, b>> \in {<<"direct", "after direct">>, <<"original, popped", "after, popped">>, <<"original", "after">>}
    BY <2>1 DEF OriginalStep
  <2>3. Frame("factory", a) \in Past /\ Frame("factory", b) \in Past
    BY <2>2, FactoryPlaces
  <2>4. Frame("factory", a) \in PastOrWeight /\ Frame("factory", b) \in PastOrWeight
    BY <2>3, PastPlaces
  <2>5. /\ Frame("factory", "decide") \notin Past /\ Frame("apply", "wait") \notin Past
        /\ Frame("factory", "decide") \notin PastOrWeight /\ Frame("apply", "wait") \notin PastOrWeight
    BY PastPlaces
  <2>6. Shrinks(Past) /\ Shrinks(PastOrWeight)
    BY <2>1, <2>3, <2>4, <2>5, OriginalKeeps, KeepsShrinks
  <2>7. Undecided /\ UNCHANGED untraced
    BY <1>4, <2>1, OriginalUndecided DEF FactoryOriginal, patchVars
  <2> QED
    BY <1>0, <2>6, <2>7, StillUnwrapped, WrapQuiet
<1>5. CASE FactoryDirect(t)
  <2>1. PICK v \in Nat, x \in BOOLEAN :
          /\ v = Bare => ~(layers["connector"] > 0)
          /\ PopTurn(t, "factory", "after direct", v, x)
          /\ untraced' = (untraced \/ (Len(stack[t]) = 1 /\ v = Bare))
    BY <1>5, FactoryActions
  <2>2. Shrinks(Past) /\ Shrinks(PastOrWeight) /\ Undecided
    BY <1>a, <2>1, PopShrinks, PopUndecided
  <2>3. Within(stack[t], Past) /\ Within(stack[t], PastOrWeight)
    <3>1. Turn(t, {Frame("factory", "after direct")}, {}, {f \in Frames : Over(f, Frame("factory", "after direct"))})
      BY <2>1 DEF PopTurn
    <3>2. Frame("factory", "after direct") \in Past
      BY FactoryPlaces
    <3> QED
      BY <3>1, <3>2, PastPlaces DEF Turn
  <2>4. IsVllm
    <3>1. At(t, "factory", "after direct")
      BY <1>5 DEF FactoryDirect
    <3> QED
      BY <3>1, InFactory DEF Restored
  <2>5. ~Unwrapped
    BY <2>3 DEF Wrapping
  <2>6. resets = 0 => v # Bare
    <3> SUFFICES ASSUME resets = 0, v = Bare PROVE FALSE
      OBVIOUS
    <3>1. layers["connector"] \in Nat /\ ~(layers["connector"] > 0)
      BY <2>1 DEF Scalars, Modules
    <3>2. layers["connector"] = 0
      BY <3>1
    <3> QED
      BY <2>3, <2>4, <2>5, <3>2 DEF Wrapping, Unwrapped
  <2>7. resets' = 0 => ~untraced'
    BY <1>0, <2>1, <2>6 DEF Wrapping
  <2>8. ~Unwrapped'
    BY <1>0, <2>5, StillUnwrapped
  <2> QED
    BY <1>0, <2>2, <2>7, <2>8 DEF Wrapping, Shrinks
<1>7. CASE FactoryUnguard(t)
  <2>1. UNCHANGED untraced
    BY <1>7, FactoryActions
  <2>2. Frame("factory", "after, popped") \in Past /\ Frame("factory", "restore") \in Past
    BY FactoryPlaces
  <2> QED
    BY <1>7, <1>b, <1>c, <2>1, <2>2, FactoryActions
<1>8. CASE FactoryRestore(t)
  BY <1>8, <1>c, FactoryActions
<1> QED
  BY <1>1, <1>2, <1>3, <1>4, <1>5, <1>6, <1>7, <1>8 DEF FactoryStep, FactoryPlain

\* What a step of the emitter's calls leaves to the caller.
LEMMA SingletonUndecided ==
  ASSUME Shapes, Scalars, NEW t \in Threads, SingletonStep(t)
  PROVE  Undecided
<1>a. "get" # "apply" /\ "probe" # "apply" /\ "shutdown" # "apply"
  OBVIOUS
<1>1. CASE Get(t)
  <2>1. \/ \E b \in {"return", "wait", "manifest"} : \E a : GoTurn(t, "get", a, b)
        \/ \E a, v, x : PopTurn(t, "get", a, v, x)
    BY <1>1, GetActions DEF Get
  <2> QED
    BY <1>a, <2>1, GoUndecided, PopUndecided
<1>2. CASE ProbePut(t)
  <2>1. \E x : PopTurn(t, "probe", "put", 0, x)
    BY <1>2, ProbeActions
  <2> QED
    BY <1>a, <2>1, PopUndecided
<1>3. CASE Shutdown(t)
  <2>1. \/ \E b \in {"collector", "flusher"} : \E a : GoTurn(t, "shutdown", a, b)
        \/ \E a, v, x : PopTurn(t, "shutdown", a, v, x)
    BY <1>3, ProbeActions DEF Shutdown
  <2> QED
    BY <1>a, <2>1, GoUndecided, PopUndecided
<1> QED
  BY <1>1, <1>2, <1>3 DEF SingletonStep

LEMMA BeginUndecided ==
  ASSUME NEW t \in Threads, BeginTurns(t)
  PROVE  Undecided
<1>1. PICK old, new, tops : /\ Turn(t, old, new, tops)
                            /\ tops \subseteq {Frame("get", "check"), Frame("shutdown", "wait"), Frame("apply", "wait")}
  BY DEF BeginTurns
<1>2. Frame("factory", "decide") \notin tops
  BY <1>1, SameFrame
<1>3. \A u \in Threads : At(u, "factory", "decide")' => At(u, "factory", "decide")
  BY <1>1, <1>2, TurnAt
<1> QED
  BY <1>3 DEF Undecided, BeginTurns

LEMMA WrappingStep ==
  ASSUME Shapes, Scalars, Layers, Restored, Wrapping, [Next]_vars
  PROVE  Wrapping'
<1>1. ASSUME NEW t \in Threads, SingletonStep(t), UNCHANGED patchVars PROVE Wrapping'
  <2>1. (\A f \in Past : f.op \in {"apply", "factory"}) /\ \A f \in PastOrWeight : f.op \in {"apply", "factory"}
    BY PatchSets
  <2>2. Shrinks(Past) /\ Shrinks(PastOrWeight)
    BY <1>1, <2>1, SingletonKeeps, KeepsShrinks
  <2>3. Undecided /\ UNCHANGED <<build, untraced, resets, layers, result>>
    BY <1>1, SingletonUndecided DEF patchVars
  <2> QED
    BY <2>2, <2>3, StillUnwrapped, WrapQuiet
<1>2. ASSUME NEW t \in Threads, SingletonBegin(t) \/ PatchBegin(t), UNCHANGED patchVars PROVE Wrapping'
  <2>1. BeginTurns(t)
    BY <1>2, BeginActions
  <2>2. Frame("apply", "wait") \notin Past /\ Frame("apply", "wait") \notin PastOrWeight
    BY PastPlaces
  <2>3. Shrinks(Past) /\ Shrinks(PastOrWeight)
    BY <2>1, <2>2, PastPlaces, BeginKeeps, KeepsShrinks
  <2>4. Undecided /\ UNCHANGED <<build, untraced, resets, layers, result>>
    BY <1>2, <2>1, BeginUndecided DEF patchVars
  <2> QED
    BY <2>3, <2>4, StillUnwrapped, WrapQuiet
<1>3. ASSUME UNCHANGED patchVars, stack' = stack, raised' = raised PROVE Wrapping'
  <2>1. Shrinks(Past) /\ Shrinks(PastOrWeight) /\ Undecided
    BY <1>3 DEF Shrinks, Undecided, At
  <2> QED
    BY <1>3, <2>1, StillUnwrapped, WrapQuiet DEF patchVars
<1>4. UNCHANGED vars => UNCHANGED patchVars /\ stack' = stack /\ raised' = raised
  BY DEF vars, singletonVars, frameVars
<1>5. ASSUME NEW e \in Emitters, Background(e) PROVE stack' = stack /\ raised' = raised
  BY <1>5 DEF Background, FlusherEnds, FlusherDies, CollectorSample, CollectorPut, CollectorEnds, frameVars
<1>6. ASSUME Reset PROVE Wrapping'
  <2>1. resets' # 0
    BY <1>6 DEF Reset, Scalars
  <2>2. stack' = stack /\ build' = build
    BY <1>6 DEF Reset, singletonVars, frameVars
  <2> QED
    BY <2>1, <2>2 DEF Wrapping, Unwrapped
<1>7. ASSUME NEW t \in Threads, PatchStep(t) PROVE Wrapping'
  BY <1>7, WrappingApply, WrappingFactory DEF PatchStep, FactoryStep, FactoryPlain
<1> QED
  BY <1>1, <1>2, <1>3, <1>4, <1>5, <1>6, <1>7 DEF Next, ThreadStep

-----------------------------------------------------------------------------
(* Types.                                                                  *)

FrameTypes == ret \in [Threads -> Nat] /\ raised \in [Threads -> BOOLEAN]

EmitterTypes ==
  /\ current \in 0 .. made /\ lock \in Threads \cup {Nobody}
  /\ made \in 0 .. MaxEmitters
  /\ flusher \in [Emitters -> {"none", "running", "done", "dead"}]
  /\ collector \in [Emitters -> {"none", "running", "sampling", "done"}]
  /\ stops \in [Emitters -> SUBSET {"collector", "flusher"}]
  /\ late \in [Emitters -> SUBSET RecordKinds]
  /\ calls \in 0 .. MaxCalls /\ overlapped \in SUBSET Threads /\ gaveUp \in BOOLEAN

PatchTypes ==
  /\ build \in Build /\ applyLock \in Threads \cup {Nobody}
  /\ result \in {"none", "applied", "nothing"}
  /\ done \in SUBSET Modules /\ layers \in [Modules -> Nat]
  /\ inFactory \in BOOLEAN /\ env \in BOOLEAN /\ untraced \in BOOLEAN
  /\ resets \in 0 .. MaxResets

LEMMA ScalarParts ==
  Scalars <=> FrameTypes /\ EmitterTypes /\ PatchTypes
  BY DEF Scalars, FrameTypes, EmitterTypes, PatchTypes

LEMMA ScalarsAfter ==
  FrameTypes' /\ EmitterTypes' /\ PatchTypes' => Scalars'
  BY DEF Scalars, FrameTypes, EmitterTypes, PatchTypes

LEMMA GivenTypes ==
  ASSUME FrameTypes, NEW t \in Threads, NEW v \in Nat, NEW x \in BOOLEAN, Given(t, v, x)
  PROVE  FrameTypes'
  BY DEF FrameTypes, Given

LEMMA GoTypes ==
  ASSUME FrameTypes, NEW t \in Threads, NEW op, NEW a, NEW b,
         GoTurn(t, op, a, b) \/ GetTurn(t, op, a, b)
  PROVE  FrameTypes'
<1>1. Given(t, 0, FALSE)
  BY DEF GoTurn, GetTurn
<1> QED
  BY <1>1, GivenTypes

LEMMA PopTypes ==
  ASSUME FrameTypes, NEW t \in Threads, NEW op, NEW a, NEW v \in Nat, NEW x \in BOOLEAN, PopTurn(t, op, a, v, x)
  PROVE  FrameTypes'
<1>1. Given(t, v, x) \/ Given(t, 0, FALSE)
  BY DEF PopTurn
<1> QED
  BY <1>1, GivenTypes

LEMMA SingletonReturns ==
  ASSUME Shapes, Scalars, NEW t \in Threads, SingletonStep(t)
  PROVE  FrameTypes'
<1>0. FrameTypes /\ current \in Nat
  BY ScalarParts DEF Scalars
<1>1. CASE Get(t)
  <2>1. \/ \E a, b : GoTurn(t, "get", a, b)
        \/ \E a : \E v \in Nat, x \in BOOLEAN : PopTurn(t, "get", a, v, x)
    <3>1. CASE GetReturn(t)
      <4>1. PICK v : v = current /\ PopTurn(t, "get", "return", v, FALSE)
        BY <3>1, GetActions
      <4> QED
        BY <1>0, <4>1
    <3>2. CASE GetFails(t)
      <4>1. PopTurn(t, "get", "wait", 0, TRUE)
        BY <3>2, GetActions
      <4> QED
        BY <4>1
    <3>3. CASE GetManifest(t)
      <4>1. GoTurn(t, "get", "manifest", "return") \/ PopTurn(t, "get", "manifest", 0, TRUE)
        BY <3>3, GetActions
      <4> QED
        BY <4>1
    <3>4. CASE GetCheck(t) \/ GetFound(t) \/ GetCreate(t)
      BY <3>4, GetActions
    <3> QED
      BY <1>1, <3>1, <3>2, <3>3, <3>4 DEF Get
  <2> QED
    BY <1>0, <2>1, GoTypes, PopTypes
<1>2. CASE ProbePut(t)
  <2>1. PICK x \in BOOLEAN : PopTurn(t, "probe", "put", 0, x)
    BY <1>2, ProbeActions
  <2> QED
    BY <1>0, <2>1, PopTypes
<1>3. CASE Shutdown(t)
  <2>1. (\E a, b : GoTurn(t, "shutdown", a, b)) \/ (\E a : PopTurn(t, "shutdown", a, 0, FALSE))
    BY <1>3, ProbeActions DEF Shutdown
  <2> QED
    BY <1>0, <2>1, GoTypes, PopTypes
<1> QED
  BY <1>1, <1>2, <1>3 DEF SingletonStep

LEMMA PatchReturns ==
  ASSUME Shapes, Scalars, NEW t \in Threads, PatchStep(t)
  PROVE  FrameTypes'
<1>0. FrameTypes
  BY ScalarParts
<1>a. ASSUME NEW a, NEW m, Onward(t, a, m) PROVE FrameTypes'
  BY <1>0, <1>a, GoTypes DEF Onward
<1>1. CASE ApplyCached(t)
  <2>1. PopTurn(t, "apply", "wait", 0, FALSE)
    BY <1>1, ApplyActions
  <2> QED
    BY <1>0, <2>1, PopTypes
<1>2. CASE ApplyStart(t)
  <2>1. GetTurn(t, "apply", "wait", "emitter")
    BY <1>2, ApplyActions
  <2> QED
    BY <1>0, <2>1, GoTypes
<1>3. CASE ApplyEmitter(t)
  <2>1. PopTurn(t, "apply", "emitter", 0, TRUE) \/ \E m : Onward(t, "emitter", m)
    BY <1>3, ApplyActions
  <2> QED
    BY <1>0, <1>a, <2>1, PopTypes
<1>4. CASE ApplyModule(t)
  <2>1. PICK i, m : i \in 1 .. 5 /\ ModuleStep(t, i, m)
    BY <1>4, ApplyModuleTurn
  <2>2. \/ \E x \in BOOLEAN : PopTurn(t, "apply", m, 0, x)
        \/ \E n : Onward(t, m, n)
    BY <2>1 DEF ModuleStep
  <2> QED
    BY <1>0, <1>a, <2>2, PopTypes
<1>5. CASE \E a, b : MoveTurn(t, a, b)
  <2>1. \E v \in Nat, x \in BOOLEAN : Given(t, v, x)
    BY <1>5 DEF MoveTurn
  <2> QED
    BY <1>0, <2>1, GivenTypes
<1>6. CASE FactoryPlain(t)
  <2>1. CASE \E a : \E v \in Nat, x \in BOOLEAN : PopTurn(t, "factory", a, v, x)
    BY <1>0, <2>1, PopTypes
  <2> QED
    BY <1>5, <1>6, <2>1, FactoryTurns
<1>7. CASE FactoryOriginal(t)
  <2>1. PICK a, b : OriginalStep(t, a, b)
    BY <1>7, FactoryOriginalTurn
  <2>2. \E v \in Nat, x \in BOOLEAN : Given(t, v, x)
    BY <2>1 DEF OriginalStep, NestTurn, MoveTurn
  <2> QED
    BY <1>0, <2>2, GivenTypes
<1> QED
  BY <1>1, <1>2, <1>3, <1>4, <1>6, <1>7 DEF PatchStep, FactoryPlain

LEMMA PutTypes ==
  ASSUME EmitterTypes, NEW e, NEW k \in RecordKinds, Put(e, k)
  PROVE  late' \in [Emitters -> SUBSET RecordKinds]
  BY DEF EmitterTypes, Put

LEMMA EmitterTypesGet ==
  ASSUME EmitterTypes, NEW t \in Threads, Get(t)
  PROVE  EmitterTypes'
<1>1. CASE GetCheck(t) \/ GetFound(t) \/ GetFails(t) \/ GetReturn(t)
  BY <1>1 DEF EmitterTypes, GetCheck, GetFound, GetFails, GetReturn, emitterVars
<1>2. CASE GetCreate(t)
  <2>1. made' = made + 1 /\ current' = made + 1 /\ made < MaxEmitters /\ made \in Nat /\ MaxEmitters \in Nat
    BY <1>2, SingletonAssumption DEF EmitterTypes, GetCreate
  <2>2. current' \in 0 .. made' /\ made' \in 0 .. MaxEmitters
    BY <2>1
  <2>3. /\ flusher' \in [Emitters -> {"none", "running", "done", "dead"}]
        /\ collector' \in [Emitters -> {"none", "running", "sampling", "done"}]
    BY <1>2 DEF EmitterTypes, GetCreate
  <2>4. lock' \in Threads \cup {Nobody} /\ UNCHANGED <<stops, late, calls, overlapped, gaveUp>>
    BY <1>2 DEF GetCreate, ManifestHolds
  <2> QED
    BY <2>2, <2>3, <2>4 DEF EmitterTypes
<1>3. CASE GetManifest(t)
  <2>1. "anchor" \in RecordKinds
    BY DEF RecordKinds
  <2>2. late' \in [Emitters -> SUBSET RecordKinds]
    BY <1>3, <2>1, PutTypes DEF GetManifest, EmitterTypes
  <2> QED
    BY <1>3, <2>2 DEF EmitterTypes, GetManifest
<1> QED
  BY <1>1, <1>2, <1>3 DEF Get

LEMMA EmitterTypesShutdown ==
  ASSUME EmitterTypes, NEW t \in Threads, Shutdown(t)
  PROVE  EmitterTypes'
<1>1. CASE ShutdownNothing(t)
  BY <1>1 DEF EmitterTypes, ShutdownNothing, emitterVars
<1>2. CASE ShutdownLock(t)
  <2>1. stops' \in [Emitters -> SUBSET {"collector", "flusher"}]
    BY <1>2 DEF EmitterTypes, ShutdownLock
  <2>2. overlapped' \in SUBSET Threads
    BY <1>2 DEF EmitterTypes, ShutdownLock
  <2> QED
    BY <1>2, <2>1, <2>2 DEF EmitterTypes, ShutdownLock
<1>3. CASE JoinCollector(t)
  <2>1. stops' \in [Emitters -> SUBSET {"collector", "flusher"}]
    BY <1>3 DEF EmitterTypes, JoinCollector
  <2>2. gaveUp' \in BOOLEAN
    BY <1>3 DEF EmitterTypes, JoinCollector, Joined
  <2> QED
    BY <1>3, <2>1, <2>2 DEF EmitterTypes, JoinCollector
<1>4. CASE JoinFlusher(t)
  <2>1. gaveUp' \in BOOLEAN
    BY <1>4 DEF EmitterTypes, JoinFlusher, Joined
  <2>2. current' = 0 /\ lock' = Nobody /\ UNCHANGED <<emitterVars, calls, overlapped>> /\ made \in 0 .. MaxEmitters
    BY <1>4 DEF EmitterTypes, JoinFlusher, AfterShutdown
  <2>3. current' \in 0 .. made
    BY <2>2
  <2> QED
    BY <2>1, <2>2, <2>3 DEF EmitterTypes, emitterVars
<1> QED
  BY <1>1, <1>2, <1>3, <1>4 DEF Shutdown

LEMMA EmitterTypesBackground ==
  ASSUME EmitterTypes, NEW e \in Emitters, Background(e)
  PROVE  EmitterTypes'
<1>1. CASE FlusherEnds(e)
  BY <1>1 DEF EmitterTypes, FlusherEnds
<1>2. CASE CollectorSample(e)
  BY <1>2 DEF EmitterTypes, CollectorSample
<1>3. CASE CollectorPut(e)
  <2>1. "counters" \in RecordKinds
    BY DEF RecordKinds
  <2>2. late' \in [Emitters -> SUBSET RecordKinds]
    BY <1>3, <2>1, PutTypes DEF CollectorPut
  <2> QED
    BY <1>3, <2>2 DEF EmitterTypes, CollectorPut
<1>4. CASE CollectorEnds(e)
  BY <1>4 DEF EmitterTypes, CollectorEnds
<1>5. CASE FlusherDies(e)
  BY <1>5 DEF EmitterTypes, FlusherDies
<1> QED
  BY <1>1, <1>2, <1>3, <1>4, <1>5 DEF Background

LEMMA EmitterTypesSame ==
  ASSUME EmitterTypes, UNCHANGED onlyFrames
  PROVE  EmitterTypes'
  BY DEF EmitterTypes, onlyFrames, emitterVars

LEMMA PatchTypesModule ==
  ASSUME Shapes, Scalars, NEW t \in Threads, ApplyModule(t)
  PROVE  PatchTypes'
<1>0. PatchTypes
  BY ScalarParts
<1>1. PICK i, m : i \in 1 .. 5 /\ ModuleStep(t, i, m)
  BY ApplyModuleTurn
<1>2. CASE ApplyFails(t)
  BY <1>0, <1>2 DEF PatchTypes, ApplyFails, HeldAfterFailure
<1>3. CASE /\ done' = IF m \in done \/ FlagAfter(m) THEN done \cup {m} ELSE done
           /\ layers' = IF m \in build.present \ done THEN [layers EXCEPT ![m] = Layered(m)] ELSE layers
           /\ \/ UNCHANGED <<applyLock, result>>
              \/ result' = (IF done' # {} THEN "applied" ELSE "nothing") /\ applyLock' = Nobody
           /\ UNCHANGED <<onlyFrames, build, inFactory, env, resets, untraced>>
  <2>1. m \in Modules
    BY <1>1 DEF ModuleStep
  <2>2. done' \in SUBSET Modules
    BY <1>0, <1>3, <2>1 DEF PatchTypes
  <2>3. Layered(m) \in Nat
    BY <1>0, <2>1 DEF PatchTypes, Layered
  <2>4. layers' \in [Modules -> Nat]
    BY <1>0, <1>3, <2>3 DEF PatchTypes
  <2>5. result' \in {"none", "applied", "nothing"} /\ applyLock' \in Threads \cup {Nobody}
    BY <1>0, <1>3 DEF PatchTypes
  <2> QED
    BY <1>0, <1>3, <2>2, <2>4, <2>5 DEF PatchTypes
<1> QED
  BY <1>1, <1>2, <1>3 DEF ModuleStep

LEMMA PatchTypesFactory ==
  ASSUME Shapes, Scalars, NEW t \in Threads, FactoryStep(t)
  PROVE  PatchTypes'
<1>0. PatchTypes
  BY ScalarParts
<1>1. CASE FactoryLeaves(t) \/ FactoryDecide(t) \/ FactoryLook(t) \/ FactoryOriginal(t)
  BY <1>0, <1>1 DEF PatchTypes, FactoryLeaves, FactoryDecide, FactoryLook, FactoryOriginal, patchVars
<1>2. CASE FactoryGuard(t) \/ FactoryPop(t)
  BY <1>0, <1>2 DEF PatchTypes, FactoryGuard, FactoryPop
<1>3. CASE FactoryDirect(t)
  <2>1. untraced' \in BOOLEAN
    BY <1>3 DEF FactoryDirect, HandOver
  <2> QED
    BY <1>0, <1>3, <2>1 DEF PatchTypes, FactoryDirect
<1>4. CASE FactoryUnguard(t)
  <2>1. untraced' = untraced /\ inFactory' = FALSE
    BY <1>4, FactoryActions
  <2> QED
    BY <1>0, <1>4, <2>1 DEF PatchTypes, FactoryUnguard
<1>5. CASE FactoryRestore(t)
  <2>1. untraced' = untraced
    BY <1>5, FactoryActions
  <2> QED
    BY <1>0, <1>5, <2>1 DEF PatchTypes, FactoryRestore
<1> QED
  BY <1>1, <1>2, <1>3, <1>4, <1>5 DEF FactoryStep, FactoryPlain

LEMMA ScalarsStep ==
  ASSUME Shapes, Scalars, [Next]_vars
  PROVE  Scalars'
<1>0. FrameTypes /\ EmitterTypes /\ PatchTypes
  BY ScalarParts
<1>1. ASSUME UNCHANGED patchVars PROVE PatchTypes'
  BY <1>0, <1>1 DEF PatchTypes, patchVars
<1>2. ASSUME NEW t \in Threads, SingletonStep(t), UNCHANGED patchVars PROVE Scalars'
  <2>1. CASE ProbePut(t)
    <3>1. "engine" \in RecordKinds
      BY DEF RecordKinds
    <3>2. late' \in [Emitters -> SUBSET RecordKinds]
      BY <1>0, <2>1, <3>1, PutTypes DEF ProbePut, EmitterTypes
    <3> QED
      BY <1>0, <1>1, <1>2, <2>1, <3>2, SingletonReturns, ScalarsAfter DEF EmitterTypes, ProbePut
  <2>2. CASE Get(t) \/ Shutdown(t)
    BY <1>0, <1>1, <1>2, <2>2, EmitterTypesGet, EmitterTypesShutdown, SingletonReturns, ScalarsAfter
  <2> QED
    BY <1>2, <2>1, <2>2 DEF SingletonStep
<1>3. ASSUME NEW t \in Threads, SingletonBegin(t) \/ PatchBegin(t), UNCHANGED patchVars PROVE Scalars'
  <2>1. BeginTurns(t)
    BY <1>3, BeginActions
  <2>2. FrameTypes'
    BY <1>0, <2>1 DEF BeginTurns, FrameTypes
  <2>3. calls' \in 0 .. MaxCalls
    BY <1>0, <2>1, SingletonAssumption DEF BeginTurns, EmitterTypes
  <2>4. overlapped' \in SUBSET Threads
    BY <1>0, <2>1 DEF BeginTurns, EmitterTypes
  <2>5. EmitterTypes'
    BY <1>0, <2>1, <2>3, <2>4 DEF BeginTurns, EmitterTypes, emitterVars
  <2> QED
    BY <1>1, <1>3, <2>2, <2>5, ScalarsAfter
<1>4. ASSUME NEW e \in Emitters, Background(e), UNCHANGED patchVars PROVE Scalars'
  <2>1. UNCHANGED <<ret, raised>>
    BY <1>4 DEF Background, FlusherEnds, FlusherDies, CollectorSample, CollectorPut, CollectorEnds, frameVars
  <2>2. FrameTypes'
    BY <1>0, <2>1 DEF FrameTypes
  <2> QED
    BY <1>0, <1>1, <1>4, <2>2, EmitterTypesBackground, ScalarsAfter
<1>5. ASSUME Reset PROVE Scalars'
  <2>1. UNCHANGED <<ret, raised>> /\ UNCHANGED onlyFrames
    BY <1>5 DEF Reset, singletonVars, frameVars, onlyFrames
  <2>2. FrameTypes' /\ EmitterTypes'
    BY <1>0, <2>1, EmitterTypesSame DEF FrameTypes
  <2>3. resets' \in 0 .. MaxResets
    BY <1>0, <1>5, PatchingAssumption DEF Reset, PatchTypes
  <2>4. layers' \in [Modules -> Nat]
    BY <1>0, <1>5 DEF Reset, PatchTypes
  <2>5. PatchTypes'
    BY <1>0, <1>5, <2>3, <2>4 DEF Reset, PatchTypes
  <2> QED
    BY <2>2, <2>5, ScalarsAfter
<1>6. ASSUME NEW t \in Threads, PatchStep(t) PROVE Scalars'
  <2>1. FrameTypes'
    BY <1>6, PatchReturns
  <2>2. UNCHANGED onlyFrames
    BY <1>6 DEF PatchStep, ApplyCached, ApplyStart, ApplyEmitter, ApplyModule, ApplyFails, FactoryLeaves,
       FactoryDecide, FactoryLook, FactoryPop, FactoryGuard,
       FactoryOriginal, FactoryDirect, FactoryUnguard, FactoryRestore
  <2>3. EmitterTypes'
    BY <1>0, <2>2, EmitterTypesSame
  <2>4. PatchTypes'
    <3>1. CASE ApplyCached(t)
      BY <1>1, <3>1 DEF ApplyCached
    <3>2. CASE ApplyStart(t)
      BY <1>0, <3>2 DEF ApplyStart, PatchTypes
    <3>3. CASE ApplyEmitter(t)
      <4>1. CASE ApplyFails(t)
        BY <1>0, <4>1 DEF PatchTypes, ApplyFails, HeldAfterFailure
      <4>2. CASE UNCHANGED patchVars
        BY <1>1, <4>2
      <4> QED
        BY <3>3, <4>1, <4>2 DEF ApplyEmitter
    <3> QED
      BY <1>6, <3>1, <3>2, <3>3, PatchTypesModule, PatchTypesFactory
         DEF PatchStep, FactoryStep, FactoryPlain
  <2> QED
    BY <2>1, <2>3, <2>4, ScalarsAfter
<1>7. UNCHANGED vars => Scalars'
  <2> SUFFICES ASSUME UNCHANGED vars PROVE Scalars'
    OBVIOUS
  <2>1. UNCHANGED <<ret, raised>> /\ UNCHANGED onlyFrames /\ UNCHANGED patchVars
    BY DEF vars, singletonVars, frameVars, onlyFrames
  <2>2. FrameTypes' /\ EmitterTypes'
    BY <1>0, <2>1, EmitterTypesSame DEF FrameTypes
  <2> QED
    BY <1>1, <2>1, <2>2, ScalarsAfter
<1> QED
  BY <1>2, <1>3, <1>4, <1>5, <1>6, <1>7 DEF Next, ThreadStep

-----------------------------------------------------------------------------
(* The inductive invariant.                                                *)

LEMMA PatchInvInit ==
  Init => PatchInv
<1> SUFFICES ASSUME Init PROVE PatchInv
  OBVIOUS
<1> USE DEF Init, SingletonInit
<1>1. \A t \in Threads : stack[t] = <<>>
  OBVIOUS
<1>2. \A t \in Threads : ~Busy(t)
  BY <1>1 DEF Busy
<1>3. \A t \in Threads : \A F : ~Within(stack[t], F)
  BY <1>2, EmptyStack
<1>4. \A t \in Threads : \A op, at : ~At(t, op, at)
  BY <1>1 DEF At
<1>5. Shapes
  <2>1. <<>> \in Seq(Frames)
    OBVIOUS
  <2>2. Shape(<<>>)
    BY <2>1 DEF Shape
  <2> QED
    BY <1>1, <2>1, <2>2 DEF Shapes
<1>6. Scalars
  <2>1. FrameTypes
    BY DEF FrameTypes
  <2>2. EmitterTypes
    <3>1. current \in 0 .. made /\ made \in 0 .. MaxEmitters /\ calls \in 0 .. MaxCalls
      BY SingletonAssumption
    <3>2. /\ flusher \in [Emitters -> {"none", "running", "done", "dead"}]
          /\ collector \in [Emitters -> {"none", "running", "sampling", "done"}]
      OBVIOUS
    <3>3. stops \in [Emitters -> SUBSET {"collector", "flusher"}] /\ late \in [Emitters -> SUBSET RecordKinds]
      OBVIOUS
    <3>4. lock \in Threads \cup {Nobody} /\ overlapped \in SUBSET Threads /\ gaveUp \in BOOLEAN
      OBVIOUS
    <3> QED
      BY <3>1, <3>2, <3>3, <3>4 DEF EmitterTypes
  <2>3. PatchTypes
    <3>1. build \in Build /\ resets \in 0 .. MaxResets
      BY PatchingAssumption
    <3>2. env \in BOOLEAN
      OBVIOUS
    <3> QED
      BY <3>1, <3>2 DEF PatchTypes
  <2> QED
    BY <2>1, <2>2, <2>3, ScalarParts
<1>7. Held
  BY <1>3, SingletonAssumption DEF Held
<1>8. Stopping
  BY <1>3 DEF Stopping, Emitters
<1>9. InTurn
  BY <1>3 DEF InTurn
<1>10. Undisturbed
  BY <1>2, <1>4 DEF Undisturbed
<1>11. Layers
  BY <1>6 DEF Layers
<1>12. Restored
  BY <1>3 DEF Restored, IsVllm
<1>13. Wrapping
  BY <1>3, <1>4 DEF Wrapping
<1> QED
  BY <1>5, <1>6, <1>7, <1>8, <1>9, <1>10, <1>11, <1>12, <1>13 DEF PatchInv

LEMMA PatchInvStep ==
  PatchInv /\ [Next]_vars => PatchInv'
<1> SUFFICES ASSUME PatchInv, [Next]_vars PROVE PatchInv'
  OBVIOUS
<1>1. /\ Scalars /\ Shapes /\ Held /\ Stopping /\ InTurn /\ Undisturbed /\ Layers /\ Restored /\ Wrapping
  BY DEF PatchInv
<1>2. ApplyHeld /\ LockHeld
  BY <1>1 DEF Held, ApplyHeld, LockHeld
<1>3. EmitterInv
  BY <1>1, <1>2 DEF EmitterInv
<1>4. Scalars' /\ Shapes'
  BY <1>1, ScalarsStep, ShapesStep
<1>5. LockHeld' /\ Stopping' /\ InTurn'
  BY <1>1, <1>3, EmitterStep
<1>6. ApplyHeld'
  BY <1>1, <1>2, ApplyHeldStep
<1>7. Held'
  BY <1>5, <1>6 DEF Held, ApplyHeld, LockHeld
<1>8. Undisturbed' /\ Layers' /\ Restored'
  BY <1>1, <1>3, UndisturbedStep, LayersStep, RestoredStep
<1>9. Wrapping'
  BY <1>1, WrappingStep
<1> QED
  BY <1>4, <1>5, <1>7, <1>8, <1>9 DEF PatchInv

LEMMA PatchInvAlways ==
  Spec => []PatchInv
<1>1. Init => PatchInv
  BY PatchInvInit
<1>2. PatchInv /\ [Next]_vars => PatchInv'
  BY PatchInvStep
<1> QED
  BY <1>1, <1>2, PTL DEF Spec

-----------------------------------------------------------------------------
(* What follows from it.                                                   *)

\* The frames of apply() that are inside its block, by their names.
LEMMA BodyFrames ==
  ASSUME Shapes, NEW t \in Threads
  PROVE  Within(stack[t], Body) <=>
           \E i \in DOMAIN stack[t] : stack[t][i].op = "apply" /\ stack[t][i].at # "wait"
<1>1. \A i \in DOMAIN stack[t] : stack[t][i] \in Frames
  BY DEF Shapes
<1>2. ASSUME NEW f \in Frames PROVE f \in Body <=> f.op = "apply" /\ f.at # "wait"
  <2>1. f = Frame(f.op, f.at)
    BY FrameFields
  <2>2. f \in Body => f.op = "apply" /\ f.at # "wait"
    BY <2>1, FrameKinds
  <2>3. ASSUME f.op = "apply", f.at # "wait" PROVE f \in Body
    <3>1. f \in FrameOf("apply", {"wait", "emitter"} \cup Modules)
      <4>1. f \notin FrameOf("get", {"check", "wait", "manifest", "return"})
        BY <2>3 DEF FrameOf
      <4>2. f # Frame("probe", "put")
        BY <2>3 DEF Frame
      <4>3. f \notin FrameOf("shutdown", {"wait", "collector", "flusher"})
        BY <2>3 DEF FrameOf
      <4>4. f \notin Factories
        BY <2>3, PatchSets
      <4> QED
        BY <4>1, <4>2, <4>3, <4>4 DEF Frames
    <3>2. f.at \in {"emitter"} \cup Modules
      BY <2>3, <3>1 DEF FrameOf
    <3> QED
      BY <2>1, <2>3, <3>2, FrameKinds
  <2> QED
    BY <2>2, <2>3
<1> QED
  BY <1>1, <1>2 DEF Within

\* Whoever is inside the emitter's block is executing there.
LEMMA CriticalTop ==
  ASSUME Shapes, NEW t \in Threads
  PROVE  Within(stack[t], Critical) <=>
           At(t, "get", "manifest") \/ At(t, "shutdown", "collector") \/ At(t, "shutdown", "flusher")
<1>1. ASSUME NEW op, NEW at, At(t, op, at), Frame(op, at) \in Critical PROVE Within(stack[t], Critical)
  <2>1. Topped(stack[t], Frame(op, at))
    BY <1>1, TopFacts
  <2> QED
    BY <1>1, <2>1 DEF Topped
<1>2. /\ Frame("get", "manifest") \in Critical
      /\ Frame("shutdown", "collector") \in Critical /\ Frame("shutdown", "flusher") \in Critical
  BY DEF Critical, Closing, FrameOf, Frame
<1>3. ASSUME Within(stack[t], Critical)
      PROVE  At(t, "get", "manifest") \/ At(t, "shutdown", "collector") \/ At(t, "shutdown", "flusher")
  <2>1. stack[t] # <<>>
    BY <1>3 DEF Within
  <2>2. Shape(stack[t]) /\ stack[t] \in Seq(Frames)
    BY DEF Shapes
  <2>3. ~Below(stack[t], Critical)
    BY <2>1, <2>2, BelowFacts
  <2> PICK f : f = Top(t)
    OBVIOUS
  <2>4. f \in Critical
    BY <1>3, <2>1, <2>2, <2>3, WithinTop DEF Top
  <2>5. f = Frame("get", "manifest") \/ f = Frame("shutdown", "collector") \/ f = Frame("shutdown", "flusher")
    BY <2>4 DEF Critical, Closing, FrameOf, Frame
  <2> QED
    BY <2>1, <2>5, AtTop DEF Busy
<1> QED
  BY <1>1, <1>2, <1>3

\* Types, and each of the two locks is held just inside the blocks that take it
\* (patch.py:125, emitter.py:525, :537).
THEOREM TypesAndLocks ==
  Spec => []TypeOK
<1>1. PatchInv => TypeOK
  <2> SUFFICES ASSUME PatchInv PROVE TypeOK
    OBVIOUS
  <2>1. Scalars /\ Shapes /\ Held
    BY DEF PatchInv
  <2>2. \A t \in Threads : lock = t <=>
          At(t, "get", "manifest") \/ At(t, "shutdown", "collector") \/ At(t, "shutdown", "flusher")
    BY <2>1, CriticalTop DEF Held
  <2>3. \A t \in Threads : applyLock = t <=>
          \E i \in DOMAIN stack[t] : stack[t][i].op = "apply" /\ stack[t][i].at # "wait"
    BY <2>1, BodyFrames DEF Held
  <2>4. SingletonTypeOK
    BY <2>1, <2>2 DEF Scalars, SingletonTypeOK
  <2> QED
    BY <2>1, <2>3, <2>4 DEF Scalars, TypeOK
<1> QED
  BY <1>1, PatchInvAlways, PTL

\* As long as no join times out, no two flushers write the worker's file at once,
\* whoever creates emitters, installs the probes and shuts emitters down at the
\* same time; and what comes after the last pass of a flusher that has come to its
\* orderly end is a probe's record (emitter.py:525, :537; Emitter.shutdown()).
\* Of a flusher that a failed write has ended (emitter.py:477) only the first part
\* speaks.
THEOREM OneFlusherWrites ==
  Spec => []OneWriter
<1>1. PatchInv => OneWriter
  <2> SUFFICES ASSUME PatchInv, ~gaveUp
      PROVE  /\ \A d, e \in Emitters : flusher[d] = "running" /\ flusher[e] = "running" => d = e
             /\ \A e \in Emitters : flusher[e] = "done" => collector[e] = "done" /\ late[e] \subseteq {"engine"}
    BY DEF OneWriter
  <2>1. \A e \in Emitters :
         /\ flusher[e] = "running" => e = current
         /\ "flusher" \in stops[e] => collector[e] = "done"
         /\ late[e] \subseteq {"engine"}
         /\ flusher[e] = "done" => "flusher" \in stops[e]
    BY DEF PatchInv, InTurn, Stopping
  <2> QED
    BY <2>1
<1> QED
  BY <1>1, PatchInvAlways, PTL

\* A probe's call that no shutdown() overlaps gets an emitter that has not been told
\* to stop and whose flusher runs or has died of a failed write
\* (_get_or_create_emitter(), emitter.py:518-532; emitter.py:477).
THEOREM ProbesGetLiveEmitters ==
  Spec => []LiveOutsideShutdown
<1>1. PatchInv => LiveOutsideShutdown
  <2> SUFFICES ASSUME PatchInv, NEW t \in Threads, At(t, "probe", "put"), ~raised[t], t \notin overlapped
      PROVE  ret[t] # 0 /\ flusher[ret[t]] \in {"running", "dead"} /\ stops[ret[t]] = {}
    BY DEF LiveOutsideShutdown
  <2>1. Scalars /\ Shapes /\ Stopping /\ Undisturbed
    BY DEF PatchInv
  <2>2. Busy(t)
    BY <2>1, AtTop
  <2>3. ret[t] = current /\ current # 0 /\ \A u \in Threads : ~Within(stack[u], Closing)
    BY <2>1, <2>2 DEF Undisturbed
  <2>4. stops[current] = {}
    BY <2>1, <2>3 DEF Stopping
  <2>5. current \in Emitters /\ current <= made
    BY <2>1, <2>3, SingletonAssumption DEF Scalars, Emitters
  <2>6. flusher[current] # "none" /\ flusher[current] # "done"
    BY <2>1, <2>4, <2>5 DEF Stopping
  <2>7. flusher[current] \in {"none", "running", "done", "dead"}
    BY <2>1, <2>5 DEF Scalars
  <2> QED
    BY <2>3, <2>4, <2>6, <2>7
<1> QED
  BY <1>1, PatchInvAlways, PTL

\* However many threads call apply() and the factory and however often an apply()
\* fails half-way, every site has one wrapper; reset() adds at most one to the
\* sites without a mark; and a result of true stands for patched sites.
THEOREM SitesWrappedOnce ==
  Spec => []WrappedOnce
<1>1. PatchInv => WrappedOnce
  <2> SUFFICES ASSUME PatchInv PROVE WrappedOnce
    OBVIOUS
  <2>1. Scalars /\ Layers
    BY DEF PatchInv
  <2>2. ASSUME NEW m \in Modules PROVE layers[m] <= 1 + (IF Marked(m) THEN 0 ELSE resets)
    <3>1. layers[m] \in Nat /\ resets \in Nat
      BY <2>1, PatchingAssumption DEF Scalars
    <3>2. layers[m] <= IF Marked(m) THEN 1 ELSE resets + (IF m \in done THEN 1 ELSE 0)
      BY <2>1 DEF Layers
    <3>3. CASE Marked(m)
      BY <3>1, <3>2, <3>3
    <3>4. CASE ~Marked(m)
      BY <3>1, <3>2, <3>4
    <3> QED
      BY <3>3, <3>4
  <2>3. result = "applied" => \E m \in Modules : layers[m] > 0
    BY <2>1 DEF Layers, Scalars
  <2> QED
    BY <2>2, <2>3 DEF WrappedOnce
<1> QED
  BY <1>1, PatchInvAlways, PTL

\* Concurrent and recursive calls of tracing_factory() share one guard and one
\* environment variable, and may have both set at once, so that a call recurses
\* down to RecursionLimit.  Still no connector reaches the engine without its
\* wrapper, and once all calls are over the variable is back and the guard down
\* (factory.py:58-82).
THEOREM FactoriesRestore ==
  Spec => []FactoriesCoexist
<1>1. PatchInv => FactoriesCoexist
  <2> SUFFICES ASSUME PatchInv PROVE FactoriesCoexist
    OBVIOUS
  <2>1. Scalars /\ Restored /\ Wrapping
    BY DEF PatchInv
  <2>2. ASSUME \A t \in Threads : ~Busy(t) PROVE ~inFactory /\ (env <=> IsVllm)
    <3>1. \A t \in Threads : \A F : ~Within(stack[t], F)
      BY <2>2, EmptyStack
    <3> QED
      BY <2>1, <3>1 DEF Restored
  <2> QED
    BY <2>1, <2>2 DEF FactoriesCoexist, Wrapping
<1> QED
  BY <1>1, PatchInvAlways, PTL
=================================================================================
