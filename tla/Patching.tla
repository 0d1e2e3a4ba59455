------------------------------- MODULE Patching -------------------------------
(***************************************************************************)
(* The installation of the probes (bkvt/integrations/vllm/patch.py,        *)
(* bkvt/integrations/sglang/patch.py and the apply_patches() of the probe  *)
(* modules) and vLLM's connector factory                                   *)
(* (bkvt/integrations/vllm/factory.py), together with the emitter they     *)
(* create on the way: apply() runs under its own lock and calls            *)
(* get_emitter() again and again, while other threads use the emitter and  *)
(* shut it down, and tracing_factory() calls apply() first.                *)
(*                                                                         *)
(* The classes of the engine are external; of each module's sites there is *)
(* one, which is there or not.  Engines consult the environment variable   *)
(* inside create_connector_v1() or do not.                                 *)
(***************************************************************************)
EXTENDS EmitterSingleton

CONSTANTS
  MaxResets,       \* bound: calls of reset()
  RecursionLimit,  \* the deepest stack from which the factory is called again
  Builds           \* the engines to consider

VllmModules   == <<"scheduler", "block_pool", "runner", "connector", "weight">>
SglangModules == <<"scheduler", "radix", "hicache", "disagg", "weight">>
Modules == {"scheduler", "block_pool", "runner", "connector", "weight", "radix", "hicache", "disagg"}

\* list:    the modules apply() goes through
\* present: those whose site exists
\* asks:    create_connector_v1() calls what the environment variable names
Build == [list : {VllmModules, SglangModules}, present : SUBSET Modules, asks : BOOLEAN]

ASSUME PatchingAssumption == MaxResets \in Nat /\ RecursionLimit \in Nat /\ Builds \subseteq Build

VARIABLES
  build,       \* the engine the probes are installed in
  applyLock,   \* holder of _apply_lock
  result,      \* _apply_result: "none", "applied", or "nothing" for applied false
  done,        \* modules whose _PATCHES_APPLIED is true
  layers,      \* layers[m]: wrappers around the site of module m
  inFactory,   \* _IN_TRACING_FACTORY
  env,         \* VLLM_KV_CONNECTOR_FACTORY is set
  resets,      \* calls of reset()
  untraced     \* history: tracing_factory() has handed the engine a bare connector

patchVars == <<build, applyLock, result, done, layers, inFactory, env, resets, untraced>>
vars == <<singletonVars, patchVars>>

Init ==
  /\ SingletonInit
  /\ build \in Builds
  /\ applyLock = Nobody /\ result = "none"
  /\ done = {} /\ layers = [m \in Modules |-> 0]
  /\ inFactory = FALSE /\ env = (build.list = VllmModules)
  /\ resets = 0 /\ untraced = FALSE

IsVllm == build.list = VllmModules

\* Sites whose wrapper carries the mark _bkvt_wrapped, which is looked for.
Marked(m) == ~IsVllm \/ m \in {"connector", "weight"}

NeedsEmitter(m) == m \notin {"connector", "weight"}

onlyFrames == <<current, lock, emitterVars, calls, overlapped, gaveUp>>

-----------------------------------------------------------------------------
(* apply().                                                                *)

\* On to module m; its apply_patches() gets the emitter unless it has its flag.
Proceed(t, m) ==
  IF NeedsEmitter(m) /\ m \notin done THEN Enter(t, "get", "check", m) ELSE Goto(t, m)

ApplyCached(t) ==
  /\ At(t, "apply", "wait") /\ applyLock = Nobody /\ result # "none"
  /\ Leave(t, 0, FALSE)
  /\ UNCHANGED <<onlyFrames, patchVars>>

ApplyStart(t) ==
  /\ At(t, "apply", "wait") /\ applyLock = Nobody /\ result = "none"
  /\ applyLock' = t
  /\ Enter(t, "get", "check", "emitter")
  /\ UNCHANGED <<onlyFrames, build, result, done, layers, inFactory, env, resets, untraced>>

HeldAfterFailure_BugKept(t) == t
HeldAfterFailure(t) == Nobody

\* An exception leaves apply() without a result; what is patched stays so.
ApplyFails(t) ==
  /\ applyLock' = HeldAfterFailure(t)
  /\ Leave(t, 0, TRUE)
  /\ UNCHANGED <<onlyFrames, build, result, done, layers, inFactory, env, resets, untraced>>

\* _get_or_create_emitter(cfg) has returned; its value is not used.
ApplyEmitter(t) ==
  /\ At(t, "apply", "emitter")
  /\ \/ raised[t] /\ ApplyFails(t)
     \/ ~raised[t] /\ Proceed(t, build.list[1]) /\ UNCHANGED <<onlyFrames, patchVars>>

\* The mark is found.
MarkSeen_BugNever(m) == FALSE
MarkSeen(m) == Marked(m) /\ layers[m] > 0

Layered(m) == IF MarkSeen(m) THEN layers[m] ELSE layers[m] + 1

\* What apply_patches() of module m makes of its flag: a site that has the mark
\* counts as patched, except to the weight probes.
FlagAfter(m) == m \in build.present /\ ~(m = "weight" /\ layers[m] > 0)

LacksEmitter(t, m) == NeedsEmitter(m) /\ m \notin done /\ (raised[t] \/ ret[t] = 0)

\* apply_patches() of the i-th module; after the last, the result.
ApplyModule(t) ==
  \E i \in 1 .. Len(build.list) : LET m == build.list[i] IN
    /\ At(t, "apply", m)
    /\ \/ LacksEmitter(t, m) /\ ApplyFails(t)
       \/ /\ ~LacksEmitter(t, m)
          /\ done' = IF m \in done \/ FlagAfter(m) THEN done \cup {m} ELSE done
          /\ layers' = IF m \in build.present \ done THEN [layers EXCEPT ![m] = Layered(m)] ELSE layers
          /\ IF i < Len(build.list)
               THEN Proceed(t, build.list[i + 1]) /\ UNCHANGED <<applyLock, result>>
               ELSE /\ result' = IF done' # {} THEN "applied" ELSE "nothing"
                    /\ applyLock' = Nobody
                    /\ Leave(t, 0, FALSE)
          /\ UNCHANGED <<onlyFrames, build, inFactory, env, resets, untraced>>

\* reset(), which only tests call, with no call under way; when nothing has been
\* done it does nothing.
Reset ==
  /\ resets < MaxResets /\ \A t \in Threads : ~Busy(t)
  /\ result # "none" \/ done # {}
  /\ resets' = resets + 1
  /\ result' = "none"
  /\ done' = {}
  /\ layers' = IF "connector" \in done THEN [layers EXCEPT !["connector"] = 0] ELSE layers
  /\ UNCHANGED <<singletonVars, build, applyLock, inFactory, env, untraced>>

-----------------------------------------------------------------------------
(* tracing_factory().                                                      *)

NoConnector == 0
Bare == 1
Traced == 2

\* tracing_factory() calls apply() first.
Factory == <<Frame("factory", "decide"), Frame("apply", "wait")>>

\* apply() has raised, outside the try block; or there is no factory.
FactoryLeaves(t) ==
  /\ At(t, "factory", "decide") /\ (raised[t] \/ "connector" \notin build.present)
  /\ Leave(t, NoConnector, raised[t])
  /\ UNCHANGED <<onlyFrames, patchVars>>

FactoryDecide(t) ==
  /\ At(t, "factory", "decide") /\ ~raised[t] /\ "connector" \in build.present
  /\ Goto(t, IF inFactory THEN "direct" ELSE "delegate")
  /\ UNCHANGED <<onlyFrames, patchVars>>

\* os.environ.pop() looks for the variable ...
FactoryLook(t) ==
  /\ At(t, "factory", "delegate")
  /\ Goto(t, IF env THEN "pop" ELSE "guard")
  /\ UNCHANGED <<onlyFrames, patchVars>>

\* ... and deletes it, or raises KeyError because another thread has: swallowed,
\* the engine gets no connector.
FactoryPop(t) ==
  /\ At(t, "factory", "pop")
  /\ IF env THEN Goto(t, "guard, popped") ELSE Leave(t, NoConnector, FALSE)
  /\ env' = FALSE
  /\ UNCHANGED <<onlyFrames, build, applyLock, result, done, layers, inFactory, resets, untraced>>

FactoryGuard(t) ==
  /\ \/ At(t, "factory", "guard") /\ Goto(t, "original")
     \/ At(t, "factory", "guard, popped") /\ Goto(t, "original, popped")
  /\ inFactory' = TRUE
  /\ UNCHANGED <<onlyFrames, build, applyLock, result, done, layers, env, resets, untraced>>

AfterOriginal(at) == CASE at = "direct" -> "after direct"
                       [] at = "original, popped" -> "after, popped"
                       [] at = "original" -> "after"

\* create_connector_v1(): the engine makes a connector, or raises, or calls what
\* the variable names.  Its wrapper, if apply() has put one there, wraps what
\* comes out.  From too deep a stack such a call raises RecursionError, or it is
\* the import in _original_factory() that does, which makes None of it.
FactoryOriginal(t) ==
  \E at \in {"direct", "original, popped", "original"} :
    /\ At(t, "factory", at)
    /\ \/ /\ env /\ build.asks /\ Len(stack[t]) < RecursionLimit
          /\ stack' = [stack EXCEPT ![t] = Moved(t, AfterOriginal(at)) \o Factory]
          /\ Outcome(t, 0, FALSE)
       \/ /\ ~(env /\ build.asks /\ Len(stack[t]) < RecursionLimit)
          /\ stack' = [stack EXCEPT ![t] = Moved(t, AfterOriginal(at))]
          /\ \E fails \in BOOLEAN :
               Outcome(t, IF fails \/ (env /\ build.asks) THEN NoConnector ELSE Bare, fails)
    /\ UNCHANGED <<onlyFrames, patchVars>>

\* What create_connector_v1() returned to t.
FromOriginal(t) == IF layers["connector"] > 0 /\ ret[t] = Bare THEN Traced ELSE ret[t]

\* The value goes to the caller: the engine, or an outer tracing_factory().
HandOver(t, value, fails) ==
  /\ Leave(t, value, fails)
  /\ untraced' = (untraced \/ (Len(stack[t]) = 1 /\ value = Bare))

FactoryDirect(t) ==
  /\ At(t, "factory", "after direct")
  /\ HandOver(t, IF raised[t] THEN NoConnector ELSE FromOriginal(t), raised[t])
  /\ UNCHANGED <<onlyFrames, build, applyLock, result, done, layers, inFactory, env, resets>>

\* The finally block runs also when the original raises.
Finally_BugSkipped(t) == ~raised[t]
Finally(t) == TRUE

\* An exception is swallowed, a connector is wrapped.
Wrapped(t) == IF raised[t] \/ ret[t] = NoConnector THEN NoConnector ELSE Traced

\* The guard is cleared ...
FactoryUnguard(t) ==
  /\ At(t, "factory", "after, popped") \/ At(t, "factory", "after")
  /\ inFactory' = (inFactory /\ ~Finally(t))
  /\ IF At(t, "factory", "after, popped") /\ Finally(t)
       THEN stack' = [stack EXCEPT ![t] = Moved(t, "restore")] /\ UNCHANGED <<ret, raised, untraced>>
       ELSE HandOver(t, Wrapped(t), FALSE)
  /\ UNCHANGED <<onlyFrames, build, applyLock, result, done, layers, env, resets>>

\* ... and the variable put back by the thread that took it.
FactoryRestore(t) ==
  /\ At(t, "factory", "restore")
  /\ env' = TRUE
  /\ HandOver(t, Wrapped(t), FALSE)
  /\ UNCHANGED <<onlyFrames, build, applyLock, result, done, layers, inFactory, resets>>

-----------------------------------------------------------------------------
PatchStep(t) ==
  \/ In(t, {"apply"}) /\ (ApplyCached(t) \/ ApplyStart(t) \/ ApplyEmitter(t) \/ ApplyModule(t))
  \/ In(t, {"factory"}) /\
       (\/ FactoryLeaves(t) \/ FactoryDecide(t) \/ FactoryLook(t) \/ FactoryPop(t) \/ FactoryGuard(t)
        \/ FactoryOriginal(t) \/ FactoryDirect(t) \/ FactoryUnguard(t) \/ FactoryRestore(t))

PatchBegin(t) == Begin(t, <<Frame("apply", "wait")>>) \/ (IsVllm /\ Begin(t, Factory))

ThreadStep(t) == PatchStep(t) \/ (SingletonStep(t) /\ UNCHANGED patchVars)

Next ==
  \/ \E t \in Threads :
       ThreadStep(t) \/ ((SingletonBegin(t) \/ PatchBegin(t)) /\ UNCHANGED patchVars)
  \/ Reset
  \/ \E e \in Emitters : Background(e) /\ UNCHANGED patchVars

Spec == Init /\ [][Next]_vars

\* A thread in a call goes on when it can.  Of an emitter's own threads nothing
\* is assumed: a join() that waits for one gives up.
FairSpec == Spec /\ \A t \in Threads : WF_vars(ThreadStep(t))

-----------------------------------------------------------------------------
\* Types, and each of the two locks is held just inside the blocks that take it
\* (patch.py:125, emitter.py:525, :537), so that only one thread is in them.
TypeOK ==
  /\ SingletonTypeOK
  /\ build \in Build /\ applyLock \in Threads \cup {Nobody}
  /\ result \in {"none", "applied", "nothing"}
  /\ done \in SUBSET Modules /\ layers \in [Modules -> Nat]
  /\ inFactory \in BOOLEAN /\ env \in BOOLEAN /\ untraced \in BOOLEAN
  /\ resets \in 0 .. MaxResets
  /\ \A t \in Threads : applyLock = t <=>
       \E i \in DOMAIN stack[t] : stack[t][i].op = "apply" /\ stack[t][i].at # "wait"

\* However many threads call apply() and the factory, however often an apply()
\* fails half-way for want of an emitter and is repeated, every site has one
\* wrapper; reset() adds at most one to the sites without a mark.  And a result
\* of true stands for patched sites.
WrappedOnce ==
  /\ \A m \in Modules : layers[m] <= 1 + (IF Marked(m) THEN 0 ELSE resets)
  /\ result = "applied" => \E m \in Modules : layers[m] > 0

\* Concurrent and recursive calls of tracing_factory() share one guard and one
\* environment variable.  A thread can take the variable, another put it back and
\* clear the guard, and a third set the guard again with the variable there: then
\* the guard no longer stops the recursion (factory.py:61-63), calls go down to
\* RecursionLimit and come back with None.  Still no connector reaches the engine
\* without its wrapper, and once all calls are over the variable is back and the
\* guard down.
FactoriesCoexist ==
  /\ resets = 0 => ~untraced
  /\ (\A t \in Threads : ~Busy(t)) => ~inFactory /\ (env <=> IsVllm)

\* No call is stuck, with two locks, joins under one of them and factories that
\* call each other: every call returns or raises.
EveryCallReturns == \A t \in Threads : Busy(t) ~> ~Busy(t)
=============================================================================
