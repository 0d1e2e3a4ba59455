----------------------------- MODULE CacheProbes -----------------------------
(***************************************************************************)
(* The kv_block records of the cache probes (the wrappers of               *)
(* bkvt/integrations/vllm/block_pool_probe.py, of                          *)
(* bkvt/integrations/sglang/radix_probe.py and hicache_probe.py, and       *)
(* update_state_after_alloc() of vLLM's connector_wrapper.py), of one      *)
(* worker, and what analysis/lib/reuse.py makes of them.                   *)
(*                                                                         *)
(* The cache is external: a block is held by the requests that use it and  *)
(* may be cached, for other requests to find, and stays cached when nobody *)
(* holds it any more, until it is evicted.  A pool hands out blocks that   *)
(* are neither.  HiCache copies blocks to host memory and to a store, and  *)
(* back.  One engine thread calls it all, so a wrapped call, and a call    *)
(* nested in it, is one step.  Calls that raise change nothing, and leave  *)
(* no record but those of HiCache's controller.  Every record is sampled:  *)
(* sample_metadata is 1, its default, and below it no property of the      *)
(* whole stream can hold.  The variables content and told are history:     *)
(* what a block has held, and what the analysis makes of its records.      *)
(***************************************************************************)
EXTENDS Integers

CONSTANTS
  Blocks,     \* block ids
  Requests,   \* request ids
  MaxStays,   \* bound: how often the pool hands out a block
  Builds      \* the engines to consider

\* Where the probes look for methods to wrap.
Sites == {"allocate", "free", "evict", "lookup", "insert"}

\* engine:  whose cache it is
\* oneShot: the vLLM engine passes free_blocks() and cache_full_blocks() an
\*            iterator, such as reversed(blocks), which can be read once
\* seen:    the methods that are found and wrapped, and that name their blocks, of
\*            the pool and of the cache.  A subclass may have one of its own.
\* tiers:   the SGLang cache is a HiCache
Build == {b \in [engine : {"vllm", "sglang"}, oneShot : BOOLEAN,
                 seen : SUBSET Sites, tiers : BOOLEAN] :
            (b.oneShot => b.engine = "vllm") /\ (b.tiers => b.engine = "sglang")}

ASSUME CacheAssumption == MaxStays \in Nat /\ Builds \subseteq Build

VARIABLES
  build,      \* the engine the probes are installed in
  users,      \* external, users[b]: the requests that hold block b
  cached,     \* external: the blocks a lookup may find
  lost,       \* external: blocks let go of whose release never reached the pool
  content,    \* content[b]: how often b has been handed out
  told        \* told[b]: what the analysis has made of the records of b

cacheVars == <<users, cached, lost, content>>
vars == <<build, cacheVars, told>>

Tiers == {"HBM", "DRAM", "STORE", "none"}

Contents == 0 .. MaxStays
NoRow == <<>>

\* tier: the tier the newest record leaves the block in; done: FALSE if that record is
\* of a load into device memory which has not brought the block there; hit: the content
\* at the newest hit, or 0; cut: a record without a tier has come since; row: what
\* reuse_distance() makes of the newest record.
Nothing == [tier |-> "none", done |-> TRUE, hit |-> 0, cut |-> FALSE, row |-> NoRow]

Init ==
  /\ build \in Builds
  /\ users = [b \in Blocks |-> {}]
  /\ cached = {} /\ lost = {}
  /\ content = [b \in Blocks |-> 0]
  /\ told = [b \in Blocks |-> Nothing]

Held(q) == {b \in Blocks : q \in users[b]}
Free == {b \in Blocks \ (cached \cup lost) : users[b] = {}}
Evictable == {b \in cached \ lost : users[b] = {}}
NonEmpty(S) == SUBSET S \ {{}}

\* The blocks of B, if the method that handles them is wrapped.
Seen(site, B) == IF site \in build.seen THEN B ELSE {}

\* analysis/lib/reuse.py, as one more record comes: of kind k, with tier_after t, of
\* content c.  tier_residency(): a record that has a tier_after opens an interval in
\* that tier, which the next record of the block closes.  reuse_distance(): each hit
\* makes a row with the hit before it.
After(e, k, t, c, ok) ==
  [tier |-> t,
   done |-> ok,
   hit  |-> IF k = "prefix_hit" THEN c ELSE e.hit,
   cut  |-> t = "none" \/ (k # "prefix_hit" /\ e.cut),
   row  |-> IF k = "prefix_hit" /\ e.hit # 0 THEN [from |-> e.hit, to |-> c, cut |-> e.cut] ELSE NoRow]

\* One record for each block of B, which now holds c[b], behind log; it is true of
\* the blocks of T.
Moved(log, B, k, t, c, T) == [b \in Blocks |-> IF b \in B THEN After(log[b], k, t, c[b], b \in T) ELSE log[b]]

\* The tier of the records that tell of no movement.
TierAfter_BugEvict(k) == IF k = "free" THEN "none" ELSE "HBM"
TierAfter(k) == IF k \in {"free", "evict"} THEN "none" ELSE "HBM"

Logged(log, B, k, c) == Moved(log, B, k, TierAfter(k), c, B)

IsCall(engine) == build.engine = engine /\ UNCHANGED build

-----------------------------------------------------------------------------
(* What the cache does with a call.                                        *)

\* The pool hands out the blocks of B.
Refill(B) ==
  /\ \A b \in B : content[b] < MaxStays
  /\ content' = [b \in Blocks |-> IF b \in B THEN content[b] + 1 ELSE content[b]]

HandOut(q, B) ==
  /\ Refill(B)
  /\ users' = [b \in Blocks |-> IF b \in B THEN {q} ELSE users[b]]
  /\ UNCHANGED <<cached, lost>>

\* q lets go of the blocks of B, and the pool hears of it unless they are in L.
LetGo(q, B, L) ==
  /\ users' = [b \in Blocks |-> IF b \in B THEN users[b] \ {q} ELSE users[b]]
  /\ lost' = lost \cup L
  /\ UNCHANGED <<cached, content>>

\* A request takes what a lookup found: counted, but in no kv_block record.
Take(q, B) ==
  /\ users' = [b \in Blocks |-> IF b \in B THEN users[b] \cup {q} ELSE users[b]]
  /\ UNCHANGED <<cached, lost, content, told>>

Uncache(B) == cached' = cached \ B /\ UNCHANGED <<users, lost, content>>
Recache(B) == cached' = cached \cup B /\ UNCHANGED <<users, lost, content>>

\* A record, and nothing else.
Untouched == UNCHANGED cacheVars

-----------------------------------------------------------------------------
(* block_pool_probe.py.  The pool evicts before it hands out a cached      *)
(* block, by a nested call of the eviction method.                         *)

AllocBlocks(q) ==
  /\ IsCall("vllm")
  /\ \E B \in NonEmpty(Free) : HandOut(q, B) /\ told' = Logged(told, Seen("allocate", B), "allocate", content')

\* The wrapper lists its argument first: an iterator is spent when the pool
\* gets it.  There is a record for each block, whoever else holds it.
Spent_BugAlways(B) == B
Spent(B) == IF build.oneShot THEN B ELSE {}

FreeBlocks(q) ==
  /\ IsCall("vllm") /\ Held(q) # {}
  /\ LetGo(q, Held(q), Spent(Held(q)))
  /\ told' = Logged(told, Seen("free", Held(q)), "free", content)

Evicted_BugUnseen(B) == {}
Evicted(B) == Seen("evict", B)

EvictBlocks ==
  /\ IsCall("vllm")
  /\ \E B \in NonEmpty(Evictable) : Uncache(B) /\ told' = Logged(told, Evicted(B), "evict", content)

IncRef(q) == IsCall("vllm") /\ \E B \in NonEmpty(cached \ Held(q)) : Take(q, B)

GetComputedBlocks ==
  /\ IsCall("vllm")
  /\ \E B \in NonEmpty(cached) : told' = Logged(told, Seen("lookup", B), "prefix_hit", content)
  /\ Untouched

\* A spent iterator leaves nothing to cache, and nothing to record.
CacheFullBlocks(q) ==
  /\ IsCall("vllm")
  /\ \E B \in NonEmpty(Held(q) \ cached) :
       /\ Recache(B \ Spent(B))
       /\ told' = Logged(told, Seen("insert", B \ Spent(B)), "hash_insert", content)

\* connector_wrapper.py: blocks of q that are to be loaded from elsewhere.
UpdateStateAfterAlloc(q) ==
  /\ IsCall("vllm")
  /\ \E B \in NonEmpty(Held(q)) : told' = Moved(told, B, "tier_promote", "HBM", content, B)
  /\ Untouched

-----------------------------------------------------------------------------
(* radix_probe.py.  RadixCache and the allocator are wrapped both.         *)

Alloc(q) ==
  /\ IsCall("sglang")
  /\ \E B \in NonEmpty(Free) : HandOut(q, B) /\ told' = Logged(told, Seen("allocate", B), "allocate", content')

\* The allocator gets what is not in the tree; for the rest the tree's reference
\* is dropped.
FreeIndices(q) ==
  /\ IsCall("sglang") /\ Held(q) \ cached # {}
  /\ LetGo(q, Held(q) \ cached, {})
  /\ told' = Logged(told, Seen("free", Held(q) \ cached), "free", content)

DecLockRef(q) ==
  /\ IsCall("sglang") /\ Held(q) \cap cached # {}
  /\ LetGo(q, Held(q) \cap cached, {})
  /\ UNCHANGED told

IncLockRef(q) == IsCall("sglang") /\ \E B \in NonEmpty(cached \ Held(q)) : Take(q, B)

\* RadixCache.evict() gives the blocks to the allocator's free().  HiRadixCache has
\* an evict() of its own, and the HiCache probe takes the numbers among its arguments
\* for block ids, how much it shall evict as well.
Evict ==
  /\ IsCall("sglang")
  /\ \E B \in NonEmpty(Evictable) :
       LET freed == Logged(told, Seen("free", B), "free", content) IN
       /\ Uncache(B)
       /\ IF build.tiers
          THEN \E N \in SUBSET Blocks : told' = Moved(freed, N, "tier_demote", "DRAM", content, N)
          ELSE told' = Logged(freed, Evicted(B), "evict", content)

MatchPrefix ==
  /\ IsCall("sglang")
  /\ \E B \in NonEmpty(cached) : told' = Logged(told, Seen("lookup", B), "prefix_hit", content)
  /\ Untouched

\* insert() names the blocks N it has taken up.  If it names none, because others
\* hold the same tokens, the blocks it was given are recorded all the same.
Inserted(B, N) == IF N = {} THEN B ELSE N

Insert(q) ==
  /\ IsCall("sglang")
  /\ \E B \in NonEmpty(Held(q) \ cached) : \E N \in SUBSET B :
       /\ Recache(N)
       /\ told' = Logged(told, Seen("insert", Inserted(B, N)), "hash_insert", content)

-----------------------------------------------------------------------------
(* hicache_probe.py.  A movement leaves a record for the blocks its        *)
(* arguments name, whether it raises or not; where HiRadixCache has a      *)
(* method of the same name, another that says the same.  One to host       *)
(* memory or to the store leaves device memory as it is.                   *)

IsMovement == IsCall("sglang") /\ build.tiers

\* _tier_plan(), of movements that do not end in device memory.
CopyPlans == {<<"tier_demote", "DRAM">>, <<"tier_promote", "DRAM">>, <<"tier_demote", "STORE">>}

\* HiCacheController.backup(), and its movements between host and store.
Copy ==
  /\ IsMovement
  /\ \E N \in NonEmpty(Blocks), p \in CopyPlans : told' = Moved(told, N, p[1], p[2], content, N)
  /\ Untouched

\* HiCacheController.load() takes blocks from the allocator and puts what it has
\* loaded back into the tree.
Load ==
  /\ IsMovement
  /\ \E B \in NonEmpty(Free), N \in SUBSET Blocks :
       /\ cached' = cached \cup B
       /\ Refill(B)
       /\ told' = Moved(Logged(told, Seen("allocate", B), "allocate", content'),
                        N, "tier_promote", "HBM", content', B)
  /\ UNCHANGED <<users, lost>>

\* If it raises, the record says that the blocks are in device memory all the same;
\* so does that of load_to_host(), which does not put them there.
LoadRaises ==
  /\ IsMovement
  /\ \E N \in NonEmpty(Blocks) : told' = Moved(told, N, "tier_promote", "HBM", content, {})
  /\ Untouched

Next ==
  \/ EvictBlocks \/ GetComputedBlocks \/ Evict \/ MatchPrefix \/ Copy \/ Load \/ LoadRaises
  \/ \E q \in Requests :
       \/ AllocBlocks(q) \/ FreeBlocks(q) \/ IncRef(q) \/ CacheFullBlocks(q) \/ UpdateStateAfterAlloc(q)
       \/ Alloc(q) \/ FreeIndices(q) \/ IncLockRef(q) \/ DecLockRef(q) \/ Insert(q)

Spec == Init /\ [][Next]_vars

-----------------------------------------------------------------------------
Told ==
  [tier : Tiers, done : BOOLEAN, hit : Contents, cut : BOOLEAN,
   row : [from : Contents, to : Contents, cut : BOOLEAN] \cup {NoRow}]

\* Types.  Blocks are lost to the pool only where the engine passes iterators.
TypeOK ==
  /\ build \in Build
  /\ users \in [Blocks -> SUBSET Requests]
  /\ cached \in SUBSET Blocks
  /\ lost \in SUBSET Blocks
  /\ content \in [Blocks -> Contents]
  /\ told \in [Blocks -> Told]
  /\ lost # {} => build.oneShot

\* An interval in device memory runs only while the block is there, held or cached,
\* although there is a free record for each holder and a lookup may open the interval
\* again.  This takes the release to be wrapped, and in vLLM the eviction: it alone
\* ends the interval that a lookup has opened and no request has taken up.  Intervals
\* opened by a load that raised, that went to host memory, or that names blocks it has
\* not filled, are left out: hicache_probe.py:172 and :235-253 record them as in device
\* memory.  In SGLang, if
\* allocations are seen, a block that is in device memory has an interval in some
\* tier: a copy to another one ends the interval in device memory.
ResidencyIsTrue ==
  \A b \in Blocks :
    LET resident == users[b] # {} \/ b \in cached IN
    /\ "free" \in build.seen /\ (build.engine = "vllm" => "evict" \in build.seen) =>
         (told[b].tier = "HBM" /\ told[b].done => resident)
    /\ build.engine = "sglang" /\ "allocate" \in build.seen /\ resident => told[b].tier # "none"

\* Hits that make a reuse distance may be of different contents: reuse_distance()
\* pairs them by block id alone.  But where evictions are seen in vLLM, or releases
\* in SGLang, the trace tells: two such hits with no record between that leaves the
\* block without a tier are of one content, whatever was allocated, copied or loaded,
\* or said to be, in between.
HitsOfOneStay ==
  (IF build.engine = "vllm" THEN "evict" ELSE "free") \in build.seen =>
    \A b \in Blocks :
      LET row == told[b].row IN row # NoRow /\ ~row.cut => row.from = row.to
=============================================================================
