----------------------------- MODULE CacheProofs -----------------------------
(***************************************************************************)
(* Proofs about the kv_block records of the cache probes, for any blocks,  *)
(* requests, engine, number of calls and bound on the contents of a block. *)
(***************************************************************************)
EXTENDS CacheProbes, TLAPS

-----------------------------------------------------------------------------
(* The inductive invariant.                                                *)

\* In SGLang a block has several holders only through the tree.
OneHolder ==
  build.engine = "sglang" => \A b \in Blocks \ cached : \A p, q \in users[b] : p = q

Engines == {"vllm", "sglang"}

\* The end of a stay in device memory is recorded; so is the end of what was hit.
EndsSeen == "free" \in build.seen /\ (build.engine = "vllm" => "evict" \in build.seen)
CutSeen == (IF build.engine = "vllm" THEN "evict" ELSE "free") \in build.seen
StartsSeen == build.engine = "sglang" /\ "allocate" \in build.seen

Resident(b, us, ca) == us[b] # {} \/ b \in ca

\* What has been made of the records of b, e, fits its holders, the cache and its
\* content: a hit that nothing has cut off yet is of what b holds now, and b is
\* still cached.
Fits(e, b, us, ca, con) ==
  /\ EndsSeen /\ e.tier = "HBM" /\ e.done => Resident(b, us, ca)
  /\ StartsSeen /\ Resident(b, us, ca) => e.tier # "none"
  /\ CutSeen /\ e.hit # 0 /\ ~e.cut => e.hit = con[b] /\ b \in ca
  /\ CutSeen /\ e.row # NoRow /\ ~e.row.cut => e.row.from = e.row.to

AllFit == \A b \in Blocks : Fits(told[b], b, users, cached, content)

CacheInv == TypeOK /\ OneHolder /\ AllFit

-----------------------------------------------------------------------------
(* The records of one block.                                               *)

Kinds == {"allocate", "free", "evict", "prefix_hit", "hash_insert", "tier_promote", "tier_demote"}

\* What one more record makes of a block's.
LEMMA AfterTyped ==
  ASSUME NEW e \in Told, NEW k \in Kinds, NEW t \in Tiers, NEW c \in Contents, NEW ok \in BOOLEAN
  PROVE  /\ After(e, k, t, c, ok) \in Told
         /\ After(e, k, t, c, ok).tier = t
         /\ After(e, k, t, c, ok).done = ok
         /\ After(e, k, t, c, ok).hit = IF k = "prefix_hit" THEN c ELSE e.hit
         /\ After(e, k, t, c, ok).cut <=> (t = "none" \/ (k # "prefix_hit" /\ e.cut))
         /\ After(e, k, t, c, ok).row =
              IF k = "prefix_hit" /\ e.hit # 0 THEN [from |-> e.hit, to |-> c, cut |-> e.cut] ELSE NoRow
  BY DEF After, Told, Kinds

\* A call takes holders, cached blocks and contents from us, ca, con to us2, ca2,
\* con2.  When a record of b may tell of it, and when there need be none.
RecordRight(b, k, t, ok, us, ca, con, us2, ca2, con2) ==
  /\ EndsSeen /\ t = "HBM" /\ ok => Resident(b, us2, ca2)
  /\ StartsSeen /\ Resident(b, us2, ca2) => t # "none"
  /\ k = "prefix_hit" => con2[b] = con[b] /\ b \in ca2
  /\ CutSeen /\ k # "prefix_hit" /\ t # "none" /\ b \in ca => con2[b] = con[b] /\ b \in ca2

SilenceRight(b, us, ca, con, us2, ca2, con2) ==
  /\ EndsSeen /\ Resident(b, us, ca) => Resident(b, us2, ca2)
  /\ StartsSeen /\ Resident(b, us2, ca2) => Resident(b, us, ca)
  /\ CutSeen /\ b \in ca => con2[b] = con[b] /\ b \in ca2

LEMMA RecordFits ==
  ASSUME NEW b, NEW e \in Told, NEW us, NEW ca, NEW con, Fits(e, b, us, ca, con),
         NEW k \in Kinds, NEW t \in Tiers, NEW ok \in BOOLEAN,
         NEW us2, NEW ca2, NEW con2, con2[b] \in Contents,
         RecordRight(b, k, t, ok, us, ca, con, us2, ca2, con2),
         NEW f, f = After(e, k, t, con2[b], ok)
  PROVE  f \in Told /\ Fits(f, b, us2, ca2, con2)
<1> USE DEF RecordRight
<1> PICK c \in Contents : c = con2[b]
  OBVIOUS
<1>1. /\ f \in Told /\ f.tier = t /\ f.done = ok
      /\ f.hit = IF k = "prefix_hit" THEN c ELSE e.hit
      /\ f.cut <=> (t = "none" \/ (k # "prefix_hit" /\ e.cut))
      /\ f.row = IF k = "prefix_hit" /\ e.hit # 0 THEN [from |-> e.hit, to |-> c, cut |-> e.cut] ELSE NoRow
  BY AfterTyped
<1>2. EndsSeen /\ f.tier = "HBM" /\ f.done => Resident(b, us2, ca2)
  BY <1>1
<1>3. StartsSeen /\ Resident(b, us2, ca2) => f.tier # "none"
  BY <1>1
<1>4. CutSeen /\ e.hit # 0 /\ ~e.cut => e.hit = con[b] /\ b \in ca
  BY DEF Fits
<1>5. CutSeen /\ f.hit # 0 /\ ~f.cut => f.hit = con2[b] /\ b \in ca2
  BY <1>1, <1>4
<1>6. ASSUME CutSeen, f.row # NoRow, ~f.row.cut PROVE f.row.from = f.row.to
  <2>1. k = "prefix_hit" /\ e.hit # 0 /\ f.row = [from |-> e.hit, to |-> c, cut |-> e.cut]
    BY <1>1, <1>6
  <2>2. f.row.from = e.hit /\ f.row.to = c /\ f.row.cut = e.cut
    BY <2>1
  <2>3. e.hit = c
    BY <1>4, <1>6, <2>1, <2>2
  <2> QED
    BY <2>2, <2>3
<1> QED
  BY <1>1, <1>2, <1>3, <1>5, <1>6 DEF Fits

LEMMA SilenceFits ==
  ASSUME NEW b, NEW e, NEW us, NEW ca, NEW con, Fits(e, b, us, ca, con),
         NEW us2, NEW ca2, NEW con2, SilenceRight(b, us, ca, con, us2, ca2, con2)
  PROVE  Fits(e, b, us2, ca2, con2)
  BY DEF Fits, SilenceRight

LEMMA MovedFits ==
  ASSUME NEW log \in [Blocks -> Told], NEW us, NEW ca, NEW con,
         \A b \in Blocks : Fits(log[b], b, us, ca, con),
         NEW B, NEW k \in Kinds, NEW t \in Tiers, NEW T,
         NEW us2, NEW ca2, NEW con2 \in [Blocks -> Contents],
         \A b \in Blocks : IF b \in B THEN RecordRight(b, k, t, b \in T, us, ca, con, us2, ca2, con2)
                           ELSE SilenceRight(b, us, ca, con, us2, ca2, con2),
         NEW log2, log2 = Moved(log, B, k, t, con2, T)
  PROVE  log2 \in [Blocks -> Told] /\ \A b \in Blocks : Fits(log2[b], b, us2, ca2, con2)
<1>1. ASSUME NEW b \in Blocks PROVE log2[b] \in Told /\ Fits(log2[b], b, us2, ca2, con2)
  <2> PICK e \in Told : e = log[b]
    OBVIOUS
  <2>0. PICK ok \in BOOLEAN : ok = (b \in T)
    <3>1. (b \in T) \in BOOLEAN
      OBVIOUS
    <3> QED
      BY <3>1, Zenon
  <2> PICK f : f = log2[b]
    OBVIOUS
  <2>1. Fits(e, b, us, ca, con) /\ con2[b] \in Contents
    OBVIOUS
  <2>2. CASE b \in B
    <3>1. f = After(e, k, t, con2[b], ok)
      <4>1. f = After(e, k, t, con2[b], b \in T)
        BY <2>2 DEF Moved
      <4> QED
        BY <2>0, <4>1, Zenon
    <3>2. RecordRight(b, k, t, ok, us, ca, con, us2, ca2, con2)
      <4>1. RecordRight(b, k, t, b \in T, us, ca, con, us2, ca2, con2)
        BY <2>2
      <4> QED
        BY <2>0, <4>1, Zenon
    <3>3. f \in Told /\ Fits(f, b, us2, ca2, con2)
      BY <2>1, <3>1, <3>2, RecordFits
    <3> QED
      BY <3>3
  <2>3. CASE b \notin B
    <3>1. log2[b] = e
      BY <2>3 DEF Moved
    <3>2. SilenceRight(b, us, ca, con, us2, ca2, con2)
      BY <2>3
    <3> QED
      BY <2>1, <3>1, <3>2, SilenceFits
  <2> QED
    BY <2>2, <2>3
<1>2. log2 = [b \in Blocks |-> log2[b]]
  BY DEF Moved
<1> QED
  BY <1>1, <1>2

-----------------------------------------------------------------------------
(* What a call does, apart from its records.                               *)

StateTypes ==
  /\ users \in [Blocks -> SUBSET Requests]
  /\ cached \in SUBSET Blocks /\ lost \in SUBSET Blocks
  /\ content \in [Blocks -> Contents]
  /\ lost # {} => build.oneShot

\* What a step may use of the state before it.
LEMMA Before ==
  ASSUME CacheInv
  PROVE  /\ build \in Build /\ StateTypes /\ OneHolder
         /\ told \in [Blocks -> Told]
         /\ \A b \in Blocks : /\ told[b] \in Told /\ content[b] \in Contents
                              /\ Fits(told[b], b, users, cached, content)
  BY DEF CacheInv, TypeOK, StateTypes, AllFit

\* What it has to show of the state after it.
LEMMA AfterStep ==
  ASSUME build \in Build, build' = build, StateTypes', OneHolder', told' \in [Blocks -> Told],
         \A b \in Blocks : Fits(told'[b], b, users', cached', content')
  PROVE  CacheInv'
<1>1. ASSUME NEW b \in Blocks PROVE Fits(told[b], b, users, cached, content)'
  BY DEF Fits, EndsSeen, StartsSeen, CutSeen, Resident
<1> QED
  BY <1>1 DEF CacheInv, TypeOK, StateTypes, AllFit

\* A call that records the blocks of B is right to record no others.
CallRight(B, k, t, T) ==
  \A b \in Blocks :
    IF b \in B THEN RecordRight(b, k, t, b \in T, users, cached, content, users', cached', content')
    ELSE SilenceRight(b, users, cached, content, users', cached', content')

LEMMA CallFits ==
  ASSUME CacheInv, content' \in [Blocks -> Contents],
         NEW B, NEW k \in Kinds, NEW t \in Tiers, NEW T, CallRight(B, k, t, T),
         NEW log, log = Moved(told, B, k, t, content', T)
  PROVE  log \in [Blocks -> Told] /\ \A b \in Blocks : Fits(log[b], b, users', cached', content')
<1>1. told \in [Blocks -> Told] /\ \A b \in Blocks : Fits(told[b], b, users, cached, content)
  BY Before
<1> QED
  BY <1>1, MovedFits DEF CallRight

LEMMA RefillTypes ==
  ASSUME StateTypes, NEW B \in SUBSET Blocks, Refill(B)
  PROVE  content' \in [Blocks -> Contents] /\ \A b \in Blocks \ B : content'[b] = content[b]
<1>1. ASSUME NEW b \in Blocks
      PROVE  (IF b \in B THEN content[b] + 1 ELSE content[b]) \in Contents
  BY CacheAssumption DEF StateTypes, Refill, Contents
<1> QED
  BY <1>1 DEF Refill

LEMMA TierFacts ==
  /\ {"HBM", "DRAM", "STORE", "none"} \subseteq Tiers
  /\ {"allocate", "free", "evict", "prefix_hit", "hash_insert", "tier_promote", "tier_demote"} \subseteq Kinds
  /\ TierAfter("allocate") = "HBM" /\ TierAfter("prefix_hit") = "HBM" /\ TierAfter("hash_insert") = "HBM"
  /\ TierAfter("free") = "none" /\ TierAfter("evict") = "none"
  BY DEF Tiers, TierAfter, Kinds

LEMMA SeenFacts ==
  ASSUME NEW site, NEW B
  PROVE  Seen(site, B) = IF site \in build.seen THEN B ELSE {}
  BY DEF Seen

-----------------------------------------------------------------------------
(* The calls, one by one.                                                  *)

LEMMA AllocStep ==
  ASSUME CacheInv, NEW q \in Requests, AllocBlocks(q) \/ Alloc(q)
  PROVE  CacheInv'
<1>1. build' = build
  BY DEF AllocBlocks, Alloc, IsCall
<1>2. PICK B \in NonEmpty(Free) :
        HandOut(q, B) /\ told' = Moved(told, Seen("allocate", B), "allocate", "HBM", content', Seen("allocate", B))
  BY TierFacts DEF AllocBlocks, Alloc, Logged
<1> PICK R : R = Seen("allocate", B)
  OBVIOUS
<1>3. B \in SUBSET Blocks /\ \A b \in B : b \notin cached /\ users[b] = {}
  BY DEF NonEmpty, Free
<1>4. /\ cached' = cached /\ lost' = lost
      /\ users' = [b \in Blocks |-> IF b \in B THEN {q} ELSE users[b]]
      /\ content' \in [Blocks -> Contents]
      /\ \A b \in Blocks \ B : content'[b] = content[b]
  BY <1>2, <1>3, Before, RefillTypes DEF HandOut
<1>5. StateTypes' /\ OneHolder'
  BY <1>1, <1>4, Before DEF StateTypes, OneHolder
<1>6. CallRight(R, "allocate", "HBM", R)
  BY <1>3, <1>4, SeenFacts DEF CallRight, RecordRight, SilenceRight, Resident, StartsSeen
<1>7. told' \in [Blocks -> Told] /\ \A b \in Blocks : Fits(told'[b], b, users', cached', content')
  BY <1>2, <1>4, <1>6, TierFacts, CallFits
<1> QED
  BY <1>1, <1>5, <1>7, Before, AfterStep

\* In SGLang only what is not in the tree is given to the allocator.
LEMMA FreeStep ==
  ASSUME CacheInv, NEW q \in Requests, FreeBlocks(q) \/ FreeIndices(q)
  PROVE  CacheInv'
<1>1. build' = build
  BY DEF FreeBlocks, FreeIndices, IsCall
<1>2. PICK B, L : /\ LetGo(q, B, L) /\ told' = Logged(told, Seen("free", B), "free", content)
                  /\ B \in SUBSET Blocks /\ L \in SUBSET Blocks /\ (L # {} => build.oneShot)
                  /\ B \in SUBSET Held(q)
                  /\ build.engine = "sglang" => B \cap cached = {}
  <2>1. CASE FreeBlocks(q)
    <3> PICK B : B = Held(q)
      OBVIOUS
    <3> PICK L : L = Spent(B)
      OBVIOUS
    <3>1. LetGo(q, B, L) /\ told' = Logged(told, Seen("free", B), "free", content) /\ build.engine = "vllm"
      BY <2>1 DEF FreeBlocks, IsCall
    <3>2. B \in SUBSET Blocks /\ L \in SUBSET Blocks /\ (L # {} => build.oneShot)
      BY DEF Held, Spent
    <3> QED
      BY <3>1, <3>2
  <2>2. CASE FreeIndices(q)
    <3> PICK B : B = Held(q) \ cached
      OBVIOUS
    <3>1. LetGo(q, B, {}) /\ told' = Logged(told, Seen("free", B), "free", content)
      BY <2>2 DEF FreeIndices
    <3>2. B \in SUBSET Blocks /\ {} \in SUBSET Blocks
      BY DEF Held
    <3> QED
      BY <3>1, <3>2
  <2> QED
    BY <2>1, <2>2
<1>3. /\ content' = content /\ cached' = cached /\ lost' = lost \cup L
      /\ users' = [b \in Blocks |-> IF b \in B THEN users[b] \ {q} ELSE users[b]]
  BY <1>2 DEF LetGo
<1>4. StateTypes' /\ OneHolder'
  BY <1>1, <1>2, <1>3, Before DEF StateTypes, OneHolder
<1>5. ASSUME build.engine = "sglang", NEW b \in B PROVE users'[b] = {} /\ b \notin cached'
  BY <1>2, <1>3, <1>5, Before DEF OneHolder, Held
<1> PICK R : R = Seen("free", B)
  OBVIOUS
<1>6. CallRight(R, "free", "none", R)
  BY <1>3, <1>5, SeenFacts DEF CallRight, RecordRight, SilenceRight, Resident, EndsSeen, StartsSeen
<1>7. told' = Moved(told, R, "free", "none", content', R)
  BY <1>2, <1>3, TierFacts DEF Logged
<1>8. told' \in [Blocks -> Told] /\ \A b \in Blocks : Fits(told'[b], b, users', cached', content')
  BY <1>4, <1>6, <1>7, TierFacts, CallFits DEF StateTypes
<1> QED
  BY <1>1, <1>4, <1>8, Before, AfterStep

\* Holders come and go, and nothing is recorded: of blocks that stay cached.
LEMMA HolderStep ==
  ASSUME CacheInv, NEW q \in Requests, IncRef(q) \/ IncLockRef(q) \/ DecLockRef(q)
  PROVE  CacheInv'
<1>1. build' = build /\ told' = told /\ content' = content /\ cached' = cached /\ lost' = lost
  BY DEF IncRef, IncLockRef, DecLockRef, IsCall, Take, LetGo
<1>2. PICK B \in SUBSET cached : \/ users' = [b \in Blocks |-> IF b \in B THEN users[b] \cup {q} ELSE users[b]]
                                 \/ users' = [b \in Blocks |-> IF b \in B THEN users[b] \ {q} ELSE users[b]]
  BY DEF IncRef, IncLockRef, DecLockRef, NonEmpty, Take, LetGo
<1>3. users' \in [Blocks -> SUBSET Requests] /\ \A b \in Blocks : b \in cached \/ users'[b] = users[b]
  BY <1>2, Before DEF StateTypes
<1>4. StateTypes' /\ OneHolder'
  BY <1>1, <1>3, Before DEF StateTypes, OneHolder
<1>5. ASSUME NEW b \in Blocks PROVE SilenceRight(b, users, cached, content, users', cached', content')
  BY <1>1, <1>3 DEF SilenceRight, Resident
<1>6. ASSUME NEW b \in Blocks PROVE Fits(told'[b], b, users', cached', content')
  BY <1>1, <1>5, Before, SilenceFits
<1> QED
  BY <1>1, <1>4, <1>6, Before, AfterStep

\* What leaves the cache as it is, and one record of each block of B.
LEMMA RecordStep ==
  ASSUME CacheInv, build' = build, Untouched, NEW B, NEW k \in Kinds, NEW t \in Tiers, NEW T,
         told' = Moved(told, B, k, t, content, T),
         t = "HBM" => \A b \in B \cap T : Resident(b, users, cached),
         t # "none", k = "prefix_hit" => B \subseteq cached
  PROVE  CacheInv'
<1>1. users' = users /\ cached' = cached /\ content' = content /\ lost' = lost
  BY DEF Untouched, cacheVars
<1>2. StateTypes' /\ OneHolder'
  BY <1>1, Before DEF StateTypes, OneHolder
<1>3. CallRight(B, k, t, T)
  BY <1>1 DEF CallRight, RecordRight, SilenceRight
<1>4. told' = Moved(told, B, k, t, content', T)
  BY <1>1
<1>5. told' \in [Blocks -> Told] /\ \A b \in Blocks : Fits(told'[b], b, users', cached', content')
  BY <1>2, <1>3, <1>4, CallFits DEF StateTypes
<1> QED
  BY <1>2, <1>5, Before, AfterStep

LEMMA LookupStep ==
  ASSUME CacheInv, GetComputedBlocks \/ MatchPrefix
  PROVE  CacheInv'
<1>1. build' = build /\ Untouched
  BY DEF GetComputedBlocks, MatchPrefix, IsCall
<1>2. PICK S \in NonEmpty(cached) : told' = Logged(told, Seen("lookup", S), "prefix_hit", content)
  BY DEF GetComputedBlocks, MatchPrefix
<1> PICK B : B = Seen("lookup", S)
  OBVIOUS
<1>3. B \subseteq cached /\ told' = Moved(told, B, "prefix_hit", "HBM", content, B)
  BY <1>2, TierFacts, SeenFacts DEF NonEmpty, Logged
<1> QED
  BY <1>1, <1>3, TierFacts, RecordStep DEF Resident

\* The movements that leave device memory as it is, and those that say what is not so.
LEMMA MovementStep ==
  ASSUME CacheInv, Copy \/ LoadRaises \/ \E q \in Requests : UpdateStateAfterAlloc(q)
  PROVE  CacheInv'
<1>1. CASE Copy
  <2>1. PICK N \in NonEmpty(Blocks), p \in CopyPlans : told' = Moved(told, N, p[1], p[2], content, N)
    BY <1>1 DEF Copy
  <2>2. p[1] \in Kinds /\ p[2] \in Tiers /\ p[1] # "prefix_hit" /\ p[2] # "HBM" /\ p[2] # "none"
    BY DEF CopyPlans, Kinds, Tiers
  <2>3. build' = build /\ Untouched
    BY <1>1 DEF Copy, IsMovement, IsCall
  <2> QED
    BY <2>1, <2>2, <2>3, RecordStep
<1>2. CASE LoadRaises
  <2>1. PICK N : told' = Moved(told, N, "tier_promote", "HBM", content, {})
    BY <1>2 DEF LoadRaises
  <2>2. build' = build /\ Untouched
    BY <1>2 DEF LoadRaises, IsMovement, IsCall
  <2> QED
    BY <2>1, <2>2, TierFacts, RecordStep
<1>3. ASSUME NEW q \in Requests, UpdateStateAfterAlloc(q) PROVE CacheInv'
  <2>1. PICK B \in NonEmpty(Held(q)) : told' = Moved(told, B, "tier_promote", "HBM", content, B)
    BY <1>3 DEF UpdateStateAfterAlloc
  <2>2. build' = build /\ Untouched
    BY <1>3 DEF UpdateStateAfterAlloc, IsCall
  <2>3. \A b \in B : Resident(b, users, cached)
    BY DEF NonEmpty, Held, Resident
  <2> QED
    BY <2>1, <2>2, <2>3, TierFacts, RecordStep
<1> QED
  BY <1>1, <1>2, <1>3

\* cache_full_blocks(), insert(): N goes to the cache, records name R.
LEMMA CachingStep ==
  ASSUME CacheInv, build' = build, NEW N \in SUBSET Blocks, NEW S \in SUBSET Blocks, Recache(N),
         told' = Logged(told, Seen("insert", S), "hash_insert", content),
         \A b \in S \cup N : users[b] # {}
  PROVE  CacheInv'
<1> PICK R : R = Seen("insert", S)
  OBVIOUS
<1>1. users' = users /\ lost' = lost /\ content' = content /\ cached' = cached \cup N
  BY DEF Recache
<1>2. StateTypes' /\ OneHolder'
  BY <1>1, Before DEF StateTypes, OneHolder
<1>3. R \subseteq S
  BY SeenFacts
<1>4. CallRight(R, "hash_insert", "HBM", R)
  BY <1>1, <1>3 DEF CallRight, RecordRight, SilenceRight, Resident
<1>5. told' = Moved(told, R, "hash_insert", "HBM", content', R)
  BY <1>1, TierFacts DEF Logged
<1>6. told' \in [Blocks -> Told] /\ \A b \in Blocks : Fits(told'[b], b, users', cached', content')
  BY <1>2, <1>4, <1>5, TierFacts, CallFits DEF StateTypes
<1> QED
  BY <1>2, <1>6, Before, AfterStep

\* What is evicted has no holders.  In vLLM the eviction is recorded, in SGLang
\* before it the release.
LEMMA UncacheFacts ==
  ASSUME CacheInv, build' = build, NEW B \in NonEmpty(Evictable), Uncache(B)
  PROVE  /\ StateTypes' /\ OneHolder' /\ content' = content /\ B \subseteq Blocks
         /\ \A b \in Blocks : /\ b \in B => ~Resident(b, users', cached') /\ b \notin cached'
                              /\ b \notin B => /\ Resident(b, users', cached') <=> Resident(b, users, cached)
                                               /\ b \in cached => b \in cached'
<1>1. /\ users' = users /\ lost' = lost /\ content' = content /\ cached' = cached \ B
      /\ B \subseteq cached /\ \A b \in B : users[b] = {}
  BY DEF Uncache, NonEmpty, Evictable
<1>2. StateTypes'
  BY <1>1, Before DEF StateTypes
<1>3. OneHolder'
  BY <1>1, Before DEF OneHolder, StateTypes
<1> QED
  BY <1>1, <1>2, <1>3, Before DEF StateTypes, Resident

LEMMA EvictBlocksStep ==
  ASSUME CacheInv, EvictBlocks
  PROVE  CacheInv'
<1>1. build' = build /\ build.engine = "vllm"
  BY DEF EvictBlocks, IsCall
<1>2. PICK B \in NonEmpty(Evictable) : Uncache(B) /\ told' = Logged(told, Evicted(B), "evict", content)
  BY DEF EvictBlocks
<1> PICK R : R = Evicted(B)
  OBVIOUS
<1>3. R = IF "evict" \in build.seen THEN B ELSE {}
  BY SeenFacts DEF Evicted
<1>4. told' = Moved(told, R, "evict", "none", content', R)
  BY <1>1, <1>2, TierFacts, UncacheFacts DEF Logged
<1>5. CallRight(R, "evict", "none", R)
  BY <1>1, <1>2, <1>3, UncacheFacts DEF CallRight, RecordRight, SilenceRight, EndsSeen, StartsSeen, CutSeen
<1>6. content' \in [Blocks -> Contents]
  BY <1>1, <1>2, UncacheFacts DEF StateTypes
<1>7. told' \in [Blocks -> Told] /\ \A b \in Blocks : Fits(told'[b], b, users', cached', content')
  BY <1>4, <1>5, <1>6, TierFacts, CallFits
<1> QED
  BY <1>1, <1>2, <1>7, Before, UncacheFacts, AfterStep

LEMMA EvictStep ==
  ASSUME CacheInv, Evict
  PROVE  CacheInv'
<1>1. build' = build /\ build.engine = "sglang"
  BY DEF Evict, IsCall
<1>2. PICK B \in NonEmpty(Evictable) :
        /\ Uncache(B)
        /\ \E N, k, t :
             /\ told' = Moved(Logged(told, Seen("free", B), "free", content), N, k, t, content, N)
             /\ \/ k = "tier_demote" /\ t = "DRAM"
                \/ k = "evict" /\ t = "none" /\ N \subseteq B
  <2>1. PICK B \in NonEmpty(Evictable) :
          /\ Uncache(B)
          /\ \/ \E N \in SUBSET Blocks :
                  told' = Moved(Logged(told, Seen("free", B), "free", content), N, "tier_demote", "DRAM", content, N)
             \/ told' = Logged(Logged(told, Seen("free", B), "free", content), Evicted(B), "evict", content)
    BY DEF Evict
  <2> PICK R : R = Evicted(B)
    OBVIOUS
  <2>2. R \subseteq B
    BY SeenFacts DEF Evicted
  <2>3. \A log : Logged(log, R, "evict", content) = Moved(log, R, "evict", "none", content, R)
    BY TierFacts DEF Logged
  <2> QED
    BY <2>1, <2>2, <2>3
<1>3. PICK N, k, t : /\ told' = Moved(Logged(told, Seen("free", B), "free", content), N, k, t, content, N)
                     /\ \/ k = "tier_demote" /\ t = "DRAM"
                        \/ k = "evict" /\ t = "none" /\ N \subseteq B
  BY <1>2
<1> PICK R : R = Seen("free", B)
  OBVIOUS
<1> PICK freed : freed = Moved(told, R, "free", "none", content', R)
  OBVIOUS
<1>4. R = IF "free" \in build.seen THEN B ELSE {}
  BY SeenFacts
<1>5. told' = Moved(freed, N, k, t, content', N)
  BY <1>1, <1>2, <1>3, TierFacts, UncacheFacts DEF Logged
<1>6. content' \in [Blocks -> Contents]
  BY <1>1, <1>2, UncacheFacts DEF StateTypes
<1>7. CallRight(R, "free", "none", R)
  BY <1>1, <1>2, <1>4, UncacheFacts DEF CallRight, RecordRight, SilenceRight, EndsSeen, StartsSeen, CutSeen
<1>8. freed \in [Blocks -> Told] /\ \A b \in Blocks : Fits(freed[b], b, users', cached', content')
  BY <1>7, <1>6, TierFacts, CallFits
<1>9. ASSUME NEW b \in Blocks
      PROVE  IF b \in N THEN RecordRight(b, k, t, b \in N, users', cached', content', users', cached', content')
             ELSE SilenceRight(b, users', cached', content', users', cached', content')
  BY <1>1, <1>2, <1>3, UncacheFacts DEF RecordRight, SilenceRight
<1>10. k \in Kinds /\ t \in Tiers
  BY <1>3, TierFacts
<1>11. told' \in [Blocks -> Told] /\ \A b \in Blocks : Fits(told'[b], b, users', cached', content')
  BY <1>5, <1>8, <1>9, <1>10, <1>6, MovedFits
<1> QED
  BY <1>1, <1>2, <1>11, Before, UncacheFacts, AfterStep

\* The blocks that are filled are handed out first; of others the record says it
\* without being true.
LEMMA LoadStep ==
  ASSUME CacheInv, Load
  PROVE  CacheInv'
<1>1. build' = build /\ users' = users /\ lost' = lost
  BY DEF Load, IsMovement, IsCall
<1>2. PICK B \in NonEmpty(Free), N \in SUBSET Blocks :
        /\ cached' = cached \cup B
        /\ Refill(B)
        /\ told' = Moved(Logged(told, Seen("allocate", B), "allocate", content'),
                         N, "tier_promote", "HBM", content', B)
  BY DEF Load
<1> PICK R : R = Seen("allocate", B)
  OBVIOUS
<1> PICK filled : filled = Moved(told, R, "allocate", "HBM", content', R)
  OBVIOUS
<1>3. B \in SUBSET Blocks /\ \A b \in B : b \notin cached /\ users[b] = {}
  BY DEF NonEmpty, Free
<1>4. content' \in [Blocks -> Contents] /\ \A b \in Blocks \ B : content'[b] = content[b]
  BY <1>2, <1>3, Before, RefillTypes
<1>5. StateTypes' /\ OneHolder'
  BY <1>1, <1>2, <1>3, <1>4, Before DEF StateTypes, OneHolder
<1>6. CallRight(R, "allocate", "HBM", R)
  BY <1>1, <1>2, <1>3, <1>4, SeenFacts DEF CallRight, RecordRight, SilenceRight, Resident, StartsSeen
<1>7. filled \in [Blocks -> Told] /\ \A b \in Blocks : Fits(filled[b], b, users', cached', content')
  BY <1>4, <1>6, TierFacts, CallFits
<1>8. told' = Moved(filled, N, "tier_promote", "HBM", content', B)
  BY <1>2, TierFacts DEF Logged
<1>9. ASSUME NEW b \in Blocks
      PROVE  IF b \in N THEN RecordRight(b, "tier_promote", "HBM", b \in B, users', cached', content', users', cached', content')
             ELSE SilenceRight(b, users', cached', content', users', cached', content')
  BY <1>2 DEF RecordRight, SilenceRight, Resident
<1>10. told' \in [Blocks -> Told] /\ \A b \in Blocks : Fits(told'[b], b, users', cached', content')
  BY <1>4, <1>7, <1>8, <1>9, TierFacts, MovedFits
<1> QED
  BY <1>1, <1>5, <1>10, Before, AfterStep

-----------------------------------------------------------------------------
LEMMA CacheInvInit == Init => CacheInv
<1> SUFFICES ASSUME Init PROVE CacheInv
  OBVIOUS
<1>1. Nothing \in Told /\ Nothing.tier = "none" /\ Nothing.hit = 0 /\ Nothing.row = NoRow
  BY CacheAssumption DEF Nothing, Told, Tiers, Contents
<1>2. TypeOK
  BY <1>1, CacheAssumption DEF Init, TypeOK, Contents
<1>3. OneHolder
  BY DEF Init, OneHolder
<1>4. AllFit
  BY <1>1 DEF Init, AllFit, Fits, Resident
<1> QED
  BY <1>2, <1>3, <1>4 DEF CacheInv

LEMMA CacheInvStep == CacheInv /\ [Next]_vars => CacheInv'
<1> SUFFICES ASSUME CacheInv, [Next]_vars PROVE CacheInv'
  OBVIOUS
<1>1. ASSUME NEW q \in Requests, CacheFullBlocks(q) PROVE CacheInv'
  <2>1. PICK B \in SUBSET Held(q) :
          Recache(B \ Spent(B)) /\ told' = Logged(told, Seen("insert", B \ Spent(B)), "hash_insert", content)
    BY <1>1 DEF CacheFullBlocks, NonEmpty
  <2> PICK N : N = B \ Spent(B)
    OBVIOUS
  <2>2. N \in SUBSET Blocks /\ \A b \in N \cup N : users[b] # {}
    BY DEF Held
  <2>3. build' = build
    BY <1>1 DEF CacheFullBlocks, IsCall
  <2> QED
    BY <2>1, <2>2, <2>3, CachingStep
<1>2. ASSUME NEW q \in Requests, Insert(q) PROVE CacheInv'
  <2>0. PICK B \in SUBSET Held(q) : \E N \in SUBSET B :
          Recache(N) /\ told' = Logged(told, Seen("insert", Inserted(B, N)), "hash_insert", content)
    BY <1>2 DEF Insert, NonEmpty
  <2>1. PICK N \in SUBSET B :
          Recache(N) /\ told' = Logged(told, Seen("insert", Inserted(B, N)), "hash_insert", content)
    BY <2>0
  <2> PICK S : S = Inserted(B, N)
    OBVIOUS
  <2>2. N \in SUBSET Blocks /\ S \in SUBSET Blocks /\ \A b \in S \cup N : users[b] # {}
    BY DEF Held, Inserted
  <2>3. build' = build
    BY <1>2 DEF Insert, IsCall
  <2> QED
    BY <2>1, <2>2, <2>3, CachingStep
<1>3. ASSUME UNCHANGED vars PROVE CacheInv'
  BY <1>3 DEF vars, cacheVars, CacheInv, TypeOK, OneHolder, AllFit, Fits, EndsSeen, StartsSeen, CutSeen, Resident
<1> QED
  BY <1>1, <1>2, <1>3, AllocStep, FreeStep, HolderStep, LookupStep, MovementStep, EvictBlocksStep, EvictStep,
     LoadStep DEF Next

LEMMA CacheInvAlways == Spec => []CacheInv
<1> QED
  BY CacheInvInit, CacheInvStep, PTL DEF Spec

\* Types; blocks are lost to the pool only where the engine passes iterators.
THEOREM TypeCorrect == Spec => []TypeOK
<1>1. CacheInv => TypeOK
  BY DEF CacheInv
<1> QED
  BY <1>1, CacheInvAlways, PTL

\* Where the ends of a stay are wrapped, an interval in device memory of
\* analysis/lib/reuse.py:tier_residency() runs only while the block is held or
\* cached, those aside that a load has opened without bringing the block there; and
\* in SGLang, where allocations are wrapped, a held or cached block has an interval.
THEOREM ResidencyHolds == Spec => []ResidencyIsTrue
<1>1. CacheInv => ResidencyIsTrue
  BY DEF CacheInv, TypeOK, Build, AllFit, Fits, ResidencyIsTrue, Resident, EndsSeen, StartsSeen
<1> QED
  BY <1>1, CacheInvAlways, PTL

\* Where evictions are wrapped in vLLM, or releases in SGLang, two hits that
\* reuse_distance() pairs are of one content, or a record that leaves the block without
\* a tier lies between them.
THEOREM HitsAreOfOneStay == Spec => []HitsOfOneStay
<1>1. CacheInv => HitsOfOneStay
  BY DEF CacheInv, AllFit, Fits, HitsOfOneStay, CutSeen
<1> QED
  BY <1>1, CacheInvAlways, PTL
=============================================================================
