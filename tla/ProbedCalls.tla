----------------------------- MODULE ProbedCalls -----------------------------
(***************************************************************************)
(* The wrappers that record a call of the engine as a transfer or as a     *)
(* movement of weights: bkvt/integrations/weight_probe_common.py and the   *)
(* transfer wrappers of sglang/hicache_probe.py and sglang/disagg_probe.py.*)
(* Wrapped methods call one another on a thread and may raise; what a      *)
(* collective is tagged with depends on a thread-local payload context.    *)
(*                                                                         *)
(* One frame stands for one call of a wrapper that has not returned.  A    *)
(* pair of transfer_start() and transfer_end() without a call in between   *)
(* is one record here.  Tracing is enabled: the wrappers do nothing        *)
(* otherwise.  returned and raised are history variables.                  *)
(***************************************************************************)
EXTENDS Naturals, Sequences, SequencesExt

CONSTANTS
  Threads,   \* engine threads
  Items,     \* parameters, experts, adapters or blocks a call is about
  Inside,    \* Inside[f]: the kinds of wrapped call a call of kind f may make
  MaxCalls,  \* bound: wrapped calls in a behaviour
  MaxDepth   \* bound: wrapped calls under way on a thread

\* The wrappers that set a payload context for the time of the call, ...
Setters == {"load", "update", "lora", "moe"}
\* ... those that record weights after a call that returned, ...
Movers == Setters \cup {"offload"}
\* ... the two uses of make_collective_wrapper(), without and with a default
\* payload kind, and the wrappers that open a transfer around the call.
Collectives == {"gather", "alltoall"}
Bracketing == Collectives \cup {"move", "disagg"}
\* "move" is a HiCache controller's method, "tier" one of the HiRadixCache.
BlockMovers == {"move", "tier"}
Kinds == Movers \cup Bracketing \cup BlockMovers

ASSUME ProbedCallsAssumption ==
  /\ Inside \in [Kinds -> SUBSET Kinds]
  /\ MaxCalls \in Nat
  /\ MaxDepth \in Nat

VARIABLES
  stack,      \* stack[t]: the wrapped calls under way on thread t, outermost first
  payload,    \* payload[t]: _TLS.payload
  transfers,  \* the transfers recorded; a transfer's id is its index
  recorded,   \* recorded[f][i]: weight or block records that calls of kind f gave item i
  calls,      \* wrapped calls so far
  returned,   \* returned[f]: how many calls of kind f have returned
  raised      \* the transfers whose call has raised

vars == <<stack, payload, transfers, recorded, calls, returned, raised>>

-----------------------------------------------------------------------------
NoContext == [kind |-> "none", reason |-> "none"]

ContextOf == [
  load   |-> [kind |-> "weight", reason |-> "startup_load"],
  update |-> [kind |-> "weight", reason |-> "rlhf_update"],
  lora   |-> [kind |-> "weight", reason |-> "lora_swap"],
  moe    |-> [kind |-> "activation", reason |-> "expert_routing"]]

Contexts == {NoContext} \cup {ContextOf[f] : f \in Setters}

PayloadKinds == {"kv", "weight", "activation"}

NoTransfer == 0

Top(t) == Last(stack[t])

\* Thread t is in the engine's code: outside every wrapper, or in a wrapped call.
InEngine(t) == \A i \in DOMAIN stack[t] : stack[t][i].step = "body"

MayCall(t, f) ==
  /\ InEngine(t)
  /\ stack[t] # <<>> => f \in Inside[Top(t).kind]
  /\ Len(stack[t]) < MaxDepth
  /\ calls < MaxCalls

\* current_payload_context(default_kind) of a collective.
Tag_BugDefaultFirst(t, f) ==
  IF f = "alltoall" THEN [kind |-> "activation", reason |-> "none"] ELSE payload[t]

Tag(t, f) ==
  IF payload[t] = NoContext /\ f = "alltoall" THEN [kind |-> "activation", reason |-> "none"]
  ELSE payload[t]

\* Who issued it, from the reason in the context.
IssuedBy_BugReason(tag) == IF tag.reason = "none" THEN "moe_layer" ELSE tag.reason

IssuedBy(tag) == IF tag.reason = "rlhf_update" THEN "weight_update" ELSE "moe_layer"

Push(t, f, x) ==
  /\ stack' = [stack EXCEPT ![t] = Append(@,
       [kind |-> f, step |-> "body", before |-> payload[t], transfer |-> x, todo |-> {}])]
  /\ calls' = calls + 1

Open(kind, by) == transfers' = Append(transfers, [kind |-> kind, by |-> by, end |-> "open"])

\* transfer_end(): an id is ended once.
Closed_BugOnlyIfDone(x, how) ==
  IF x = NoTransfer \/ how # "done" THEN transfers ELSE [transfers EXCEPT ![x].end = how]

Closed(x, how) ==
  IF x = NoTransfer THEN transfers ELSE [transfers EXCEPT ![x].end = how]

Init ==
  /\ stack = [t \in Threads |-> <<>>]
  /\ payload = [t \in Threads |-> NoContext]
  /\ transfers = <<>>
  /\ recorded = [f \in Kinds |-> [i \in Items |-> 0]]
  /\ calls = 0
  /\ returned = [f \in Kinds |-> 0]
  /\ raised = {}

-----------------------------------------------------------------------------
\* A wrapper with a payload context: with payload_context(...), then the call.
CallInContext(t, f) ==
  /\ f \in Setters
  /\ MayCall(t, f)
  /\ Push(t, f, NoTransfer)
  /\ payload' = [payload EXCEPT ![t] = ContextOf[f]]
  /\ UNCHANGED <<transfers, recorded, returned, raised>>

\* A collective outside every context and without a default kind is not recorded.
CallUntagged(t) ==
  /\ MayCall(t, "gather")
  /\ Tag(t, "gather") = NoContext
  /\ Push(t, "gather", NoTransfer)
  /\ UNCHANGED <<payload, transfers, recorded, returned, raised>>

CallCollective(t, f) ==
  /\ f \in Collectives
  /\ MayCall(t, f)
  /\ Tag(t, f) # NoContext
  /\ Push(t, f, Len(transfers) + 1)
  /\ Open(Tag(t, f).kind, IssuedBy(Tag(t, f)))
  /\ UNCHANGED <<payload, recorded, returned, raised>>

\* A HiCache or disaggregation transfer: transfer_start() defaults to KV.
CallTransfer(t, f) ==
  /\ f \in Bracketing \ Collectives
  /\ MayCall(t, f)
  /\ Push(t, f, Len(transfers) + 1)
  /\ Open("kv", IF f = "move" THEN "cache_controller" ELSE "connector")
  /\ UNCHANGED <<payload, recorded, returned, raised>>

\* Wrappers that only look at the call once it has returned.
CallPlain(t, f) ==
  /\ f \in {"offload", "tier"}
  /\ MayCall(t, f)
  /\ Push(t, f, NoTransfer)
  /\ UNCHANGED <<payload, transfers, recorded, returned, raised>>

Call(t) ==
  \/ \E f \in Setters : CallInContext(t, f)
  \/ CallUntagged(t)
  \/ \E f \in Collectives : CallCollective(t, f)
  \/ \E f \in Bracketing \ Collectives : CallTransfer(t, f)
  \/ \E f \in {"offload", "tier"} : CallPlain(t, f)

-----------------------------------------------------------------------------
\* What a wrapper has to record once the call is over: weights only after a
\* return, at least one; blocks as far as the sampler lets them through, and
\* those of a controller's method also after an exception.
RecordsAfter_BugFinally(f, ok) ==
  IF f \in Movers THEN SUBSET Items \ {{}} ELSE IF f \in BlockMovers THEN SUBSET Items ELSE {{}}

RecordsAfter(f, ok) ==
  CASE f \in Movers /\ ok -> SUBSET Items \ {{}}
    [] f = "move" \/ (f = "tier" /\ ok) -> SUBSET Items
    [] OTHER -> {{}}

\* The context managers and finally clauses of a wrapper whose call is over.
Unwind_BugReset(t) ==
  payload' = [payload EXCEPT ![t] = IF Top(t).kind \in Setters THEN NoContext ELSE @]

Unwind(t) ==
  payload' = [payload EXCEPT ![t] = IF Top(t).kind \in Setters THEN Top(t).before ELSE @]

Leave(t, todo) ==
  stack' = [stack EXCEPT ![t] =
    IF todo = {} THEN Front(stack[t])
    ELSE Append(Front(stack[t]), [Top(t) EXCEPT !.step = "records", !.todo = todo])]

Return(t) ==
  /\ stack[t] # <<>>
  /\ Top(t).step = "body"
  /\ Unwind(t)
  /\ transfers' = Closed(Top(t).transfer, "done")
  /\ returned' = [returned EXCEPT ![Top(t).kind] = @ + 1]
  /\ \E todo \in RecordsAfter(Top(t).kind, TRUE) : Leave(t, todo)
  /\ UNCHANGED <<recorded, calls, raised>>

\* The exception goes on to the caller, whose own call may or may not raise.
Raise(t) ==
  /\ stack[t] # <<>>
  /\ Top(t).step = "body"
  /\ Unwind(t)
  /\ transfers' = Closed(Top(t).transfer, "cancelled")
  /\ raised' = raised \cup ({Top(t).transfer} \ {NoTransfer})
  /\ \E todo \in RecordsAfter(Top(t).kind, FALSE) : Leave(t, todo)
  /\ UNCHANGED <<recorded, calls, returned>>

\* _emit_weight() and _emit_weight_transfer(), or the record of one block.
PayloadOf(f) == IF f = "moe" THEN "activation" ELSE "weight"

IssuerOf(f) ==
  CASE f = "moe" -> "moe_layer"
    [] f = "update" -> "weight_update"
    [] f = "lora" -> "lora_manager"
    [] OTHER -> "model_loader"

Record(t) ==
  /\ stack[t] # <<>>
  /\ Top(t).step = "records"
  /\ \E i \in Top(t).todo :
       /\ recorded' = [recorded EXCEPT ![Top(t).kind][i] = @ + 1]
       /\ Leave(t, Top(t).todo \ {i})
  /\ transfers' =
       IF Top(t).kind \in Movers
       THEN Append(transfers, [kind |-> PayloadOf(Top(t).kind), by |-> IssuerOf(Top(t).kind), end |-> "done"])
       ELSE transfers
  /\ UNCHANGED <<payload, calls, returned, raised>>

Next == \E t \in Threads : Call(t) \/ Return(t) \/ Raise(t) \/ Record(t)

Spec == Init /\ [][Next]_vars

-----------------------------------------------------------------------------
\* A call that sets a context and is in progress.
SetsContext(frame) == frame.kind \in Setters /\ frame.step = "body"

\* Those among the first n calls of a stack.
Contexted(s, n) == {i \in 1..n : SetsContext(s[i])}

\* c is the context of the innermost of them, or none if there is no such call.
IsInnermost(s, n, c) ==
  \/ Contexted(s, n) = {} /\ c = NoContext
  \/ \E i \in Contexted(s, n) :
       c = ContextOf[s[i].kind] /\ \A j \in Contexted(s, n) : j <= i

\* The i-th call of a stack is in progress and transfer x was opened for it.
Carries(s, i, x) == i \in DOMAIN s /\ s[i].step = "body" /\ s[i].transfer = x

Frame == [kind : Kinds, step : {"body", "records"}, before : Contexts, transfer : Nat, todo : SUBSET Items]

Transfer == [kind : PayloadKinds,
             by : {"weight_update", "moe_layer", "cache_controller", "connector", "lora_manager", "model_loader"},
             end : {"open", "done", "cancelled"}]

-----------------------------------------------------------------------------
TypeOK ==
  /\ stack \in [Threads -> Seq(Frame)]
  /\ payload \in [Threads -> Contexts]
  /\ transfers \in Seq(Transfer)
  /\ recorded \in [Kinds -> [Items -> Nat]]
  /\ calls \in 0..MaxCalls
  /\ returned \in [Kinds -> Nat]
  /\ raised \subseteq 1..Len(transfers)
  /\ \A t \in Threads : Len(stack[t]) <= MaxDepth

\* The payload context of a thread is that of the innermost wrapped call in
\* progress on that thread which sets one, however the calls inside it ended
\* and whatever other threads do; while a wrapper writes its own records it is
\* the caller's again (payload_context, weight_probe_common.py:18-41).
ContextIsInnermost == \A t \in Threads : IsInnermost(stack[t], Len(stack[t]), payload[t])

\* A collective is recorded as a weight transfer if the innermost call around
\* it that tells is a load, an update or an adapter swap, and as an activation
\* in a MoE layer or outside all of them; it is left out only outside all of
\* them (DESIGN.md 15.8, make_collective_wrapper).
KindTellsCaller ==
  \A t \in Threads : \A i \in DOMAIN stack[t] : stack[t][i].kind \in Collectives =>
    \E around \in Contexts :
      /\ IsInnermost(stack[t], i - 1, around)
      /\ IF stack[t][i].transfer = NoTransfer THEN around = NoContext
         ELSE transfers[stack[t][i].transfer].kind =
                (IF around = NoContext THEN "activation" ELSE around.kind)

\* A transfer opened around a call is open exactly as long as that call is in
\* progress: an exception does not leave it open, no other call ends it, and
\* it is cancelled if and only if its call raised.
TransfersFollowCalls ==
  \A x \in DOMAIN transfers :
    /\ transfers[x].end = "open" <=>
         \E t \in Threads : \E i \in DOMAIN stack[t] : Carries(stack[t], i, x)
    /\ transfers[x].end = "cancelled" <=> x \in raised
    /\ \A t, u \in Threads : \A i \in DOMAIN stack[t], j \in DOMAIN stack[u] :
         Carries(stack[t], i, x) /\ Carries(stack[u], j, x) => t = u /\ i = j

\* There are no more weight records of a kind than calls that returned: a load,
\* update, swap or offload that raised leaves none, although the collectives
\* inside it have been recorded; nor are there block records of a radix cache's
\* method that raised.  A controller's method is different: its finally clause
\* records the blocks of a failed movement as well (hicache_probe.py:235).
RecordsNeedReturn == \A f \in Movers \cup {"tier"}, i \in Items : recorded[f][i] <= returned[f]
=============================================================================
