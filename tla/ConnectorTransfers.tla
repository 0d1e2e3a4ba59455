-------------------------- MODULE ConnectorTransfers --------------------------
(***************************************************************************)
(* The tracing wrapper of a vLLM KV connector,                             *)
(* bkvt/integrations/vllm/connector_wrapper.py: which transfer ids it      *)
(* opens, where it keeps each of them while the transfer is under way, and *)
(* which call closes it.  The wrapped connector and the engine that calls  *)
(* it are external.                                                        *)
(*                                                                         *)
(* transfer_start() and transfer_end() are single steps here; module       *)
(* Emitter opens them up.  Only _loads_by_layer and _saves carry state     *)
(* from call to call: get_num_new_matched_tokens(), build_connector_meta() *)
(* and update_state_after_alloc() emit records and leave them alone.       *)
(* The variables about, accepted, arrived, reported and abandoned belong   *)
(* to the wrapped connector or are history.                                *)
(***************************************************************************)
EXTENDS Integers, FiniteSets

CONSTANTS
  Threads,    \* engine threads that call the connector
  Layers,     \* model layers
  NoLayer,    \* None: a load whose call names no layer moves every layer
  Transfers,  \* ids new_transfer_id() may draw; it never draws one twice
  Raising,    \* TRUE: calls of the wrapped connector may raise an Exception
  Interrupts  \* TRUE: they may be left by KeyboardInterrupt or SystemExit

ASSUME ConnectorAssumption ==
  /\ NoLayer \notin Layers
  /\ Raising \in BOOLEAN
  /\ Interrupts \in BOOLEAN

VARIABLES
  pc,        \* pc[t]: where thread t is in a call of the wrapper
  arg,       \* arg[t]: the layer that call is about
  hand,      \* hand[t]: the transfers it started, or popped and has not ended
  loads,     \* _loads_by_layer; a missing key is the empty set
  saves,     \* _saves
  status,    \* status[x]: "unused", "open", or the record that closed it
  about,     \* about[x]: the direction and the layer it was started with
  accepted,  \* transfers whose start_load_kv or save_kv_layer succeeded
  arrived,   \* the layers of a transfer whose bytes have been moved
  reported,  \* transfers that a get_finished() call has reported
  abandoned  \* transfers whose start call was interrupted

booked  == <<loads, saves>>
outside == <<accepted, arrived, reported, abandoned>>
vars == <<pc, arg, hand, booked, status, about, outside>>

LayerKeys == Layers \cup {NoLayer}
InCall == {"loading", "bookload", "saving", "booksave", "waitload", "popload", "waitsave", "popsave",
           "ending", "cancelling"}

Init ==
  /\ pc = [t \in Threads |-> "idle"]
  /\ arg = [t \in Threads |-> NoLayer]
  /\ hand = [t \in Threads |-> {}]
  /\ loads = [l \in LayerKeys |-> {}] /\ saves = {}
  /\ status = [x \in Transfers |-> "unused"]
  /\ about = [x \in Transfers |-> [dir |-> "load", layer |-> NoLayer]]
  /\ accepted = {} /\ arrived = {} /\ reported = {} /\ abandoned = {}

-----------------------------------------------------------------------------
Open == {x \in Transfers : status[x] = "open"}

Goto(t, l) == pc' = [pc EXCEPT ![t] = l]

\* The call returns or raises to the engine.
Leave(t) ==
  /\ pc' = [pc EXCEPT ![t] = "idle"]
  /\ arg' = [arg EXCEPT ![t] = NoLayer]

\* The layers a transfer moves.
Covers(x) == IF about[x].layer = NoLayer THEN Layers ELSE {about[x].layer}

Moved(x) == \A l \in Covers(x) : <<x, l>> \in arrived

\* transfer_start(), and on to the call of the wrapped connector.
Drawn_BugNone(x) == {NoLayer}
Drawn(x) == {x}

Start(t, dir, l, next) ==
  /\ pc[t] = "idle"
  /\ \E x \in Transfers :
       /\ status[x] = "unused"
       /\ status' = [status EXCEPT ![x] = "open"]
       /\ about' = [about EXCEPT ![x] = [dir |-> dir, layer |-> l]]
       /\ hand' = [hand EXCEPT ![t] = Drawn(x)]
  /\ arg' = [arg EXCEPT ![t] = l]
  /\ Goto(t, next)
  /\ UNCHANGED <<booked, outside>>

StartLoadKV(t) == \E l \in LayerKeys : Start(t, "load", l, "loading")

\* The layer is the one saved, whether or not its name could be parsed.
SaveKVLayer(t) == \E l \in Layers : Start(t, "save", l, "saving")

\* The wrapped start_load_kv() or save_kv_layer() returns, ...
InnerStarts(t) ==
  /\ pc[t] \in {"loading", "saving"}
  /\ accepted' = accepted \cup hand[t]
  /\ Goto(t, IF pc[t] = "loading" THEN "bookload" ELSE "booksave")
  /\ UNCHANGED <<arg, hand, booked, status, about, arrived, reported, abandoned>>

\* ... raises, and the transfer is cancelled, ...
InnerStartRaises(t) ==
  /\ Raising
  /\ pc[t] \in {"loading", "saving"}
  /\ Goto(t, "cancelling")
  /\ UNCHANGED <<arg, hand, booked, status, about, outside>>

\* ... or is left by an exception that "except Exception" does not catch.
InnerStartInterrupted(t) ==
  /\ Interrupts
  /\ pc[t] \in {"loading", "saving"}
  /\ abandoned' = abandoned \cup hand[t]
  /\ hand' = [hand EXCEPT ![t] = {}]
  /\ Leave(t)
  /\ UNCHANGED <<booked, status, about, accepted, arrived, reported>>

AddLoad(t) ==
  /\ pc[t] = "bookload"
  /\ loads' = [loads EXCEPT ![arg[t]] = @ \cup hand[t]]
  /\ hand' = [hand EXCEPT ![t] = {}]
  /\ Leave(t)
  /\ UNCHANGED <<saves, status, about, outside>>

AddSave(t) ==
  /\ pc[t] = "booksave"
  /\ saves' = saves \cup hand[t]
  /\ hand' = [hand EXCEPT ![t] = {}]
  /\ Leave(t)
  /\ UNCHANGED <<loads, status, about, outside>>

\* NoLayer: the name the engine passed holds no layer number.
WaitForLayerLoad(t, l) ==
  /\ pc[t] = "idle"
  /\ arg' = [arg EXCEPT ![t] = l]
  /\ Goto(t, "waitload")
  /\ UNCHANGED <<hand, booked, status, about, outside>>

WaitForSave(t) ==
  /\ pc[t] = "idle"
  /\ Goto(t, "waitsave")
  /\ UNCHANGED <<arg, hand, booked, status, about, outside>>

\* The wrapped wait call returns when the bytes it waits for have arrived: one
\* layer of all loads that move it, or all saves.
InnerWaitReturns(t) ==
  /\ pc[t] \in {"waitload", "waitsave"}
  /\ IF pc[t] = "waitload"
       THEN \A x \in accepted :
              about[x].dir = "load" /\ arg[t] \in Covers(x) => <<x, arg[t]>> \in arrived
       ELSE \A x \in accepted : about[x].dir = "save" => Moved(x)
  /\ Goto(t, IF pc[t] = "waitload" THEN "popload" ELSE "popsave")
  /\ UNCHANGED <<arg, hand, booked, status, about, outside>>

\* pop_loads(): the loads of that very layer, or else those of no layer.
KeyOf_BugNoFallback(l) == l
KeyOf(l) == IF loads[l] # {} THEN l ELSE NoLayer

AfterPop_BugGet(k) == loads
AfterPop(k) == [loads EXCEPT ![k] = {}]

Pop(t, next) ==
  /\ \/ /\ pc[t] \in {"waitload", "popload"}
        /\ hand' = [hand EXCEPT ![t] = loads[KeyOf(arg[t])]]
        /\ loads' = AfterPop(KeyOf(arg[t]))
        /\ saves' = saves
     \/ /\ pc[t] \in {"waitsave", "popsave"}
        /\ hand' = [hand EXCEPT ![t] = saves]
        /\ saves' = {}
        /\ loads' = loads
  /\ Goto(t, next)
  /\ UNCHANGED <<arg, status, about, outside>>

PopAfterWait(t) == pc[t] \in {"popload", "popsave"} /\ Pop(t, "ending")

\* The wrapped wait call raises: what is booked is popped and cancelled.  From
\* the exception to the pop nothing another thread sees happens.
WaitRaises_BugEnds(t) == Raising /\ pc[t] \in {"waitload", "waitsave"} /\ Pop(t, "ending")
WaitRaises(t) == Raising /\ pc[t] \in {"waitload", "waitsave"} /\ Pop(t, "cancelling")

WaitInterrupted(t) ==
  /\ Interrupts
  /\ pc[t] \in {"waitload", "waitsave"}
  /\ Leave(t)
  /\ UNCHANGED <<hand, booked, status, about, outside>>

\* One transfer_end() of the loop over what the call holds.  It does nothing
\* for an id that is not live.
End(t) ==
  /\ pc[t] \in {"ending", "cancelling"}
  /\ \E x \in hand[t] :
       /\ hand' = [hand EXCEPT ![t] = @ \ {x}]
       /\ status' = IF status[x] # "open" THEN status
                    ELSE [status EXCEPT ![x] = IF pc[t] = "ending" THEN "end" ELSE "cancel"]
  /\ UNCHANGED <<pc, arg, booked, about, outside>>

Return(t) ==
  /\ pc[t] \in {"ending", "cancelling"}
  /\ hand[t] = {}
  /\ Leave(t)
  /\ UNCHANGED <<hand, booked, status, about, outside>>

\* get_finished() passes on what the wrapped connector reports: asynchronous
\* transfers that have completed since the last call.
GetFinished(t) ==
  /\ pc[t] = "idle"
  /\ reported' = reported \cup {x \in accepted : Moved(x)}
  /\ UNCHANGED <<pc, arg, hand, booked, status, about, accepted, arrived, abandoned>>

\* External: the wrapped connector moves the bytes of one layer.
Arrive(x, l) ==
  /\ x \in accepted
  /\ l \in Covers(x)
  /\ arrived' = arrived \cup {<<x, l>>}
  /\ UNCHANGED <<pc, arg, hand, booked, status, about, accepted, reported, abandoned>>

Call(t) ==
  \/ StartLoadKV(t) \/ SaveKVLayer(t) \/ WaitForSave(t) \/ GetFinished(t)
  \/ \E l \in LayerKeys : WaitForLayerLoad(t, l)

Returns(t) ==
  \/ InnerStarts(t) \/ AddLoad(t) \/ AddSave(t) \/ InnerWaitReturns(t) \/ PopAfterWait(t)
  \/ End(t) \/ Return(t)

Fails(t) == InnerStartRaises(t) \/ InnerStartInterrupted(t) \/ WaitRaises(t) \/ WaitInterrupted(t)

Next ==
  \/ \E t \in Threads : Call(t) \/ Returns(t) \/ Fails(t)
  \/ \E x \in Transfers, l \in Layers : Arrive(x, l)

Spec == Init /\ [][Next]_vars

\* The wrapped connector moves every byte and its calls return.  The engine
\* makes forward pass after forward pass and waits in each for every layer and
\* for the saves, as vLLM's attention layers and model runner do.
FairSpec ==
  /\ Spec
  /\ \A t \in Threads : WF_vars(Returns(t))
  /\ \A x \in Transfers, l \in Layers : WF_vars(Arrive(x, l))
  /\ \A l \in Layers : SF_vars(\E t \in Threads : WaitForLayerLoad(t, l))
  /\ SF_vars(\E t \in Threads : WaitForSave(t))

-----------------------------------------------------------------------------
TypeOK ==
  /\ pc \in [Threads -> InCall \cup {"idle"}]
  /\ arg \in [Threads -> LayerKeys]
  /\ hand \in [Threads -> SUBSET Transfers]
  /\ loads \in [LayerKeys -> SUBSET Transfers]
  /\ saves \subseteq Transfers
  /\ status \in [Transfers -> {"unused", "open", "end", "cancel"}]
  /\ about \in [Transfers -> [dir : {"load", "save"}, layer : LayerKeys]]
  /\ accepted \subseteq Transfers
  /\ arrived \subseteq Transfers \X Layers
  /\ reported \subseteq Transfers
  /\ abandoned \subseteq Transfers

\* No two holders, be they calls, layers or the list of saves, hold the same
\* transfer.
Apart ==
  /\ \A t, u \in Threads : t # u => hand[t] \cap hand[u] = {}
  /\ \A l, m \in LayerKeys : l # m => loads[l] \cap loads[m] = {}
  /\ \A t \in Threads, l \in LayerKeys : hand[t] \cap loads[l] = {}
  /\ \A t \in Threads : hand[t] \cap saves = {}
  /\ \A l \in LayerKeys : loads[l] \cap saves = {}

Held ==
  {x \in Transfers :
     (\E t \in Threads : x \in hand[t]) \/ (\E l \in LayerKeys : x \in loads[l]) \/ x \in saves}

\* Every transfer that is open is held in exactly one place, whichever threads
\* start, wait and fail at once, and nothing that is closed is held: so each is
\* closed once and none is forgotten, except one whose start was interrupted.
OnePlace ==
  /\ Apart
  /\ Held \cap abandoned = {}
  /\ Open = Held \cup abandoned

\* An end record (not a cancel) is written for a load of one layer only after
\* the wrapped connector has that layer's bytes, for a save only after it has
\* drained.  One engine thread: a transfer that another thread books while a
\* wait call is on its way out is ended with the others.
EndsAfterArrival ==
  \A x \in Transfers :
    status[x] = "end" /\ (about[x].dir = "load" => about[x].layer # NoLayer) => Moved(x)

\* Every transfer is closed, loads that name no layer too, while the engine
\* keeps waiting.
TransfersClosed == \A x \in Transfers : status[x] = "open" ~> status[x] # "open"
=============================================================================
