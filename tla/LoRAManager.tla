------------------------------ MODULE LoRAManager ------------------------------
(***************************************************************************)
(* The LoRA adapters of a worker: LRUCacheWorkerLoRAManager                *)
(* (src/vllm/lora/worker_manager.py) over LRUCacheLoRAModelManager         *)
(* (src/vllm/lora/models.py) and its two LRU caches (src/vllm/utils.py).   *)
(*                                                                         *)
(* A manager is a value  m:                                                *)
(*   m.registered  the adapters in CPU memory, the least recently used     *)
(*                 first, and  m.active  those of them in a GPU slot;      *)
(*   m.slots       lora_index_to_id: the adapter with its weights in the   *)
(*                 slot, or Free (what stays there then is of no use);     *)
(*   m.last        _last_mapping, the rows of the last batch;              *)
(*   m.indices     base_indices, the slot for the rows of each adapter.    *)
(*                                                                         *)
(* An outcome is a manager and the exception raised, if any.               *)
(*                                                                         *)
(* A batch is sorted by adapter (_sort_by_lora_ids), so that two of them   *)
(* have the same rows if each adapter has as many in one as in the other:  *)
(* rows are a bag of adapters.                                             *)
(*                                                                         *)
(* Abstracted: the weights themselves, with packed modules and long        *)
(* contexts; the other index tensors, which are computed with base_indices *)
(* from the same arguments.                                                *)
(***************************************************************************)
EXTENDS Integers, Sequences, FiniteSets, FiniteSetsExt, SequencesExt, Bags

CONSTANTS
    LoRAs,        \* lora_int_id of the adapters
    Unloadable,   \* those whose checkpoint _load_lora refuses
    MaxLoras,     \* lora_slots
    MaxCpuLoras   \* capacity

ASSUME LoRAAssumption ==
    /\ 0 \notin LoRAs /\ Unloadable \subseteq LoRAs
    /\ MaxLoras \in Nat \ {0}
    /\ MaxCpuLoras \in Nat /\ MaxCpuLoras >= MaxLoras

Slots == 1 .. MaxLoras
Base == 0    \* lora_int_id of a request without an adapter
Free == 0    \* None in lora_index_to_id

EmptyManager == [registered |-> <<>>,
                 active     |-> <<>>,
                 slots      |-> [i \in Slots |-> Free],
                 last       |-> EmptyBag,
                 indices    |-> EmptyBag]

Ok(n) == [m |-> n, raised |-> "none"]
Raise(n, what) == [m |-> n, raised |-> what]

\* Of an LRU cache: a becomes the most recently used.
Touch(cache, a) == Append(RemoveFirst(cache, a), a)

\* _deactivate_lora
ClearSlot(m, a) ==
    [m EXCEPT !.slots = [i \in Slots |-> IF m.slots[i] = a THEN Free ELSE m.slots[i]]]

DeactivateLora(m, a) ==
    IF a \in Range(m.active)
    THEN [ClearSlot(m, a) EXCEPT !.active = RemoveFirst(@, a)]
    ELSE m

BugStaysActive(m, a) == [m EXCEPT !.registered = RemoveFirst(@, a)]

\* remove_lora; and whatever leaves the cache of registered adapters.
RemoveLora(m, a) == [DeactivateLora(m, a) EXCEPT !.registered = RemoveFirst(@, a)]

\* activate_lora: the least recently used adapter gives up its slot if need be.
ActivateLora(m, a) ==
    LET full == a \notin Range(m.active) /\ Len(m.active) >= MaxLoras
        n == IF full
             THEN [ClearSlot(m, Head(m.active)) EXCEPT !.active = Tail(@)]
             ELSE m
        free == {i \in Slots : n.slots[i] = Free}
    IN  IF a \in Range(n.active)
        THEN Ok([n EXCEPT !.active = Touch(@, a)])
        ELSE IF free = {}
        THEN Raise(n, "no free slot")
        ELSE Ok([n EXCEPT !.active = Append(@, a),
                          !.slots[Min(free)] = a])

BugNoTouch(m, a) ==
    LET room == IF Len(m.registered) + 1 > MaxCpuLoras
                THEN RemoveLora(m, Head(m.registered))
                ELSE m
    IN  IF a \in Range(m.registered)
        THEN ActivateLora(m, a)
        ELSE IF a \in Unloadable
        THEN Raise(room, "load")
        ELSE ActivateLora([room EXCEPT !.registered = Append(@, a)], a)

\* add_lora of the worker's manager: room is made before the adapter is loaded.
AddLora(m, a) ==
    LET room == IF Len(m.registered) + 1 > MaxCpuLoras
                THEN RemoveLora(m, Head(m.registered))
                ELSE m
    IN  IF a \in Range(m.registered)
        THEN ActivateLora([m EXCEPT !.registered = Touch(@, a)], a)
        ELSE IF a \in Unloadable
        THEN Raise(room, "load")
        ELSE ActivateLora([room EXCEPT !.registered = Append(@, a)], a)

\* _apply_loras, in the order in which the set of requests is gone through
ApplyLoras(m, order) ==
    IF Len(order) > MaxLoras
    THEN Raise(m, "too many LoRAs")
    ELSE FoldLeft(LAMBDA o, a : IF o.raised = "none" THEN AddLora(o.m, a) ELSE o,
                  Ok(m), order)

\* The slot for the rows of each adapter, 0 for those without one
Indices(m, rows) ==
    [a \in DOMAIN rows |-> IF a = Base THEN 0 ELSE CHOOSE i \in Slots : m.slots[i] = a]

BugComparesLengths(m, rows) ==
    IF BagCardinality(rows) = BagCardinality(m.last)
    THEN Ok(m)
    ELSE Ok([m EXCEPT !.last = rows, !.indices = Indices(m, rows)])

\* set_lora_mapping with convert_mapping: nothing to do for the rows of the last
\* batch; list.index raises for an adapter without a slot.
SetLoraMapping(m, rows) ==
    IF rows = m.last
    THEN Ok(m)
    ELSE IF \E a \in DOMAIN rows \ {Base} : a \notin Range(m.slots)
    THEN Raise(m, "not in a slot")
    ELSE Ok([m EXCEPT !.last = rows, !.indices = Indices(m, rows)])

SetActiveLoras(m, order, rows) ==
    LET o == ApplyLoras(m, order)
    IN  IF o.raised = "none" THEN SetLoraMapping(o.m, rows) ELSE o

=============================================================================
