------------------------------ MODULE ApiState ------------------------------
(***************************************************************************)
(* The concurrency slots of the API process (api/server.py, ApiState).     *)
(*                                                                         *)
(* One value `s` stands for the three registries ApiState keeps under its  *)
(* lock: `active` is _active, `facet` is _facet_active, and `flags` is the *)
(* key set of _cancel_flags.  Each method is a critical section of that    *)
(* lock, so each is one operator from the old registries to the new ones.  *)
(* A slot is held under a job id, or under the provisional id that _start  *)
(* uses until the store has minted the real one.                           *)
(***************************************************************************)
EXTENDS FacetRouter, FiniteSets

CONSTANT MaxConcurrent  \* max_concurrent_jobs, over all facets

ASSUME MaxConcurrentAssumption == MaxConcurrent \in Nat

\* A fresh process: nothing admitted.
NoSlots == [active |-> {}, facet |-> [f \in Facets |-> {}], flags |-> {}]

\* The two capacity checks of try_reserve: the global one, then the facet's.
HasCapacity(s, f) ==
    /\ Cardinality(s.active) < MaxConcurrent
    /\ Cardinality(s.facet[f]) < FacetMax[f]

\* The claim try_reserve makes once both checks pass.
Reserve(s, id, f) ==
    [active |-> s.active \cup {id},
     facet  |-> [s.facet EXCEPT ![f] = @ \cup {id}],
     flags  |-> s.flags \cup {id}]

\* Mistake: the claim under the facet goes, the global one stays.
ReleaseFacetOnly(s, id, f) ==
    [s EXCEPT !.facet = [s.facet EXCEPT ![f] = @ \ {id}], !.flags = @ \ {id}]

\* release: the slot, the facet's claim and the cancel flag go together.
Release(s, id, f) ==
    [active |-> s.active \ {id},
     facet  |-> [s.facet EXCEPT ![f] = @ \ {id}],
     flags  |-> s.flags \ {id}]

\* Mistake: the facet's set keeps the provisional id.
RekeyGlobalOnly(s, provisional, id, f) ==
    [active |-> (s.active \ {provisional}) \cup {id},
     facet  |-> [s.facet EXCEPT ![f] = @ \cup {id}],
     flags  |-> (s.flags \ {provisional}) \cup {id}]

\* rekey: all three registries move from the provisional id to the real one.
Rekey(s, provisional, id, f) ==
    [active |-> (s.active \ {provisional}) \cup {id},
     facet  |-> [s.facet EXCEPT ![f] = (@ \ {provisional}) \cup {id}],
     flags  |-> (s.flags \ {provisional}) \cup {id}]

(***************************************************************************)
(* What the registries promise each other: they name the same ids, an id   *)
(* is claimed under one facet only, and no limit is exceeded.  A claim     *)
(* that one registry keeps and another drops is a slot nobody can release. *)
(***************************************************************************)
SlotsConsistent(s) ==
    /\ s.flags = s.active
    /\ \A id \in s.active : \E f \in Facets : id \in s.facet[f]
    /\ \A f \in Facets : s.facet[f] \subseteq s.active
    /\ \A f, g \in Facets : f # g => s.facet[f] \cap s.facet[g] = {}

WithinLimits(s) ==
    /\ Cardinality(s.active) <= MaxConcurrent
    /\ \A f \in Facets : Cardinality(s.facet[f]) <= FacetMax[f]
=============================================================================
