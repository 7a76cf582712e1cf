----------------------------- MODULE Petitions ------------------------------
(***************************************************************************)
(* The petition registry (vitrin-core/src/petitions.rs): the admission     *)
(* ladder a request for authority climbs, the petitions that wait for a    *)
(* human, and the ways one ends.  The registry is a function from the ids  *)
(* of the pending petitions to what was asked; ids grow, so the smallest   *)
(* one is the oldest.                                                      *)
(***************************************************************************)
EXTENDS Grants

CONSTANTS
    ServedVerbs,              \* SERVED_VERB_BITS
    LayoutArrange,            \* the verb with a single holder
    ConsentTimeout,           \* PetitionConfig::consent_timeout
    MaxPendingPerIdentity,    \* PetitionConfig::max_pending_per_identity
    MaxPendingGlobal          \* PetitionConfig::max_pending_global

ASSUME VerbsAssumption == ServedVerbs \subseteq Verbs /\ LayoutArrange \in ServedVerbs

ASSUME ConfigAssumption ==
    /\ ConsentTimeout \in Nat
    /\ MaxPendingPerIdentity \in Nat
    /\ MaxPendingGlobal \in Nat

(* The persistence a wire request may name: the two rungs a row can carry  *)
(* and the durable ones it cannot.                                         *)
WirePersistence == Rungs \cup {"UntilRevoked", "Always"}

(* The part of a request the registry reads: expiry is None for expiry_ms  *)
(* zero; plain says flags are zero and no resource is named.               *)
Ask == [verbs       : SUBSET Verbs \ {{}},
        persistence : WirePersistence,
        expiry      : Option(Nat),
        plain       : BOOLEAN]

Petition(Conns) ==
    [connection   : Conns,
     identity     : Identities,
     verbs        : SUBSET Verbs,
     persistence  : Rungs,
     expiry       : Option(Nat),
     deadline     : Nat,
     prompt_shown : BOOLEAN]

pending_for_identity(pending, identity) ==
    Cardinality({p \in DOMAIN pending : pending[p].identity = identity})

pending_names(pending, verb) == \E p \in DOMAIN pending : verb \in pending[p].verbs

-----------------------------------------------------------------------------
(* PetitionRegistry::admit, the ladder of refusals in its order.           *)

admit_unheld(pending, identity, ask, available, held) ==
    IF ~available THEN "Unavailable"
    ELSE IF \/ ~ask.plain
            \/ ~(ask.verbs \subseteq ServedVerbs)
            \/ ask.persistence \notin Rungs THEN "Unsupported"
    ELSE IF LayoutArrange \in ask.verbs /\ held THEN "LayoutHeld"
    ELSE IF \/ pending_for_identity(pending, identity) >= MaxPendingPerIdentity
            \/ Cardinality(DOMAIN pending) >= MaxPendingGlobal THEN "Busy"
    ELSE "Admitted"

admit(pending, identity, ask, available, held) ==
    IF ~available THEN "Unavailable"
    ELSE IF \/ ~ask.plain
            \/ ~(ask.verbs \subseteq ServedVerbs)
            \/ ask.persistence \notin Rungs THEN "Unsupported"
    ELSE IF LayoutArrange \in ask.verbs
            /\ (held \/ pending_names(pending, LayoutArrange)) THEN "LayoutHeld"
    ELSE IF \/ pending_for_identity(pending, identity) >= MaxPendingPerIdentity
            \/ Cardinality(DOMAIN pending) >= MaxPendingGlobal THEN "Busy"
    ELSE "Admitted"

(* The petition the interactive policy stores.                             *)
opened(connection, identity, ask, now) ==
    [connection   |-> connection,
     identity     |-> identity,
     verbs        |-> ask.verbs,
     persistence  |-> ask.persistence,
     expiry       |-> ask.expiry,
     deadline     |-> now + ConsentTimeout,
     prompt_shown |-> FALSE]

-----------------------------------------------------------------------------
(* The ways a petition leaves the registry, and the prompt mark.           *)

expired_petitions(pending, now) == {p \in DOMAIN pending : now >= pending[p].deadline}

petitions_of(pending, connection) ==
    {p \in DOMAIN pending : pending[p].connection = connection}

without(pending, gone) == [p \in DOMAIN pending \ gone |-> pending[p]]

(* mark_prompt_shown, for the prompts of a set: nothing happens to one that*)
(* is no longer pending.                                                   *)
mark_prompt_shown(pending, shown) ==
    [p \in DOMAIN pending |->
        IF p \in shown THEN [pending[p] EXCEPT !.prompt_shown = TRUE] ELSE pending[p]]

front_pending(pending) ==
    {p \in DOMAIN pending : \A q \in DOMAIN pending : p <= q}

prompt_up_for(pending, identity) ==
    \E p \in DOMAIN pending : pending[p].prompt_shown /\ pending[p].identity = identity

(* resolve_human: what a choice on the prompt does to a petition.  A       *)
(* petition that is gone, or a rung wider than asked, changes nothing.     *)
Choice == {"Deny"} \cup Rungs

verdict(pending, petition, choice) ==
    IF petition \notin DOMAIN pending THEN "NotPending"
    ELSE IF choice = "Deny" THEN "Denied"
    ELSE IF ~narrows(choice, pending[petition].persistence) THEN "WouldWiden"
    ELSE "Granted"
=============================================================================
