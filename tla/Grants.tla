------------------------------- MODULE Grants -------------------------------
(***************************************************************************)
(* The grant table of the capability kernel (vitrin-core/src/grants.rs):   *)
(* what one row is, when it refuses a use, and what every operation of     *)
(* GrantTable does to the rows.  A table is a function from the grant ids  *)
(* it holds to entries, as the BTreeMap of the code is; the operators take *)
(* a table and return the new one, so a handler that makes several calls   *)
(* is their composition.  Instants are naturals; an Option is a set of at  *)
(* most one element.                                                       *)
(***************************************************************************)
EXTENDS Naturals, FiniteSets

CONSTANTS
    Identities,     \* PrincipalIdentity: who holds a row
    Verbs           \* the single bits a Verb mask is made of

Rungs == {"Once", "WhileRunning"}

Liveness == {"Active", "Spent", "Expired", "Revoked"}

(* An Option is the empty set or a singleton.                              *)
None == {}

Option(T) == {s \in SUBSET T : \A a, b \in s : a = b}

Entry == [principal_id : Identities,
          verbs        : SUBSET Verbs,
          persistence  : Rungs,
          deadline     : Option(Nat),
          liveness     : Liveness]

rank(rung) == IF rung = "Once" THEN 0 ELSE 1

(* PersistenceRung::narrows: a decision may keep or lower the rung asked.  *)
narrows(rung, requested) == rank(rung) <= rank(requested)

(* Half-open and fail-closed: at the deadline itself the row is over.      *)
due_at(deadline, now) == \E d \in deadline : now = d
due(deadline, now) == \E d \in deadline : now >= d

-----------------------------------------------------------------------------
(* Entry::refusal_for and Entry::state_at.  "None" is an admitted use.     *)

refusal_for(e, verb, now) ==
    IF verb \notin e.verbs THEN "NotGranted"
    ELSE IF e.liveness = "Revoked" THEN "Revoked"
    ELSE IF due(e.deadline, now) THEN "Expired"
    ELSE IF e.liveness \in {"Spent", "Expired"} THEN "Expired"
    ELSE "None"

state_at(e, now) ==
    IF e.liveness = "Revoked" THEN "Revoked"
    ELSE IF due(e.deadline, now) THEN "Expired"
    ELSE e.liveness

-----------------------------------------------------------------------------
(* The queries of GrantTable.                                              *)

any_live_holder_of(entries, verb, now) ==
    \E g \in DOMAIN entries :
        verb \in entries[g].verbs /\ state_at(entries[g], now) = "Active"

holds_verb(entries, principal, verb, now) ==
    \E g \in DOMAIN entries :
        /\ entries[g].principal_id = principal
        /\ verb \in entries[g].verbs
        /\ state_at(entries[g], now) = "Active"

check_use_grant(entries, g, principal, verb, now) ==
    IF g \notin DOMAIN entries THEN "NotGranted"
    ELSE IF entries[g].principal_id # principal THEN "NotGranted"
    ELSE refusal_for(entries[g], verb, now)

-----------------------------------------------------------------------------
(* The operations of GrantTable that change rows.                          *)

(* The entry insert() stores.  A sealed table only ever mints dead rows;   *)
(* expiry is the lifetime of the row, None for one without a deadline.     *)
minted_unsealed(principal, verbs, rung, expiry, sealed, now) ==
    [principal_id |-> principal, verbs |-> verbs, persistence |-> rung,
     deadline |-> {now + ms : ms \in expiry}, liveness |-> "Active"]

minted(principal, verbs, rung, expiry, sealed, now) ==
    [principal_id |-> principal,
     verbs        |-> verbs,
     persistence  |-> rung,
     deadline     |-> {now + ms : ms \in expiry},
     liveness     |-> IF sealed THEN "Revoked" ELSE "Active"]

insert(entries, id, entry) ==
    [g \in DOMAIN entries \cup {id} |-> IF g = id THEN entry ELSE entries[g]]

(* The rows of `which` whose liveness is in `from` move to `to`.           *)
moved(entries, which, from, to) ==
    [g \in DOMAIN entries |->
        IF g \in which /\ entries[g].liveness \in from
        THEN [entries[g] EXCEPT !.liveness = to] ELSE entries[g]]

commit_use(entries, g) ==
    IF g \in DOMAIN entries /\ entries[g].persistence = "Once"
    THEN moved(entries, {g}, {"Active"}, "Spent") ELSE entries

expire_due(entries, now) ==
    moved(entries, {g \in DOMAIN entries : due(entries[g].deadline, now)},
          {"Active"}, "Expired")

remove(entries, gone) == [g \in DOMAIN entries \ gone |-> entries[g]]
=============================================================================
