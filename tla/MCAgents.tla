------------------------------ MODULE MCAgents ------------------------------
(***************************************************************************)
(* Small instances of what an agent meets: the server of its connection,   *)
(* and the chokepoint its uses go through.  They are checked side by side: *)
(* a behaviour is about one scenario, and the state of the others stays as *)
(* it started.                                                             *)
(***************************************************************************)
EXTENDS Chokepoint

CONSTANTS alice, bob

VARIABLES part, c, c_now

-----------------------------------------------------------------------------
(* The chokepoint, in two of the corners of one instance.  "rates": uses   *)
(* of a row of two a second, of verbs whose refusals are coalesced and of  *)
(* verbs whose sinks can fail.  "hands": two principals that move the      *)
(* focus to different realms under the human's hands.                      *)

row(i, vs) ==
    [principal_id |-> i, verbs |-> vs, persistence |-> "WhileRunning",
     deadline |-> {}, liveness |-> "Active"]

TableMC ==
    [g \in {1, 2, 3} |->
        CASE g = 1 -> [entry |-> row(alice, {"ACTUATE_POINTER", "ACTUATE_TEXT",
                                             "REALM_LAUNCH"}),
                       realm |-> 1, rate |-> 2]
          [] g = 2 -> [entry |-> row(alice, {"LAYOUT_FOCUS"}), realm |-> 2, rate |-> 1]
          [] g = 3 -> [entry |-> row(bob, {"LAYOUT_FOCUS"}), realm |-> 1, rate |-> 2]]

Rates == (Agent({1}, Kinds) \/ World) /\ inputs' <= 1

Hands == (Agent({2, 3}, {"LayoutFocus"}) \/ World) /\ uses' <= 2 /\ now' <= 3

-----------------------------------------------------------------------------
(* One connection.  "ids": the id range and the caps are within reach.     *)
(* "paces": petitions meet the bucket.                                     *)

Ids == INSTANCE Principal WITH
    now <- c_now, CLIENT_ID_MAX <- 15, MAX_LIVE_REALMS <- 1,
    MAX_LIVE_PETITIONS <- 2, MAX_LIVE_FACETS <- 1, PETITION_RATE_BURST <- 2,
    PETITION_REFILL_PER_SEC <- 1, SECOND <- 2, Gaps <- {1}, Strays <- {3, 8, 16},
    MaxTime <- 0

Paces == INSTANCE Principal WITH
    now <- c_now, CLIENT_ID_MAX <- 40, MAX_LIVE_REALMS <- 1,
    MAX_LIVE_PETITIONS <- 6, MAX_LIVE_FACETS <- 0, PETITION_RATE_BURST <- 2,
    PETITION_REFILL_PER_SEC <- 1, SECOND <- 2, Gaps <- {1}, Strays <- {},
    MaxTime <- 7

-----------------------------------------------------------------------------
connection_vars == <<c, c_now>>

agent_vars == <<part, vars, connection_vars>>

AgentsInit ==
    /\ part \in {"rates", "hands", "ids", "paces"}
    /\ Init
    /\ IF part = "paces" THEN Paces!Init ELSE Ids!Init

using(scenario, A) ==
    part = scenario /\ A /\ UNCHANGED <<part, connection_vars>>
connected(scenario, A) ==
    part = scenario /\ A /\ UNCHANGED <<part, vars>>

AgentsNext ==
    \/ using("rates", Rates) \/ using("hands", Hands)
    \/ connected("ids", Ids!Next) \/ connected("paces", Paces!Next)

AgentsSpec == AgentsInit /\ [][AgentsNext]_agent_vars

-----------------------------------------------------------------------------
(* A connection is refused for its pace exactly when it has outrun its     *)
(* bucket (take_petition_token).                                           *)
PetitionCeilingIsExact ==
    IF part = "paces" THEN Paces!PetitionCeilingIsExact ELSE Ids!PetitionCeilingIsExact

(* An object id names one object for the life of its connection            *)
(* (allocate_id).                                                          *)
ObjectsAreNotRebound == Ids!ObjectsAreNotRebound
=============================================================================
