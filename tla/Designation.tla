----------------------------- MODULE Designation ----------------------------
(***************************************************************************)
(* What the powerbox promises of every designation: it is asked once,      *)
(* confirmed only while the authority behind it lives, answered to the     *)
(* agent at most once and before the realm gets its copy, and journalled   *)
(* exactly once, when it ends, as delivered exactly if the agent got it.   *)
(***************************************************************************)
EXTENDS Sequences

CONSTANTS Ids

VARIABLES
    status,     \* fresh, asked, confirmed, answered, over
    live,       \* the ids whose grant, realm and deadline still hold
    answers,    \* what the agent was told of each
    copies,     \* the ids the realm has a descriptor of
    journal     \* the records of each

vars == <<status, live, answers, copies, journal>>

Init ==
    /\ status = [id \in Ids |-> "fresh"]
    /\ answers = [id \in Ids |-> <<>>]
    /\ journal = [id \in Ids |-> <<>>]
    /\ live = {} /\ copies = {}

moves(id, from, to) == status[id] = from /\ status'[id] = to

tells(id, what) == answers'[id] = answers[id] \o what

records(id, what) == journal'[id] = journal[id] \o what

copied(id) == id \in copies' <=> id \in copies

Stay(id)    == status'[id] = status[id] /\ tells(id, <<>>) /\ records(id, <<>>) /\ copied(id)

Ask(id)     == moves(id, "fresh", "asked") /\ tells(id, <<>>) /\ records(id, <<>>) /\ copied(id)

Confirm(id) ==
    /\ moves(id, "asked", "confirmed") /\ id \in live
    /\ tells(id, <<>>) /\ records(id, <<>>) /\ copied(id)

(* Perhaps in the turn in which it was asked.                              *)
Refuse(id) ==
    /\ moves(id, "asked", "over") \/ moves(id, "fresh", "over")
    /\ records(id, <<FALSE>>) /\ copied(id)
    /\ tells(id, <<"refused">>) \/ tells(id, <<>>)

Answer(id)  ==
    /\ moves(id, "confirmed", "answered")
    /\ tells(id, <<"designated">>) /\ records(id, <<>>) /\ copied(id)

Lose(id)    ==
    /\ moves(id, "confirmed", "over")
    /\ tells(id, <<>>) /\ records(id, <<FALSE>>) /\ copied(id)

(* With the realm's copy, or without it.                                   *)
Finish(id)  ==
    /\ moves(id, "answered", "over") /\ tells(id, <<>>) /\ records(id, <<TRUE>>)
    /\ id \in copies => id \in copies'

(* One turn of the core may move several designations.                     *)
Next ==
    \A id \in Ids :
        \/ Stay(id) \/ Ask(id) \/ Confirm(id) \/ Refuse(id)
        \/ Answer(id) \/ Lose(id) \/ Finish(id)

Spec == Init /\ [][Next]_vars
=============================================================================
