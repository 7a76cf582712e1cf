------------------------------ MODULE Powerbox ------------------------------
(***************************************************************************)
(* The powerbox: the ledger of asks (designation.rs), the picker round and *)
(* the settlement of session.rs, the table of descriptors on their way     *)
(* (picker/delivery.rs) with its two halves, and everything that can end   *)
(* one of them first: the sweep, the lock, a connection that goes, a grant *)
(* that dies, and the death of the realm, which several observers may      *)
(* notice first (lifecycle.rs, module Lifecycle).                          *)
(*                                                                         *)
(* The world w is the part of the Runtime these handlers touch; one        *)
(* callback of the loop is one step, and the round that follows a batch of *)
(* callbacks is a step of its own.  A dispatch of an agent's connection    *)
(* ends with the turn the core asked for, as the source of vitrin-ipc does *)
(* it (module Transport).  Each connection holds one grant of its own.     *)
(***************************************************************************)
EXTENDS Lifecycle, Functions, FiniteSetsExt

CONSTANTS
    Connections,
    Together,               \* the connections bound to one identity; any other has its own
    Once,                   \* the connections whose grant is a once grant
    MAX_OUTSTANDING,
    PICKER_DEADLINE,
    DELIVERY_DEADLINE,
    MaxAsks,                \* bound: designations ever admitted
    MaxSteps,               \* bound: picker steps waiting for a round
    MaxTime                 \* bound: the clock

VARIABLES
    w,
    proc,       \* the kernel's side of the shim process
    now,
    over        \* the loop has ended

vars == <<w, proc, now, over>>

Ids == 1 .. MaxAsks

Init ==
    /\ w = [conns      |-> Connections,
            grant      |-> [c \in Connections |-> "Active"],
            wake       |-> {},      \* connections whose outbox owes them a turn
            shim_wake  |-> FALSE,
            realm      |-> adopted,
            open       |-> <<>>,    \* Ledger::open
            next       |-> 1,
            held       |-> <<>>,    \* DeliveryTable::held
            raised     |-> {},      \* the designation the grab shows
            picker     |-> {},      \* the designation of kernel.picker
            steps      |-> <<>>,    \* ConsentGrab::steps
            answers    |-> [id \in Ids |-> <<>>],
            copies     |-> {},
            journal    |-> [id \in Ids |-> <<>>]]
    /\ proc = [state |-> "running", class |-> "Exited"]
    /\ now = 0
    /\ over = FALSE

without(f, gone) == Restrict(f, DOMAIN f \ gone)

with(f, id, v) == [i \in DOMAIN f \cup {id} |-> IF i = id THEN v ELSE f[i]]

(* A record for each of ids, saying whether its agent is one that got a    *)
(* descriptor.                                                             *)
journalled(v, ids, got) ==
    [v EXCEPT !.journal = [i \in Ids |-> IF i \in ids THEN Append(@[i], i \in got) ELSE @[i]]]

-----------------------------------------------------------------------------
(* The ledger and the delivery table.                                      *)

(* Tickets end unredeemed: journalled, and refused to the agents that are  *)
(* still there.                                                            *)
end_tickets(v, ids) ==
    LET told == {i \in ids : v.open[i].connection \in v.conns}
    IN  [journalled(v, ids, {}) EXCEPT
            !.open = without(@, ids),
            !.answers = [i \in Ids |-> IF i \in told THEN Append(@[i], "refused") ELSE @[i]]]

(* Deliveries end before both halves went: journalled, and nobody is told. *)
end_deliveries(v, ids) ==
    LET got == {i \in ids : v.held[i].agent = "Sent"}
    IN  [journalled(v, ids, got) EXCEPT !.held = without(@, ids)]

settle_refused(v, id) == end_tickets(v, DOMAIN v.open \cap {id})

tickets_of(v, c) == {i \in DOMAIN v.open : v.open[i].connection = c}

deliveries_of(v, c) == {i \in DOMAIN v.held : v.held[i].connection = c}

same_principal(c, d) == c = d \/ {c, d} \subseteq Together

owes(v, c) == \E i \in DOMAIN v.open : same_principal(v.open[i].connection, c)

(* An ask the chokepoint admits: a once grant is spent by it, and either a *)
(* ticket is opened or the facet answers busy.                             *)
ask(v, c) ==
    LET spent  == [v EXCEPT !.grant[c] = IF c \in Once THEN "Spent" ELSE @]
        ticket == [connection |-> c, spent_once |-> (c \in Once),
                   deadline |-> now + PICKER_DEADLINE, realm_lived |-> v.realm.serving]
    IN  IF v.grant[c] # "Active" THEN v
        ELSE IF owes(v, c) \/ Cardinality(DOMAIN v.open) >= MAX_OUTSTANDING THEN spent
        ELSE [spent EXCEPT !.open = with(@, v.next, ticket), !.next = @ + 1]

grant_is_live(v, c, spent_by_this_ticket) ==
    \/ v.grant[c] = "Active"
    \/ v.grant[c] = "Spent" /\ spent_by_this_ticket

(* The judgement of redeem and of the two checks after it.                 *)
redeemable_trusting(v, id) == id \in DOMAIN v.open

redeemable(v, id) ==
    /\ id \in DOMAIN v.open
    /\ now < v.open[id].deadline
    /\ grant_is_live(v, v.open[id].connection, v.open[id].spent_once)
    /\ v.realm.serving
    /\ v.open[id].connection \in v.conns

(* settle_designation; `resolves` when the human's choice is there and     *)
(* opens.                                                                  *)
settle_designation(v, id, resolves) ==
    IF ~redeemable(v, id) \/ ~resolves THEN settle_refused(v, id)
    ELSE LET c == v.open[id].connection
         IN  [v EXCEPT !.open = without(@, {id}),
                       !.held = with(@, id, [connection |-> c, agent |-> "Owed", shim |-> "Owed",
                                             deadline |-> now + DELIVERY_DEADLINE,
                                             realm_lived |-> v.open[id].realm_lived]),
                       !.wake = @ \cup {c}]

-----------------------------------------------------------------------------
(* The picker round.                                                       *)

lower_picker(v) ==
    [v EXCEPT !.raised = {}, !.picker = {},
              !.steps = SelectSeq(@, LAMBDA s : s.id \notin v.raised)]

lower_closed(v) == IF v.raised \subseteq DOMAIN v.open THEN v ELSE lower_picker(v)

cancel_hidden(v, visible) ==
    IF visible \/ v.raised = {} THEN v
    ELSE end_tickets(lower_picker(v), v.raised)

drop_stale_picker(v) == IF v.raised = {} THEN [v EXCEPT !.picker = {}] ELSE v

(* The first step that names the raised picker settles it; every other one *)
(* is dropped.                                                             *)
take_steps(v, resolves) ==
    LET mine == SelectSeq(v.steps, LAMBDA s : s.id \in v.picker)
        idle == [v EXCEPT !.steps = <<>>]
    IN  IF mine = <<>> THEN idle
        ELSE IF Head(mine).does = "Confirm"
             THEN settle_designation(lower_picker(idle), Head(mine).id, resolves)
             ELSE settle_refused(lower_picker(idle), Head(mine).id)

raise_next(v, visible, lists) ==
    IF ~visible \/ v.raised # {} \/ DOMAIN v.open = {} THEN v
    ELSE LET id == Min(DOMAIN v.open)
         IN  IF lists THEN [v EXCEPT !.raised = {id}, !.picker = {id}]
             ELSE settle_refused(v, id)

service_picker_round(visible, resolves, lists) ==
    /\ ~over
    /\ \E a \in {cancel_hidden(lower_closed(w), visible)} :
       \E b \in {take_steps(drop_stale_picker(a), resolves)} :
          w' = raise_next(b, visible, lists)
    /\ UNCHANGED <<proc, now, over>>

(* The human confirms or cancels the card that is up.                      *)
human_steps(does) ==
    /\ ~over /\ Len(w.steps) < MaxSteps
    /\ \E id \in w.raised : w' = [w EXCEPT !.steps = Append(@, [id |-> id, does |-> does])]
    /\ UNCHANGED <<proc, now, over>>

(* service_lock_round when the session has just locked.                    *)
session_locks ==
    /\ ~over
    /\ w' = [end_tickets(w, DOMAIN w.open) EXCEPT !.picker = {}]
    /\ UNCHANGED <<proc, now, over>>

-----------------------------------------------------------------------------
(* The agent's connection.                                                 *)

close_principal(v, c) ==
    LET gone == [v EXCEPT !.conns = @ \ {c}, !.wake = @ \ {c}, !.grant[c] = "Gone"]
    IN  end_deliveries(end_tickets(gone, tickets_of(v, c)), deliveries_of(v, c))

(* The turn: the descriptor of the first delivery owed to c is written, or *)
(* that fails and the delivery is over; the shim is then asked for a turn. *)
deliver_agent_copy(v, c, sent) ==
    LET owed == {i \in deliveries_of(v, c) : v.held[i].agent = "Owed"}
        id   == Min(owed)
    IN  IF owed = {} THEN v
        ELSE IF sent # "ok" THEN end_deliveries(v, {id})
        ELSE [v EXCEPT !.held[id].agent = "Sent",
                       !.answers[id] = Append(@, "designated"),
                       !.shim_wake = v.realm.registered]

(* dispatch_principal: perhaps an ask, then the turn that is owed.  A      *)
(* write that fails on a broken socket closes the connection in the same   *)
(* dispatch; one that fails for want of a descriptor does not.             *)
dispatch_principal(c, asks, sent) ==
    /\ ~over /\ c \in w.conns
    /\ asks => w.next <= MaxAsks
    /\ asks \/ c \in w.wake
    /\ \E a \in {IF asks THEN ask(w, c) ELSE w} :
       \E b \in {IF c \in w.wake
                 THEN deliver_agent_copy([a EXCEPT !.wake = @ \ {c}], c, sent) ELSE a} :
          w' = IF sent = "broken" /\ c \in w.wake THEN close_principal(b, c) ELSE b
    /\ UNCHANGED <<proc, now, over>>

disconnects(c) ==
    /\ ~over /\ c \in w.conns
    /\ w' = close_principal(w, c)
    /\ UNCHANGED <<proc, now, over>>

(* The dead-man switch, the panel or a deadline ends the grant.            *)
grant_ends(c, how) ==
    /\ ~over /\ w.grant[c] \in {"Active", "Spent"}
    /\ w' = [w EXCEPT !.grant[c] = how]
    /\ UNCHANGED <<proc, now, over>>

sweep ==
    /\ ~over
    /\ LET due(t) == {i \in DOMAIN t : now >= t[i].deadline}
       IN  /\ due(w.open) \cup due(w.held) # {}
           /\ w' = end_deliveries(end_tickets(w, due(w.open)), due(w.held))
    /\ UNCHANGED <<proc, now, over>>

-----------------------------------------------------------------------------
(* The realm: its connection, and its death.                               *)

close_realm(v, cause) ==
    LET dead == [v EXCEPT !.realm = note_connection_closed(@, cause, proc), !.shim_wake = FALSE]
        done == end_deliveries(end_tickets(dead, DOMAIN v.open), DOMAIN v.held)
    IN  IF v.picker \subseteq DOMAIN done.open THEN done ELSE [done EXCEPT !.picker = {}]

(* The turn of the shim: the copy of one delivery whose agent half went,   *)
(* and another turn if one more is owed.                                   *)
deliver_realm_copy_once(v, sent) ==
    LET owed == {i \in DOMAIN v.held : v.held[i].agent = "Sent" /\ v.held[i].shim = "Owed"}
        id   == Min(owed)
        done == end_deliveries(v, {id})
    IN  IF owed = {} THEN v
        ELSE IF sent = "ok" THEN [done EXCEPT !.copies = @ \cup {id}] ELSE done

deliver_realm_copy(v, sent) ==
    LET owed == {i \in DOMAIN v.held : v.held[i].agent = "Sent" /\ v.held[i].shim = "Owed"}
        id   == Min(owed)
        done == [end_deliveries(v, {id}) EXCEPT !.shim_wake = (owed # {id})]
    IN  IF owed = {} THEN v
        ELSE IF sent = "ok" THEN [done EXCEPT !.copies = @ \cup {id}] ELSE done

reapable(p) == IF p.state = "zombie" THEN [p EXCEPT !.state = "gone"] ELSE p

dispatch_shim(sent) ==
    /\ ~over /\ w.realm.registered /\ w.shim_wake
    /\ \E v \in {deliver_realm_copy([w EXCEPT !.shim_wake = FALSE], sent)} :
          IF sent = "broken"
          THEN w' = close_realm(v, "ConnectionClosed") /\ proc' = reapable(proc)
          ELSE w' = v /\ UNCHANGED proc
    /\ UNCHANGED <<now, over>>

(* dispatch_shim on an end of the stream, a fault or a violation.          *)
shim_connection_ends(cause) ==
    /\ ~over /\ w.realm.registered
    /\ w' = close_realm(w, cause)
    /\ proc' = reapable(proc)
    /\ UNCHANGED <<now, over>>

(* SIGCHLD: reap_realm.                                                    *)
reap_realm ==
    /\ ~over /\ w.realm.child /\ proc.state = "zombie"
    /\ w' = [w EXCEPT !.realm = poll_exit(@, proc), !.shim_wake = FALSE]
    /\ proc' = reapable(proc)
    /\ UNCHANGED <<now, over>>

shutdown_realm(until, class) ==
    /\ ~over /\ over' = TRUE
    /\ w' = [w EXCEPT !.realm = shutdown(@, proc, until, class), !.shim_wake = FALSE]
    /\ proc' = [proc EXCEPT !.state = "gone"]
    /\ UNCHANGED now

(* The shim process ends: first its files are closed, then it is reapable. *)
shim_exits(class) ==
    /\ proc.state = "running"
    /\ proc' = [state |-> "dying", class |-> class]
    /\ UNCHANGED <<w, now, over>>

shim_is_reapable ==
    /\ proc.state = "dying"
    /\ proc' = [proc EXCEPT !.state = "zombie"]
    /\ UNCHANGED <<w, now, over>>

tick ==
    /\ ~over /\ now < MaxTime
    /\ now' = now + 1
    /\ UNCHANGED <<w, proc, over>>

Next ==
    \/ \E visible, resolves, lists \in BOOLEAN : service_picker_round(visible, resolves, lists)
    \/ \E does \in {"Confirm", "Cancel"} : human_steps(does)
    \/ session_locks
    \/ \E c \in Connections :
          \/ \E asks \in BOOLEAN, sent \in {"ok", "failed", "broken"} : dispatch_principal(c, asks, sent)
          \/ disconnects(c)
          \/ \E how \in {"Revoked", "Expired"} : grant_ends(c, how)
    \/ sweep
    \/ \E sent \in {"ok", "failed", "broken"} : dispatch_shim(sent)
    \/ \E cause \in {"ConnectionClosed", "ConnectionFault"} : shim_connection_ends(cause)
    \/ reap_realm
    \/ \E until \in {"Hangup", "Term", "Kill"}, class \in ExitClasses : shutdown_realm(until, class)
    \/ \E class \in ExitClasses : shim_exits(class)
    \/ shim_is_reapable
    \/ tick

Spec == Init /\ [][Next]_vars

-----------------------------------------------------------------------------
status == [id \in Ids |->
    IF id >= w.next THEN "fresh"
    ELSE IF id \in DOMAIN w.open THEN "asked"
    ELSE IF id \notin DOMAIN w.held THEN "over"
    ELSE IF w.held[id].agent = "Sent" THEN "answered" ELSE "confirmed"]

(* The asks whose authority lives: nothing has ended the grant, the realm  *)
(* the ask was for, or the time the human has.                             *)
authorised == {id \in DOMAIN w.open :
                  /\ w.grant[w.open[id].connection] \in {"Active", "Spent"}
                  /\ w.realm.death = {}
                  /\ now < w.open[id].deadline}

Promise == INSTANCE Designation WITH
              live <- authorised, answers <- w.answers, copies <- w.copies, journal <- w.journal

(* Whatever ends a designation, and in whatever order the sweep, the lock, *)
(* a disconnection, a revocation, a death of the realm and the turns of    *)
(* the two connections come, each ask is confirmed only under authority    *)
(* that still lives (redeem), answered at most once and to the agent       *)
(* before the realm gets its copy (owed_by_realm), and journalled exactly  *)
(* once with what the agent really got (journal_abandoned).                *)
ImplementsDesignation == Promise!Spec

(* No delivery waits for a turn that is not coming.  A connection is owed  *)
(* at most one (the premise of owed_by_connection, which re-arms nothing)  *)
(* and its outbox is awake for it; and while the shim's connection is in   *)
(* the loop, its outbox is awake for every copy the realm is owed          *)
(* (deliver_realm_copy).                                                   *)
OwedHalvesHaveATurn ==
    /\ \A c \in Connections :
          LET owed == {i \in deliveries_of(w, c) : w.held[i].agent = "Owed"}
          IN  Cardinality(owed) <= 1 /\ (owed # {} => c \in w.wake)
    /\ \A i \in DOMAIN w.held :
          w.held[i].agent = "Sent" /\ w.realm.registered => w.shim_wake

(* The observers of a death (an end of the stream, a fault, SIGCHLD and    *)
(* the shutdown) bury the realm once: the parts of a realm that die with   *)
(* it agree, each record is written once and the death no later than the   *)
(* exit, an exit is blamed on the core only for a signal it sent, and the  *)
(* loop never ends with a shim unreaped (die, collect_exit, shutdown).     *)
BuriedOnce ==
    LET l == w.realm
    IN  /\ l.died = IF l.death = {} THEN 0 ELSE 1
        /\ (l.death = {}) = l.serving /\ l.serving = l.registered /\ l.serving = (l.row = "Running")
        /\ Len(l.exited) = IF l.child THEN 0 ELSE 1
        /\ ~l.child => l.death # {} /\ proc.state = "gone"
        /\ \A i \in DOMAIN l.exited : l.exited[i].core => l.exited[i].class \in l.core_signals
        /\ over => ~l.child

(* "a realm's death removes every ticket naming it before anything could   *)
(* re-claim the id" (DeliveryWorld, session.rs).                           *)
DeathForgetsItsTickets ==
    w.realm.death # {} /\ ~over =>
        \A i \in Ids : /\ i \in DOMAIN w.open => ~w.open[i].realm_lived
                       /\ i \in DOMAIN w.held => ~w.held[i].realm_lived
=============================================================================
