------------------------------- MODULE Realms -------------------------------
(***************************************************************************)
(* The realms of a session and what follows the one the human looks at:    *)
(* the registry (realm.rs) with startup, launch and death (session.rs,     *)
(* lifecycle.rs), the binding of the output and of the human's input, the  *)
(* cross-realm clipboard (clipboard.rs) and the pointer constraints        *)
(* (input/constraint.rs).                                                  *)
(*                                                                         *)
(* The world w is the part of the Runtime these handlers touch; a callback *)
(* of the loop is a step, and post_dispatch's reconciliation another.  A   *)
(* realm id <<root, n>> is the n-th launch, from the declared <<root, 0>>; *)
(* the ids are ordered as their names are.  A realm the core cannot write  *)
(* to any more (deaf) is served until its death is noticed.                *)
(***************************************************************************)
EXTENDS Naturals, FiniteSets, Functions

CONSTANTS
    Roots,              \* the declared realms: 1 .. n
    Templates,          \* those with autostart = false
    MAX_REALMS,
    CLIPBOARD_LIFETIME,
    MaxLaunches,        \* bound: ids minted
    MaxPromotions,      \* bound: promote gestures
    MaxAsks,            \* bound: pointer_constraint asks of a realm
    Eager,              \* bound: the roots whose apps ask more than once
    MaxTime             \* bound: the clock

Ids == Roots \X (0 .. MaxLaunches)

Declared == {<<r, 0>> : r \in Roots}

Before(a, b) == a[1] < b[1] \/ (a[1] = b[1] /\ a[2] < b[2])

first(ids) == {a \in ids : \A b \in ids : a = b \/ Before(a, b)}

Serials == 1 .. MaxAsks

VARIABLES w, now

vars == <<w, now>>

Init ==
    /\ w = [phase    |-> "starting",
            rows     |-> [id \in Declared |-> IF id[1] \in Templates THEN "Template"
                                              ELSE "Configured"],
            next     |-> 1,         \* RealmRegistry::next_instance
            serving  |-> {},        \* realms with a ShimServer
            deaf     |-> {},
            view     |-> {},        \* the realm the output is bound to
            bound    |-> {},        \* InputRouter::bound
            pointed  |-> {},        \* realms with a human_pointer
            seat     |-> TRUE,      \* the output is active
            open     |-> TRUE,      \* every other gate: no overlay, not dark, the
                                    \* surface mapped, the pointer in the region
            held     |-> {},        \* ClipboardSlot
            awaited  |-> {},
            serial   |-> 0,
            records  |-> <<>>,      \* PointerConstraintTable
            born     |-> {},        \* history: the ids announced as running
            trips    |-> 0,         \*   dead-man triggers
            asked    |-> <<>>,      \*   promotion -> where and when the human asked
            offer    |-> {},        \*   the offer of the last step
            told     |-> [id \in Ids |-> [s \in Serials |-> "nothing"]],
            settled  |-> TRUE]      \*   no step since the last reconciliation
    /\ now = 0

with(f, k, v) == [x \in DOMAIN f \cup {k} |-> IF x = k THEN v ELSE f[x]]

without(f, gone) == Restrict(f, DOMAIN f \ gone)

-----------------------------------------------------------------------------
(* The clipboard slot.                                                     *)

open_promotion(v, id) ==
    [v EXCEPT !.awaited = {[serial |-> v.serial, realm |-> id]},
              !.serial = @ + 1,
              !.asked = with(@, v.serial, [realm |-> id, trips |-> v.trips])]

abandon_promotion(v) == [v EXCEPT !.awaited = {}]

\* Any answer of the realm that was asked.
claim_answer_late(v, id, serial) == {a \in v.awaited : a.realm = id}

claim_answer(v, id, serial) == {a \in v.awaited : a.realm = id /\ a.serial = serial}

fill(v, id, serial) ==
    [v EXCEPT !.held = {[source |-> id, at |-> now, serial |-> serial,
                         latest |-> (serial = v.serial - 1)]}]

peek(v) == {h \in v.held : now - h.at < CLIPBOARD_LIFETIME}

expire(v) == [v EXCEPT !.held = peek(v)]

forget_selection(v, id) ==
    [v EXCEPT !.held = {h \in @ : h.source # id}, !.awaited = {a \in @ : a.realm # id}]

clear(v) == [v EXCEPT !.held = {}, !.awaited = {}]

-----------------------------------------------------------------------------
(* The constraint table; verdict is send_constraint_verdicts for one.      *)

verdict(v, id, serial, state) ==
    IF id \notin v.serving \ v.deaf THEN v ELSE [v EXCEPT !.told[id][serial] = state]

withdraw(v, ids) ==
    LET gone == ids \cap DOMAIN v.records
    IN  [v EXCEPT !.records = without(@, gone),
                  !.told = [id \in Ids |->
                      IF id \in gone \cap (v.serving \ v.deaf)
                      THEN [@[id] EXCEPT ![v.records[id].serial] = "Withdrawn"]
                      ELSE @[id]]]

\* The replaced ask hears nothing.
record_silent(v, id, serial, oneshot) ==
    [v EXCEPT !.records = with(@, id, [serial |-> serial, oneshot |-> oneshot,
                                       active |-> FALSE, reported |-> "nothing"])]

(* ask, for a lock or confine that names a surface.                        *)
record(v, id, serial, oneshot) ==
    LET ended == IF id \in DOMAIN v.records
                 THEN verdict(v, id, v.records[id].serial, "Superseded") ELSE v
    IN  [ended EXCEPT !.records = with(@, id, [serial |-> serial, oneshot |-> oneshot,
                                               active |-> FALSE, reported |-> "nothing"])]

live_state(v, id) ==
    IF id \in v.view /\ v.seat /\ v.open /\ id \in v.pointed THEN "Active" ELSE "Inactive"

(* One record of reconcile: what it becomes, and what its shim is told.    *)
judged(v, id) ==
    LET r   == v.records[id]
        new == live_state(v, id)
    IN  [ends  |-> r.oneshot /\ r.reported = "Active" /\ new # "Active",
         row   |-> [r EXCEPT !.active = (new = "Active"), !.reported = new]]

reconcile(v) ==
    LET over == {id \in DOMAIN v.records : judged(v, id).ends}
    IN  [v EXCEPT !.records = [id \in DOMAIN @ \ over |-> judged(v, id).row],
                  !.told = [id \in Ids |->
                      IF id \notin DOMAIN v.records \cap (v.serving \ v.deaf) THEN @[id]
                      ELSE [@[id] EXCEPT ![v.records[id].serial] =
                               IF id \in over THEN "Withdrawn" ELSE judged(v, id).row.reported]]]

(* hides_human_sprite.                                                     *)
hides_human_sprite(v, id) ==
    id \in v.view \cap DOMAIN v.records /\ v.records[id].active /\ live_state(v, id) = "Active"

-----------------------------------------------------------------------------
(* The output, the human's input, and the life of a realm.                 *)

seat_target(v, focused) ==
    IF focused \cap v.serving # {} THEN focused ELSE first(v.serving)

(* The spawned realm enters the loop; the first one takes the output.      *)
attach(v, id) ==
    [v EXCEPT !.serving = @ \cup {id}, !.born = @ \cup {id},
              !.rows = with(@, id, "Running"),
              !.view  = IF v.view = {} THEN {id} ELSE @,
              !.bound = IF v.view = {} THEN {id} ELSE @]

rebind_output_after_death(v) ==
    IF v.view \subseteq v.serving THEN v ELSE [v EXCEPT !.view = seat_target(v, {})]

\* The router keeps its binding.
dies_bound(v, id) ==
    LET forgotten == forget_selection(v, id)
    IN  rebind_output_after_death(
            [forgotten EXCEPT !.serving = @ \ {id}, !.deaf = @ \ {id}, !.pointed = @ \ {id},
                              !.records = without(@, {id}), !.rows[id] = "Exited"])

(* die, through with_realm_teardown.                                       *)
dies(v, id) ==
    LET forgotten == forget_selection(v, id)
    IN  rebind_output_after_death(
            [forgotten EXCEPT !.serving = @ \ {id}, !.deaf = @ \ {id}, !.pointed = @ \ {id},
                              !.bound = @ \ {id},
                              !.records = without(@, {id}), !.rows[id] = "Exited"])

all_die(v, ids) ==
    [v EXCEPT !.serving = {}, !.deaf = {}, !.pointed = {}, !.view = {}, !.bound = {},
              !.held = {}, !.awaited = {}, !.records = <<>>, !.phase = "over",
              !.rows = [id \in DOMAIN @ |-> IF id \in ids THEN "Exited" ELSE @[id]]]

capacity_used(v) == Cardinality({id \in DOMAIN v.rows : v.rows[id] # "Exited"})

\* Numbered by the rows of the table.
mint_instance_by_rows(v, template) ==
    <<template[1], Cardinality(DOMAIN v.rows \ Declared) + 1>>

mint_instance(v, template) == <<template[1], v.next>>

-----------------------------------------------------------------------------
(* A step leaves v behind; only the reconciliation settles, only an offer  *)
(* offers.                                                                 *)
becomes(v) == w' = [v EXCEPT !.settled = FALSE]

quiet == [w EXCEPT !.offer = {}]

(* start_realm_in: every realm that is not a template, in id order; when   *)
(* one fails the ones before it are torn down and the session never runs.  *)
start_realm_in(failing) ==
    LET configured == {id \in Declared : w.rows[id] = "Configured"}
        attached   == IF failing = {} THEN configured
                      ELSE {id \in configured : \A f \in failing : Before(id, f)}
        up         == [quiet EXCEPT !.serving = attached, !.born = attached,
                                    !.rows = [id \in Declared |-> IF id \in attached
                                                 THEN "Running" ELSE @[id]],
                                    !.view = first(attached), !.bound = first(attached),
                                    !.phase = "up"]
    IN  /\ w.phase = "starting"
        /\ failing \subseteq configured /\ Cardinality(failing) <= 1
        /\ becomes(IF failing = {} THEN up ELSE all_die(up, attached))
        /\ UNCHANGED now

(* launch_realm and apply_launches, for a launch the chokepoint admitted.  *)
launch(template, goes) ==
    LET id     == mint_instance(w, template)
        minted == [quiet EXCEPT !.next = @ + 1]
    IN  /\ w.phase = "up" /\ template \in DOMAIN w.rows
        /\ capacity_used(w) < MAX_REALMS /\ w.next <= MaxLaunches
        /\ becomes(CASE goes = "up"         -> attach(minted, id)
                     [] goes = "unforked"   -> minted
                     [] goes = "unattached" -> [minted EXCEPT !.born = @ \cup {id}])
        /\ UNCHANGED now

realm_dies(id) ==
    /\ w.phase = "up" /\ id \in w.serving
    /\ becomes(dies(quiet, id))
    /\ UNCHANGED now

(* A send to the realm failed for good; nobody has noticed yet.            *)
goes_deaf(id) ==
    /\ w.phase = "up" /\ id \in w.serving \ w.deaf
    /\ becomes([quiet EXCEPT !.deaf = @ \cup {id}])
    /\ UNCHANGED now

shutdown_realm ==
    /\ w.phase = "up"
    /\ becomes(all_die(quiet, w.serving))
    /\ UNCHANGED now

(* apply_layout, for LayoutAct::Focus.                                     *)
focus(id) ==
    /\ w.phase = "up" /\ id \in w.serving /\ w.view # {id}
    /\ becomes([quiet EXCEPT !.view = {id}, !.bound = {id}])
    /\ UNCHANGED now

(* route_physical_turn: the input follows the output, and the turn is a    *)
(* movement or one of the clipboard's chords (drain_clipboard_gestures).   *)
turn(v) == [v EXCEPT !.bound = IF seat_target(v, v.view) = {} THEN @ ELSE seat_target(v, v.view)]

physical_move ==
    /\ w.phase = "up" /\ w.seat
    /\ becomes([turn(quiet) EXCEPT !.pointed = @ \cup seat_target(w, w.view)])
    /\ UNCHANGED now

promote ==
    /\ w.phase = "up" /\ w.seat /\ w.serial < MaxPromotions
    /\ \E id \in seat_target(w, w.view) :
           LET asking == open_promotion(expire(turn(quiet)), id)
           IN  becomes(IF id \in w.deaf THEN abandon_promotion(asking) ELSE asking)
    /\ UNCHANGED now

offer ==
    /\ w.phase = "up" /\ w.seat
    /\ \E id \in seat_target(w, w.view) :
           LET v == expire(turn(quiet))
           IN  becomes([v EXCEPT !.offer = IF id \in w.deaf THEN {}
                                           ELSE {[to |-> id, what |-> h] : h \in peek(v)}])
    /\ UNCHANGED now

(* dispatch_shim: apply_selection_answer, and apply_pointer_constraint_ask.*)
selection(id, serial, good) ==
    /\ w.phase = "up" /\ id \in w.serving /\ serial < w.serial
    /\ LET claimed == claim_answer(w, id, serial)
           rest    == [quiet EXCEPT !.awaited = @ \ claimed]
       IN  becomes(IF claimed # {} /\ good THEN fill(rest, id, serial) ELSE rest)
    /\ UNCHANGED now

pointer_constraint(id, kind, serial) ==
    /\ w.phase = "up" /\ id \in w.serving
    /\ serial = 1 \/ id[1] \in Eager
    /\ \A s \in Serials : s >= serial => w.told[id][s] = "nothing"
    /\ id \in DOMAIN w.records => w.records[id].serial < serial
    /\ becomes(CASE kind = "None"       -> withdraw(quiet, {id})
                 [] kind = "NoSurface"  -> verdict(quiet, id, serial, "Refused")
                 [] kind = "Oneshot"    -> record(quiet, id, serial, TRUE)
                 [] kind = "Persistent" -> record(quiet, id, serial, FALSE))
    /\ UNCHANGED now

(* Runtime::apply_dead_man.                                                *)
apply_dead_man ==
    /\ w.phase = "up" /\ w.trips < 1
    /\ becomes([withdraw(clear(quiet), DOMAIN w.records) EXCEPT !.trips = @ + 1])
    /\ UNCHANGED now

(* suspend_physical_seat, and the seat coming back.                        *)
suspend_physical_seat ==
    /\ w.phase = "up" /\ w.seat
    /\ becomes([withdraw(quiet, w.bound) EXCEPT !.seat = FALSE])
    /\ UNCHANGED now

seat_returns ==
    /\ w.phase = "up" /\ ~w.seat
    /\ becomes([quiet EXCEPT !.seat = TRUE])
    /\ UNCHANGED now

gates_change ==
    /\ w.phase = "up"
    /\ becomes([quiet EXCEPT !.open = ~@])
    /\ UNCHANGED now

(* post_dispatch.                                                          *)
reconcile_pointer_constraints ==
    /\ w.phase = "up" /\ ~w.settled
    /\ w' = [reconcile(quiet) EXCEPT !.settled = TRUE]
    /\ UNCHANGED now

sweep ==
    /\ w.phase = "up"
    /\ becomes(expire(quiet))
    /\ UNCHANGED now

tick ==
    /\ now < MaxTime
    /\ now' = now + 1
    /\ w' = quiet

Next ==
    \/ \E failing \in SUBSET Declared : start_realm_in(failing)
    \/ \E id \in Ids :
          \/ \E goes \in {"up", "unforked", "unattached"} : launch(id, goes)
          \/ realm_dies(id) \/ goes_deaf(id) \/ focus(id)
          \/ \E serial \in 0 .. MaxPromotions - 1, good \in BOOLEAN : selection(id, serial, good)
          \/ \E kind \in {"None", "NoSurface", "Oneshot", "Persistent"}, serial \in Serials :
                pointer_constraint(id, kind, serial)
    \/ physical_move \/ promote \/ offer
    \/ apply_dead_man \/ suspend_physical_seat \/ seat_returns \/ gates_change
    \/ reconcile_pointer_constraints \/ sweep \/ shutdown_realm \/ tick

Spec == Init /\ [][Next]_vars

-----------------------------------------------------------------------------
(* While a realm is serving the output shows one that is, and the human's  *)
(* input is bound to no other: through launches that fail half way, focus  *)
(* changes and deaths in any order no key goes to an app the human does    *)
(* not see (rebind_output_after_death, reset_for, bind_to).                *)
InputFollowsTheOutput ==
    /\ w.bound \subseteq w.view /\ w.view \subseteq w.serving
    /\ w.view = {} => w.serving = {}

(* An id that named a realm never names another: a launch that failed to   *)
(* attach leaves no row, but its number is spent (mint_instance), so a     *)
(* grant or an `unavailable` over an id means that realm for good.         *)
NamesAreNotReused == [][\A id \in w'.serving \ w.serving : id \notin w.born]_vars

Terminal == {"Superseded", "Withdrawn", "Refused"}

(* What the human pastes is what they copied: an offer goes to the realm   *)
(* in view and carries the answer of the realm that was in view at the     *)
(* promote gesture, to that gesture and not to one it replaced; the realm  *)
(* is alive, the content younger than its lifetime, and no dead-man        *)
(* trigger lies between the gesture and the paste, however late or often   *)
(* the shims answered.                                                     *)
OffersAreTheHumans ==
    \A o \in w.offer :
        LET ask == w.asked[o.what.serial]
        IN  /\ {o.to} = w.view
            /\ o.what.source = ask.realm /\ o.what.latest
            /\ o.what.source \in w.serving
            /\ now - o.what.at < CLIPBOARD_LIFETIME
            /\ ask.trips = w.trips

(* An app the core can reach knows what became of every ask: at each       *)
(* reconciliation the recorded one was told its present state and every    *)
(* other one its end; and the human's cursor is never hidden for an app    *)
(* that was not told it holds the pointer (ask, withdraw, reconcile).      *)
AppsKnowTheirConstraint ==
    \A id \in w.serving \ w.deaf :
        /\ hides_human_sprite(w, id) => w.told[id][w.records[id].serial] = "Active"
        /\ w.settled =>
              \A s \in Serials :
                 IF id \in DOMAIN w.records /\ w.records[id].serial = s
                 THEN w.told[id][s] = live_state(w, id)
                 ELSE w.told[id][s] \in Terminal \cup {"nothing"}

(* A constraint that is in force when the seat goes is over: its record is *)
(* removed, so that it cannot be in force again when the human comes back  *)
(* (what suspend_physical_seat says of itself).                            *)
PauseEndsTheConstraint ==
    [][(w.seat /\ ~w'.seat) =>
          \A id \in w.view : hides_human_sprite(w, id) => id \notin DOMAIN w'.records]_vars
=============================================================================
